------------------------------ MODULE JsonDump ------------------------------
(***************************************************************************)
(* json.hpp, serializer: dump_escaped, byte by byte, for each of Dumped in *)
(* every way a program can ask for.                                        *)
(***************************************************************************)
EXTENDS JsonEscape

CONSTANT Dumped        \* the strings
ASSUME DumpedAssumption == \A s \in Dumped : s \in Seq(0 .. 255)

VARIABLES string, ensure_ascii, error_handler,    \* what is asked for
          escape,    \* where dump_escaped stands
          text       \* what it has written when it is over

dumpVars == <<string, ensure_ascii, error_handler, escape, text>>

Unwritten == [ok |-> FALSE, out |-> <<>>]

DumpInit ==
  /\ string \in Dumped
  /\ ensure_ascii \in BOOLEAN /\ error_handler \in {"strict", "replace", "ignore"}
  /\ escape = Scanning /\ text = Unwritten

DumpByte ==
  /\ escape.i \in DOMAIN string
  /\ escape' = escape_byte(string, escape, ensure_ascii, error_handler)
  /\ UNCHANGED <<string, ensure_ascii, error_handler, text>>

DumpEnd ==
  /\ escape.i \notin DOMAIN string
  /\ text' = escape_end(escape, ensure_ascii, error_handler)
  /\ UNCHANGED <<string, ensure_ascii, error_handler, escape>>

DumpNext == DumpByte \/ DumpEnd
DumpSpec == DumpInit /\ [][DumpNext]_dumpVars

(***************************************************************************)
(* dump_escaped never writes past its buffer, whatever the string and      *)
(* wherever it is broken: the 13 bytes it keeps free are enough for the    *)
(* longest escape and for the code points it has only begun.               *)
(***************************************************************************)
BufferIsEnough == escape.most <= Buffer

(***************************************************************************)
(* With ensure_ascii the text is ASCII, for strings that are not UTF-8 as  *)
(* well: no byte of a code point that is escaped, replaced or ignored gets *)
(* into it, and no code point that is not ASCII passes for one that is.    *)
(***************************************************************************)
Ascii(s) == \A k \in DOMAIN s : s[k] <= \h7F
AsciiOnly == ensure_ascii => Ascii(text.out)
=============================================================================
