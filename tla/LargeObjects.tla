---------------------------- MODULE LargeObjects ----------------------------
(***************************************************************************)
(* libpqxx: a large object, the transaction that uses it, and the two      *)
(* ways to its bytes: largeobjectaccess, which passes every call on, and   *)
(* largeobject_streambuf below the streams ilostream, olostream and        *)
(* lostream, which keeps a get area and a put area, both over the one      *)
(* position that the server keeps for the open object.                     *)
(***************************************************************************)
EXTENDS Integers, Sequences

CONSTANTS Bytes,     \* the bytes written, of 0 .. 255
          bufsize,   \* m_bufsize
          MaxSize    \* bound: the bytes of the object

ASSUME BytesAssumption == Bytes \subseteq 0 .. 255
ASSUME bufsizeAssumption == bufsize \in Nat \ {0}

VARIABLES o,       \* the object, its transaction and the object opened on it
          latest   \* the latest call and what came of it

EoF == -1
Missing == <<-1>>    \* no such object

(***************************************************************************)
(* Fields of o.  Of the server: data, what the transaction sees (Missing   *)
(* when there is no object), at, the position, and tx, "open" or "failed". *)
(* Of the program: as, "none", "access" or the kind of stream; get, from   *)
(* eback to egptr, and next, how far gptr is in it; put, from pbase to     *)
(* pptr.  For the properties: want and spot, the bytes and the position if *)
(* there were no areas, and apart, whether the program has let the two     *)
(* areas get into each other's way or the server has not taken all of one. *)
(***************************************************************************)
Readable(w) == w.as \in {"ilostream", "lostream"}
Writable(w) == w.as \in {"olostream", "lostream"}
Overwritten(bytes, at, new) ==
  [i \in 1 .. (IF at + Len(new) > Len(bytes) THEN at + Len(new) ELSE Len(bytes)) |->
     IF i \in at + 1 .. at + Len(new) THEN new[i - at] ELSE IF i <= Len(bytes) THEN bytes[i] ELSE 0]

(***************************************************************************)
(* The large object functions of libpq.  Any of them may fail, and then    *)
(* the server aborts the transaction.                                      *)
(***************************************************************************)
Fails(w) == [w |-> [w EXCEPT !.tx = "failed", !.data = Missing, !.at = 0], n |-> -1, r |-> <<>>]
Answer(w, n, r) == [w |-> w, n |-> n, r |-> r]
Either(w, possible, answer) == {Fails(w)} \cup (IF w.tx = "open" /\ possible THEN {answer} ELSE {})

lo_creat(w) == Either(w, w.data = Missing, Answer([w EXCEPT !.data = <<>>], 1, <<>>))
lo_import(w, bytes) == Either(w, w.data = Missing, Answer([w EXCEPT !.data = bytes], 1, <<>>))
lo_export(w) == Either(w, w.data # Missing, Answer(w, 1, w.data))
lo_unlink(w) == Either(w, w.data # Missing, Answer([w EXCEPT !.data = Missing], 1, <<>>))
lo_open(w) == Either(w, w.data # Missing, Answer([w EXCEPT !.at = 0], 0, <<>>))
lo_lseek(w, dest, dir) ==
  LET at == dest + (CASE dir = "beg" -> 0 [] dir = "cur" -> w.at [] dir = "end" -> Len(w.data))
  IN  Either(w, w.data # Missing /\ at >= 0, Answer([w EXCEPT !.at = at], at, <<>>))
\* The server may take only the first of the bytes.
lo_write(w, bytes) ==
  LET took(n) == Answer([w EXCEPT !.data = Overwritten(@, w.at, SubSeq(bytes, 1, n)), !.at = @ + n], n, <<>>)
  IN  UNION {Either(w, w.data # Missing, took(n)) : n \in 1 .. Len(bytes)}
lo_read(w, n) ==
  LET r == SubSeq(w.data, w.at + 1, IF w.at + n < Len(w.data) THEN w.at + n ELSE Len(w.data))
  IN  Either(w, w.data # Missing, Answer([w EXCEPT !.at = @ + Len(r)], Len(r), r))

-----------------------------------------------------------------------------
(* largeobject_streambuf *)

initialize(w, as) == [w EXCEPT !.as = as, !.get = <<>>, !.next = 0, !.put = <<>>]

\* Mutant: what is in the put area is forgotten when it is full.
overflow_unwritten(w, ch) == {Answer([w EXCEPT !.put = ch], IF Writable(w) THEN 0 ELSE EoF, <<>>)}

\* ch is the one more character, or none; n is what overflow returns.  What the
\* server has not taken is lost.
overflow(w, ch) ==
  IF ~Writable(w) THEN {Answer(w, EoF, <<>>)}
  ELSE {Answer([a.w EXCEPT !.put = ch, !.apart = @ \/ a.n < Len(w.put)], a.n, <<>>) :
          a \in IF w.put = <<>> THEN {Answer(w, 0, <<>>)} ELSE lo_write(w, w.put)}

\* setg(eback, eback, egptr), and overflow() without a character
sync(w) == overflow([w EXCEPT !.next = 0], <<>>)

\* seekoff and seekpos; neither area is touched.
seekoff(w, dest, dir) == lo_lseek(w, dest, dir)

\* The first byte of the block is returned as a char, which may be negative.
as_char(byte) == IF byte > 127 THEN byte - 256 ELSE byte
underflow(w) ==
  IF ~Readable(w) THEN {Answer(w, EoF, <<>>)}
  ELSE {Answer([a.w EXCEPT !.get = a.r, !.next = 0], IF a.n < 1 THEN EoF ELSE as_char(a.r[1]), <<>>) :
          a \in lo_read(w, bufsize)}

\* The standard's sbumpc and sputc, which the streams call.
Bump(w) == Answer([w EXCEPT !.next = @ + 1], w.get[w.next + 1], <<>>)
sbumpc(w) ==
  IF w.next < Len(w.get) THEN {Bump(w)}
  ELSE {IF u.n = EoF THEN u ELSE Bump(u.w) : u \in underflow(w)}
sputc(w, byte) ==
  IF Len(w.put) < bufsize THEN {Answer([w EXCEPT !.put = Append(@, byte)], byte, <<>>)}
  ELSE overflow(w, <<byte>>)

-----------------------------------------------------------------------------
(* The calls of a program.                                                 *)

NoObject == [data |-> Missing, at |-> 0, tx |-> "open", as |-> "none",
             get |-> <<>>, next |-> 0, put |-> <<>>, want |-> <<>>, spot |-> 0, apart |-> FALSE]
ObjectInit == o = NoObject /\ latest = [call |-> "none", n |-> 0]

Ends(call, w, n) ==
  /\ w.at + Len(w.put) <= MaxSize
  /\ o' = IF w.apart \/ w.tx = "failed" THEN [w EXCEPT !.want = <<>>, !.spot = 0] ELSE w
  /\ latest' = [call |-> call, n |-> IF call = "get" THEN n ELSE 0]
Drained(w) == w.next = Len(w.get) /\ w.put = <<>>

\* largeobject: an identity, whose calls throw when the server's fail
Create == o.as = "none" /\ \E a \in lo_creat(o) : Ends("create", a.w, a.n)
Import == o.as = "none" /\ \E byte \in Bytes : \E a \in lo_import(o, <<byte, byte>>) : Ends("import", a.w, a.n)
RemoveObject == \E a \in lo_unlink(o) : Ends("remove", a.w, a.n)
ToFile == \E a \in lo_export(o) : Ends("to_file", a.w, a.n)

\* largeobjectaccess: opened (or not: the constructor throws), used and closed
Opened(w, as) == [initialize(w, as) EXCEPT !.want = w.data, !.spot = 0, !.apart = FALSE]
Open ==
  /\ o.as = "none"
  /\ \E as \in {"access", "ilostream", "olostream", "lostream"} : \E a \in lo_open(o) :
       Ends("open", IF a.n < 0 THEN a.w ELSE Opened(a.w, as), a.n)
WriteBytes ==
  /\ o.as = "access"
  /\ \E byte \in Bytes : \E a \in lo_write(o, <<byte>>) :
       Ends("write", [a.w EXCEPT !.want = Overwritten(@, o.at, <<byte>>), !.spot = a.w.at], a.n)
ReadBytes == o.as = "access" /\ \E n \in 1 .. bufsize : \E a \in lo_read(o, n) : Ends("read", [a.w EXCEPT !.spot = a.w.at], a.n)
Seek ==
  /\ o.as # "none"
  /\ \E dest \in -1 .. 1, dir \in {"beg", "cur", "end"} : \E a \in seekoff(o, dest, dir) :
       Ends("seek", [a.w EXCEPT !.spot = a.w.at, !.apart = @ \/ ~Drained(o)], a.n)

\* The streams
GetChar ==
  /\ Readable(o)
  /\ \E a \in sbumpc(o) :
       Ends("get", [a.w EXCEPT !.spot = IF a.n = EoF THEN @ ELSE @ + 1, !.apart = @ \/ o.put # <<>>], a.n)
PutChar ==
  /\ Writable(o)
  /\ \E byte \in Bytes : \E a \in sputc(o, byte) :
       Ends("put", [a.w EXCEPT !.want = Overwritten(@, o.spot, <<byte>>), !.spot = @ + 1,
                               !.apart = @ \/ o.next < Len(o.get)], a.n)
Sync ==
  /\ Readable(o) \/ Writable(o)
  /\ \E a \in sync(o) : Ends("sync", [a.w EXCEPT !.apart = @ \/ o.next > 0], a.n)

\* The destructors; olostream and lostream sync twice.
Closed(w) == [initialize(w, "none") EXCEPT !.at = 0]
Destroy ==
  /\ o.as # "none"
  /\ IF Writable(o) THEN \E a \in sync(o) : \E b \in sync(a.w) : Ends("close", Closed(b.w), b.n)
     ELSE Ends("close", Closed(o), 0)

\* Another transaction, another object.
EndTransaction == o.as = "none" /\ Ends("none", NoObject, 0)

ObjectNext == \/ Create \/ Import \/ RemoveObject \/ ToFile \/ Open \/ WriteBytes \/ ReadBytes \/ Seek
              \/ GetChar \/ PutChar \/ Sync \/ Destroy \/ EndTransaction

ObjectSpec == ObjectInit /\ [][ObjectNext]_<<o, latest>>

-----------------------------------------------------------------------------
(* Properties                                                              *)

\* The areas of largeobject_streambuf do not show: unless the program has
\* moved or turned round with something in an area, or the server has taken
\* only part of the put area (the rest is dropped), what it gets is what it
\* would get without them, the end of the stream is the end of the object,
\* and what it has put is in the object once the stream is closed - or the
\* transaction has failed and cannot be committed.  Not so for a block that
\* begins with byte 255, which is taken for the end (see the README).
AreasDoNotShow ==
  ~o.apart /\ o.tx = "open" /\ o.data # Missing =>
    /\ latest.call = "get" /\ latest.n # EoF => latest.n = o.want[o.spot]
    /\ latest.call = "get" /\ latest.n = EoF => o.spot >= Len(o.want) \/ o.want[o.spot + 1] = 255
    /\ latest.call = "close" => o.data = o.want
=============================================================================
