---------------------------- MODULE JsonParser ----------------------------
(***************************************************************************)
(* json.hpp, class parser: the loop of sax_parse_internal with its         *)
(* explicit stack, over the tokens the lexer hands it, and the two classes *)
(* that build the value from its events: json_sax_dom_parser (json::parse  *)
(* without a callback, as this program calls it) and                       *)
(* json_sax_dom_callback_parser (json::parse with one).  The text is read  *)
(* token by token and each token is any of Tokens; a callback answers as   *)
(* it likes.  A pointer into the value being built is the path to it.      *)
(***************************************************************************)
EXTENDS JsonGrammar, TLC

CONSTANTS MaxTokens,   \* bound: the tokens that a text has before its end,
          LongBeginnings  \* but for those that go on after one of these

VARIABLES consumer,    \* which class handles the events
          tokens,      \* the tokens read so far, last_token at the end
          answers,     \* what the callback said at which token
          states,      \* the parser's stack: TRUE in an array, FALSE in an object
          mode,        \* where the loop stands
          sax,         \* the members of the event handler
          result       \* what parse() returned or threw

parserVars == <<consumer, tokens, answers, states, mode, sax, result>>

Ptr(path) == [to |-> path]
Nullptr   == [nullptr |-> 0]

MemberKeys == {<<1>>, <<2>>}
Key(k) == Literal("value_string", String(k))
\* value_unsigned stands for every scalar but a string, and value_float for a
\* number that no double holds
Scalars == {Key(k) : k \in MemberKeys} \cup {Literal("value_unsigned", Unsigned(0))}
Tokens == Scalars \cup {Literal("value_float", Overflow)} \cup {Token(name) : name \in
            {"begin_object", "end_object", "begin_array", "end_array",
             "name_separator", "value_separator", "parse_error", "end_of_input"}}

last_token == tokens[Len(tokens)].token

\* scan() finds the end of the text where the bounds say
Scanned(read) == IF Len(read) < MaxTokens \/ read \in LongBeginnings THEN Tokens ELSE {Token("end_of_input")}

(***************************************************************************)
(* The value under construction.                                           *)
(***************************************************************************)
Child(j, e) == IF Is(j, "array") THEN j.array[e]
               ELSE (CHOOSE m \in {j.object[i] : i \in DOMAIN j.object} : m.key = e).value
RECURSIVE ValueAt(_, _), SetAt(_, _, _)
ValueAt(j, path) == IF path = <<>> THEN j ELSE ValueAt(Child(j, Head(path)), Tail(path))
SetAt(j, path, v) ==
  IF path = <<>> THEN v
  ELSE LET changed == SetAt(Child(j, Head(path)), Tail(path), v)
       IN  IF Is(j, "array") THEN Array([j.array EXCEPT ![Head(path)] = changed])
           ELSE Object(Put(j.object, Head(path), changed))

Back(s)    == s.ref_stack[Len(s.ref_stack)]
BackValue(s) == ValueAt(s.root, Back(s).to)
Push(s, p) == [s EXCEPT !.ref_stack = Append(@, p)]
Pop(s)     == [s EXCEPT !.ref_stack = Front(@)]
Abort(s)   == [s EXCEPT !.aborted = TRUE]

AppendAt(s, v) ==
  [s |-> [s EXCEPT !.root = SetAt(@, Back(s).to, Array(Append(BackValue(s).array, v)))],
   at |-> Ptr(Append(Back(s).to, Len(BackValue(s).array) + 1))]
StoreAt(s, v) ==
  IF s.object_element = Nullptr THEN [s |-> Abort(s), at |-> Nullptr]
  ELSE [s |-> [s EXCEPT !.root = SetAt(@, s.object_element.to, v)], at |-> s.object_element]

(***************************************************************************)
(* json_sax_dom_parser.                                                    *)
(***************************************************************************)
dom_handle_value(s, v) ==
  IF s.ref_stack = <<>> THEN [s |-> [s EXCEPT !.root = v], at |-> Ptr(<<>>)]
  ELSE IF Is(BackValue(s), "array") THEN AppendAt(s, v)
  ELSE StoreAt(s, v)

dom_start(s, empty) == LET h == dom_handle_value(s, empty) IN Push(h.s, h.at)

\* operator[] leaves an older member of that key as it is
dom_key(s, k) ==
  LET o == BackValue(s).object
      known == \E i \in DOMAIN o : o[i].key = k
  IN  [s EXCEPT !.root = IF known THEN @ ELSE SetAt(@, Back(s).to, Object(Put(o, k, Null))),
                !.object_element = Ptr(Append(Back(s).to, k))]

(***************************************************************************)
(* json_sax_dom_callback_parser; keep is what the callback answers.        *)
(***************************************************************************)
cb_handle_value(s, v, keep) ==
  IF s.keep_stack = <<>> THEN [s |-> Abort(s), at |-> Nullptr]
  ELSE IF ~Last(s.keep_stack) \/ ~keep THEN [s |-> s, at |-> Nullptr]
  ELSE IF s.ref_stack = <<>> THEN [s |-> [s EXCEPT !.root = v], at |-> Ptr(<<>>)]
  ELSE IF Back(s) = Nullptr THEN [s |-> s, at |-> Nullptr]
  ELSE IF Is(BackValue(s), "array") THEN AppendAt(s, v)
  ELSE IF s.key_keep_stack = <<>> \/ ~Is(BackValue(s), "object")
         THEN [s |-> Abort(s), at |-> Nullptr]
  ELSE LET popped == [s EXCEPT !.key_keep_stack = Front(@)]
       IN  IF Last(s.key_keep_stack) THEN StoreAt(popped, v) ELSE [s |-> popped, at |-> Nullptr]

cb_start(s, empty, keep) ==
  LET h == cb_handle_value([s EXCEPT !.keep_stack = Append(@, keep)], empty, TRUE)
  IN  Push(h.s, h.at)

cb_key(s, k, keep) ==
  LET pushed == [s EXCEPT !.key_keep_stack = Append(@, keep)]
  IN  IF keep /\ Back(s) # Nullptr
        THEN [pushed EXCEPT !.root = SetAt(@, Append(Back(s).to, k), Discarded),
                            !.object_element = Ptr(Append(Back(s).to, k))]
        ELSE pushed

\* what both ends do: discard the container itself, and leave it
cb_leave(s, keep) ==
  LET left == IF Back(s) = Nullptr \/ keep THEN s
              ELSE [s EXCEPT !.root = SetAt(@, Back(s).to, Discarded)]
  IN  [Pop(left) EXCEPT !.keep_stack = Front(@)]

\* for (it ...) if (it->is_discarded()) { erase(it); break; }
\* mutant: the member that it erases is the last one
FirstErasedLast(o) ==
  LET gone == {i \in DOMAIN o : Is(o[i].value, "discarded")}
  IN  IF gone = {} THEN o ELSE Front(o)

FirstErased(o) ==
  LET gone == {i \in DOMAIN o : Is(o[i].value, "discarded")}
  IN  IF gone = {} THEN o ELSE RemoveAt(o, CHOOSE i \in gone : \A k \in gone : i <= k)

cb_end_object(s, keep) ==
  LET t == cb_leave(s, keep)
  IN  IF t.ref_stack # <<>> /\ Back(t) # Nullptr /\ Is(BackValue(t), "object")
        THEN [t EXCEPT !.root = SetAt(@, Back(t).to, Object(FirstErased(BackValue(t).object)))]
        ELSE t

cb_end_array(s, keep) ==
  LET t == cb_leave(s, keep)
      discarded == Back(s) # Nullptr /\ ~keep
  IN  IF discarded /\ t.ref_stack # <<>> /\ Is(BackValue(t), "array")
        THEN [t EXCEPT !.root = SetAt(@, Back(t).to, Array(Front(BackValue(t).array)))]
        ELSE t

(***************************************************************************)
(* The events.  Each calls the callback at most once; Answer is what it    *)
(* may be told, and nothing is asked where the code does not call it.      *)
(***************************************************************************)
Answer(asked) == IF asked /\ consumer = "callback" THEN BOOLEAN ELSE {TRUE}

Noted(read, keep) == answers @@ (Len(read) :> keep)

start(s, empty, keep) == IF consumer = "dom" THEN dom_start(s, empty) ELSE cb_start(s, empty, keep)
sax_key(s, k, keep)    == IF consumer = "dom" THEN dom_key(s, k) ELSE cb_key(s, k, keep)
end_object(s, keep)   == IF consumer = "dom" THEN Pop(s) ELSE cb_end_object(s, keep)
end_array(s, keep)    == IF consumer = "dom" THEN Pop(s) ELSE cb_end_array(s, keep)
sax_value(s, v, keep)  == IF consumer = "dom" THEN dom_handle_value(s, v).s
                                            ELSE cb_handle_value(s, v, keep).s

(***************************************************************************)
(* The parser.                                                             *)
(***************************************************************************)
Fresh == [root |-> Null, ref_stack |-> <<>>, keep_stack |-> <<TRUE>>, key_keep_stack |-> <<>>,
          object_element |-> Nullptr, aborted |-> FALSE]

Running == [running |-> 0]
Thrown  == [thrown |-> 0]

\* the constructor reads the first token
ParserInit ==
  /\ consumer \in {"dom", "callback"}
  /\ \E t \in Scanned(<<>>) : tokens = <<t>>
  /\ answers = <<>> /\ states = <<>> /\ mode = "value" /\ sax = Fresh /\ result = Running

Steps(m, read, s) == mode' = m /\ tokens' = read /\ sax' = s

(***************************************************************************)
(* sax->parse_error throws; if parse() was told not to, it goes on to read *)
(* one more token (strict) and returns a discarded value.                  *)
(***************************************************************************)
parse_error(read) ==
  /\ mode' = "done" /\ sax' = sax /\ states' = states /\ answers' = answers
  /\ tokens' = read
  /\ result' \in {Thrown, Discarded}

\* key, then ":", then the first token of the value
member(s, read, noted, pushed) ==
  \E t2 \in Scanned(read) :
    IF t2.token = "name_separator"
      THEN \E t3 \in Scanned(Append(read, t2)) :
             /\ Steps("value", read \o <<t2, t3>>, s)
             /\ states' = pushed /\ answers' = noted /\ result' = result
      ELSE parse_error(Append(read, t2))

BeginObject ==
  /\ mode = "value" /\ last_token = "begin_object"
  /\ \E keep \in Answer(TRUE), t1 \in Scanned(tokens) :
       LET s    == start(sax, Object(<<>>), keep)
           read == Append(tokens, t1)
           told == Noted(tokens, keep)
       IN  CASE t1.token = "end_object" ->
                  \E kept \in Answer(Back(s) # Nullptr) :
                     /\ Steps("evaluate", read, end_object(s, kept))
                     /\ answers' = told @@ (Len(read) :> kept)
                     /\ UNCHANGED <<states, result>>
             [] t1.token = "value_string" ->
                  \E kept \in Answer(TRUE) :
                     member(sax_key(s, t1.value.string, kept), read, told @@ (Len(read) :> kept),
                            Append(states, FALSE))
             [] OTHER -> parse_error(read)
  /\ UNCHANGED consumer

BeginArray ==
  /\ mode = "value" /\ last_token = "begin_array"
  /\ \E keep \in Answer(TRUE), t1 \in Scanned(tokens) :
       LET s    == start(sax, Array(<<>>), keep)
           read == Append(tokens, t1)
           told == Noted(tokens, keep)
       IN  IF t1.token = "end_array"
             THEN \E kept \in Answer(Back(s) # Nullptr) :
                    /\ Steps("evaluate", read, end_array(s, kept))
                    /\ answers' = told @@ (Len(read) :> kept)
                    /\ states' = states
             ELSE /\ Steps("value", read, s)
                  /\ answers' = told
                  /\ states' = Append(states, TRUE)
  /\ UNCHANGED <<consumer, result>>

Scalar ==
  /\ mode = "value" /\ tokens[Len(tokens)] \in Scalars
  /\ \E keep \in Answer(Last(sax.keep_stack)) :
       /\ Steps("evaluate", tokens, sax_value(sax, tokens[Len(tokens)].value, keep))
       /\ answers' = Noted(tokens, keep)
  /\ UNCHANGED <<consumer, states, result>>

\* a number out of range, a token the lexer could not scan, one out of place
NoValue ==
  /\ mode = "value"
  /\ tokens[Len(tokens)] \notin Scalars \cup {Token("begin_object"), Token("begin_array")}
  /\ parse_error(tokens)
  /\ UNCHANGED consumer

(***************************************************************************)
(* A value is complete: what comes next, in the array or object around it. *)
(***************************************************************************)
NextElement ==
  /\ mode = "evaluate" /\ states # <<>> /\ Last(states)
  /\ \E t1 \in Scanned(tokens) :
       LET read == Append(tokens, t1) IN
       CASE t1.token = "value_separator" ->
              \E t2 \in Scanned(read) :
                 Steps("value", Append(read, t2), sax) /\ UNCHANGED <<states, answers, result>>
         [] t1.token = "end_array" ->
              \E kept \in Answer(Back(sax) # Nullptr) :
                 /\ Steps("evaluate", read, end_array(sax, kept))
                 /\ answers' = Noted(read, kept)
                 /\ states' = Front(states) /\ result' = result
         [] OTHER -> parse_error(read)
  /\ UNCHANGED consumer

NextMember ==
  /\ mode = "evaluate" /\ states # <<>> /\ ~Last(states)
  /\ \E t1 \in Scanned(tokens) :
       LET read == Append(tokens, t1) IN
       CASE t1.token = "value_separator" ->
              \E t2 \in Scanned(read) :
                 LET next == Append(read, t2) IN
                 IF t2.token = "value_string"
                   THEN \E kept \in Answer(TRUE) :
                          member(sax_key(sax, t2.value.string, kept), next, Noted(next, kept), states)
                   ELSE parse_error(next)
         [] t1.token = "end_object" ->
              \E kept \in Answer(Back(sax) # Nullptr) :
                 /\ Steps("evaluate", read, end_object(sax, kept))
                 /\ answers' = Noted(read, kept)
                 /\ states' = Front(states) /\ result' = result
         [] OTHER -> parse_error(read)
  /\ UNCHANGED consumer

\* mutant: what follows the value is not looked at
FinishEarly ==
  /\ mode = "evaluate" /\ states = <<>>
  /\ \E t1 \in Scanned(tokens) :
       /\ mode' = "done" /\ tokens' = Append(tokens, t1)
       /\ result' = IF consumer = "callback" /\ sax.root = Discarded THEN Null ELSE sax.root
  /\ UNCHANGED <<states, sax, answers, consumer>>

\* parse(strict): nothing may follow the value, and one that the callback
\* discarded becomes null
Finish ==
  /\ mode = "evaluate" /\ states = <<>>
  /\ \E t1 \in Scanned(tokens) :
       IF t1.token = "end_of_input"
         THEN /\ mode' = "done" /\ tokens' = Append(tokens, t1)
              /\ result' = IF consumer = "callback" /\ sax.root = Discarded THEN Null ELSE sax.root
              /\ UNCHANGED <<states, sax, answers>>
         ELSE parse_error(Append(tokens, t1))
  /\ UNCHANGED consumer

ParserNext == BeginObject \/ BeginArray \/ Scalar \/ NoValue \/ NextElement \/ NextMember \/ Finish

Kept == {i \in DOMAIN answers : answers[i]}

\* the value without the discarded values inside it
RECURSIVE Stripped(_)
Stripped(j) ==
  CASE Is(j, "array")  ->
         LET kept == SelectSeq(j.array, LAMBDA e : ~Is(e, "discarded"))
         IN  Array([i \in DOMAIN kept |-> Stripped(kept[i])])
    [] Is(j, "object") ->
         LET kept == SelectSeq(j.object, LAMBDA m : ~Is(m.value, "discarded"))
         IN  Object([i \in DOMAIN kept |-> [kept[i] EXCEPT !.value = Stripped(@)]])
    [] OTHER -> j

Returned == mode = "done" /\ result \notin {Thrown, Discarded}

(***************************************************************************)
(* parse() accepts the texts of the grammar and no others, and it reports  *)
(* an error at the first token that no text could go on with: what it had  *)
(* read before could still have become one (sax_parse_internal).           *)
(***************************************************************************)
ErrorAtTheFirstWrongToken ==
  mode = "done" =>
    IF Returned THEN MeantText(tokens, Kept).st = "ok"
    ELSE MeantText(tokens, Kept).st = "bad" /\ MeantText(Front(tokens), Kept).st = "more"

(***************************************************************************)
(* The value returned holds what the callback kept at every level, in its  *)
(* place, and nothing it refused, whatever was nested in what, and is all  *)
(* of the text where there is no callback.  Left-overs marked as discarded *)
(* are not counted: end_object erases the first of them only (3147-3159).  *)
(***************************************************************************)
ReturnsWhatWasKept ==
  Returned => LET m == MeantText(tokens, Kept)
              IN  Stripped(result) = IF m.stays THEN m.v ELSE Null
=============================================================================
