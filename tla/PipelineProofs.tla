--------------------------- MODULE PipelineProofs ---------------------------
(***************************************************************************)
(* What holds of module Pipeline for any number of queries, provided that  *)
(* a batch fails only when one of its queries is at fault.                 *)
(*                                                                         *)
(* The properties follow from where the pipeline and libpq stand between   *)
(* two calls (PipelineInvariant).  What is left of the answers is, in      *)
(* order, for the oldest of the issued queries, or for the dummy and then  *)
(* for them (InStep): so the result that get_result returns next is that   *)
(* of m_issuedrange.first.  A batch that has been refused holds a query    *)
(* that is wrong, unless the transaction has failed (Refused): so the      *)
(* replay ends with an error, and never runs to the end of the batch.  And *)
(* an error stops the pipeline for good (Stopped): it lies at or before    *)
(* what has not been issued, and nothing is issued any more.               *)
(*                                                                         *)
(* The operations are sets of outcomes; each is described once, by a lemma *)
(* about any of its outcomes.  A loop of the code is a function of the     *)
(* number of times it has gone round, and its lemma an induction on that.  *)
(***************************************************************************)
EXTENDS Pipeline, FiniteSetTheorems, FunctionTheorems, SequenceTheorems, NaturalsInduction, WellFoundedInduction, TLAPS

-----------------------------------------------------------------------------
(* Pipelines *)

QueryKinds == {"good", "syntax", "runtime"}
AnswerType == [of : Nat, ok : BOOLEAN]
Own(q) == {NoResult, BatchError, [of |-> q, ok |-> TRUE], [of |-> q, ok |-> FALSE]}

World(w) == DOMAIN w = {"queries", "first", "second", "retain", "waiting", "q_id", "dummy", "error",
                        "registered", "tx", "active", "answers", "stray", "cancelled", "got"}

Pending(w) == {q \in Known(w) : w.first <= q /\ q < w.second}
Left(w, q) == Cardinality(From(w, q))

Typed(w) ==
    /\ w.q_id \in 0 .. MaxQueries /\ Known(w) \subseteq 1 .. w.q_id /\ w.waiting \in Int
    /\ w.answers \in Seq(AnswerType)
    /\ \A q \in Known(w) : /\ w.queries[q].kind \in QueryKinds /\ w.queries[q].res \in Own(q)
                           /\ DOMAIN w.queries[q] = {"kind", "res"}

\* The issued range is a range, and no more is counted as waiting than waits.
Ranged(w) ==
    /\ {w.first, w.second} \subseteq Known(w) \cup {NoMore} /\ w.first <= w.second
    /\ w.waiting <= Left(w, w.second)

Stopped(w) ==
    /\ w.error \in 0 .. Limit
    /\ w.error < Limit => w.first = w.second /\ w.error <= w.first /\ w.error <= w.q_id + 1
    /\ w.tx = "gone" => w.error < Limit
    /\ w.stray = FALSE /\ w.tx \in {"non", "open", "failed", "gone"}

\* Before an error, those that have been received are the ones before first.
Held(w) ==
    \A q \in Known(w) : q < w.error =>
        /\ q < w.first => w.queries[q].res # NoResult
        /\ q >= w.first => w.queries[q].res = NoResult
        /\ w.tx = "non" /\ w.queries[q].res.ok = FALSE => w.queries[q].kind # "good"

\* The answers ans are, in order, for the oldest queries of the issued range.
Matches(w, ans) ==
    \A i \in 1 .. Len(ans) :
        /\ ans[i].of \in Pending(w)
        /\ w.tx = "non" /\ ans[i].ok = FALSE => w.queries[ans[i].of].kind # "good"
        /\ \A j \in 1 .. i - 1 : ans[j].of < ans[i].of
        /\ \A q \in Pending(w) : q < ans[i].of => \E j \in 1 .. i - 1 : ans[j].of = q

Wrong(w) == w.tx = "non" => \E q \in Pending(w) : w.queries[q].kind # "good"

Refused(w) == w.answers = <<BatchError>> /\ w.tx # "open" /\ Wrong(w)

Expected(w) == w.answers # <<>> /\ Head(w.answers) = NoResult /\ Matches(w, Tail(w.answers))

Quiet(w) == w.answers = <<>> /\ w.dummy = FALSE

InStep(w) ==
    /\ w.dummy \in BOOLEAN /\ w.cancelled \in BOOLEAN
    /\ ~have_pending(w) => Quiet(w) \/ w.cancelled = TRUE
    /\ have_pending(w) /\ w.dummy = FALSE => Matches(w, w.answers)
    /\ have_pending(w) /\ w.dummy = TRUE => Refused(w) \/ Expected(w)

PipelineInvariant(w) == World(w) /\ Typed(w) /\ Ranged(w) /\ Stopped(w) /\ Held(w) /\ InStep(w)

-----------------------------------------------------------------------------
(* Numbers and sets of them *)

LEMMA LessIs == \A i, j \in Nat : i < j => <<i, j>> \in OpToRel(<, Nat)
  BY DEF OpToRel

LEMMA NumberInduction ==
    ASSUME NEW S, 0 \in S, \A n \in Nat : n \in S => n + 1 \in S
    PROVE  Nat \subseteq S
<1> SUFFICES ASSUME Nat \ S # {} PROVE FALSE
  OBVIOUS
<1>1. IsWellFoundedOn(OpToRel(<, Nat), Nat)
  BY NatLessThanWellFounded
<1>2. PICK x \in Nat \ S : \A y \in Nat \ S : ~ (<<y, x>> \in OpToRel(<, Nat))
  BY <1>1, WFMin
<1>3. x - 1 \in Nat /\ x - 1 < x /\ (x - 1) + 1 = x
  <2>1. x # 0
    BY <1>2
  <2> QED BY <2>1
<1>4. x - 1 \in S
  BY <1>2, <1>3, LessIs
<1> QED BY <1>2, <1>3, <1>4

LEMMA MinIs ==
    ASSUME NEW S \in SUBSET Nat, S # {}
    PROVE  Min(S) \in S /\ \A x \in S : Min(S) <= x
<1>1. IsWellFoundedOn(OpToRel(<, Nat), Nat)
  BY NatLessThanWellFounded
<1>2. PICK x \in S : \A y \in S : ~ (<<y, x>> \in OpToRel(<, Nat))
  BY <1>1, WFMin
<1>3. \A y \in S : ~ (y < x)
  BY <1>2, LessIs
<1>4. \A i, j \in Nat : ~ (i < j) => j <= i
  OBVIOUS
<1>5. \A y \in S : x <= y
  BY <1>3, <1>4
<1> QED BY <1>5 DEF Min

LEMMA MinOfTwo ==
    ASSUME NEW a \in Int, NEW b \in Int, a <= b
    PROVE  Min({b, a}) = a
<1>1. Min({b, a}) = CHOOSE x \in {b, a} : \A y \in {b, a} : x <= y
  BY DEF Min
<1>2. \A x \in {b, a} : (\A y \in {b, a} : x <= y) => x = a
  OBVIOUS
<1> QED BY <1>1, <1>2

LEMMA SuccessorIs ==
    ASSUME NEW w, Typed(w), NEW q \in Int, q < NoMore
    PROVE  /\ Successor(w, q) \in Known(w) \cup {NoMore} /\ Successor(w, q) \in Nat
           /\ q < Successor(w, q) /\ Successor(w, q) <= NoMore
           /\ \A i \in Known(w) : q < i => Successor(w, q) <= i
<1> DEFINE S == {i \in Known(w) : i > q} \cup {NoMore}
<1>1. Known(w) \subseteq Nat /\ \A i \in Known(w) : i <= NoMore
  BY MaxQueriesAssumption DEF Typed, NoMore
<1>2. NoMore \in Nat
  BY MaxQueriesAssumption DEF NoMore
<1>3. S \in SUBSET Nat /\ S # {}
  BY <1>1, <1>2
<1>4. Min(S) \in S /\ \A x \in S : Min(S) <= x
  BY <1>3, MinIs
<1>5. Successor(w, q) = Min(S)
  BY DEF Successor
<1> HIDE DEF S
<1>6. \A i \in Known(w) : q < i => i \in S
  BY <1>1 DEF S
<1>7. NoMore \in S
  BY DEF S
<1>8. Min(S) \in Known(w) \cup {NoMore} /\ q < Min(S)
  BY <1>4 DEF S
<1> QED BY <1>1, <1>2, <1>4, <1>5, <1>6, <1>7, <1>8

LEMMA FirstKnownIs ==
    ASSUME NEW w, Typed(w)
    PROVE  /\ FirstKnown(w) \in Known(w) \cup {NoMore} /\ FirstKnown(w) \in Nat
           /\ FirstKnown(w) <= NoMore /\ \A i \in Known(w) : FirstKnown(w) <= i
<1> DEFINE S == Known(w) \cup {NoMore}
<1>1. Known(w) \subseteq Nat /\ \A i \in Known(w) : i <= NoMore
  BY MaxQueriesAssumption DEF Typed, NoMore
<1>2. NoMore \in Nat
  BY MaxQueriesAssumption DEF NoMore
<1>3. S \in SUBSET Nat /\ S # {}
  BY <1>1, <1>2
<1>4. Min(S) \in S /\ \A x \in S : Min(S) <= x
  BY <1>3, MinIs
<1>5. FirstKnown(w) = Min(S)
  BY DEF FirstKnown
<1> QED BY <1>1, <1>2, <1>4, <1>5

-----------------------------------------------------------------------------
(* How many queries are left *)

LEMMA LeftIs ==
    ASSUME NEW w, Typed(w), NEW a \in Int
    PROVE  IsFiniteSet(From(w, a)) /\ Left(w, a) \in Nat
<1>1. IsFiniteSet(1 .. w.q_id)
  BY FS_Interval DEF Typed
<1>2. From(w, a) \in SUBSET (1 .. w.q_id)
  BY DEF Typed, From
<1>3. IsFiniteSet(From(w, a))
  BY <1>1, <1>2, FS_Subset
<1> QED BY <1>3, FS_CardinalityType DEF Left

LEMMA LeftOfBatch ==
    ASSUME NEW w, Typed(w), NEW a \in Int, NEW b \in Int, a <= b
    PROVE  /\ IsFiniteSet(From(w, a) \ From(w, b)) /\ Cardinality(From(w, a) \ From(w, b)) \in Nat
           /\ Cardinality(From(w, a) \ From(w, b)) + Left(w, b) = Left(w, a)
<1>1. \A i \in Known(w) : i \in Int
  BY DEF Typed
<1>2. \A i \in Int : b <= i => a <= i
  OBVIOUS
<1>3. From(w, b) \subseteq From(w, a)
  BY <1>1, <1>2 DEF From
<1>4. From(w, a) \cap From(w, b) = From(w, b)
  BY <1>3
<1>5. IsFiniteSet(From(w, a)) /\ Left(w, a) \in Nat /\ Left(w, b) \in Nat
  BY LeftIs
<1>6. /\ IsFiniteSet(From(w, a) \ From(w, b))
      /\ Cardinality(From(w, a) \ From(w, b)) = Cardinality(From(w, a)) - Cardinality(From(w, b))
  BY <1>4, <1>5, FS_Difference
<1>7. Cardinality(From(w, a) \ From(w, b)) \in Nat
  BY <1>6, FS_CardinalityType
<1> QED BY <1>5, <1>6, <1>7 DEF Left

LEMMA LeftGrows ==
    ASSUME NEW w, Typed(w), NEW a \in Int, NEW b \in Int, a <= b
    PROVE  Left(w, b) <= Left(w, a)
<1>1. Left(w, a) \in Nat /\ Left(w, b) \in Nat
  BY LeftIs
<1>2. PICK n \in Nat : n + Left(w, b) = Left(w, a)
  BY LeftOfBatch
<1> QED BY <1>1, <1>2

LEMMA LeftAfterOne ==
    ASSUME NEW w, Typed(w), NEW q \in Known(w)
    PROVE  Left(w, Successor(w, q)) = Left(w, q) - 1
<1>1. q \in Int /\ q < NoMore
  BY MaxQueriesAssumption DEF Typed, NoMore
<1>2. /\ Successor(w, q) \in Nat /\ q < Successor(w, q)
      /\ \A i \in Known(w) : q < i => Successor(w, q) <= i
  BY <1>1, SuccessorIs
<1>3. \A i \in Known(w) : i \in Int
  BY DEF Typed
<1>4. From(w, Successor(w, q)) = From(w, q) \ {q}
  <2> DEFINE s == Successor(w, q)
  <2> HIDE DEF s
  <2>1. \A i \in Known(w) : i >= s <=> i >= q /\ i # q
    BY <1>1, <1>2, <1>3 DEF s
  <2>2. From(w, s) = From(w, q) \ {q}
    BY <2>1 DEF From
  <2> QED BY <2>2 DEF s
<1>5. IsFiniteSet(From(w, q)) /\ q \in From(w, q)
  BY <1>1, LeftIs DEF From
<1> QED BY <1>4, <1>5, FS_RemoveElement DEF Left

LEMMA LeftAtEnd ==
    ASSUME NEW w, Typed(w) PROVE Left(w, NoMore) = 0
<1>1. From(w, NoMore) = {}
  BY MaxQueriesAssumption DEF Typed, From, NoMore
<1> QED BY <1>1, FS_EmptySet DEF Left

\* When something is counted as waiting there is a query that waits.
LEMMA SomeWait ==
    ASSUME NEW w, Typed(w), Ranged(w), w.waiting > 0
    PROVE  w.second \in Known(w)
<1>1. w.second # NoMore
  BY LeftAtEnd DEF Ranged, Typed
<1> QED BY <1>1 DEF Ranged

-----------------------------------------------------------------------------
(* What an operation keeps *)

\* v and w differ at most in retain, registered, active and got.
Like(v, w) ==
    /\ World(v)
    /\ v.queries = w.queries /\ v.first = w.first /\ v.second = w.second /\ v.waiting = w.waiting
    /\ v.q_id = w.q_id /\ v.dummy = w.dummy /\ v.error = w.error /\ v.tx = w.tx
    /\ v.answers = w.answers /\ v.stray = w.stray /\ v.cancelled = w.cancelled

\* What the operations that only send and receive leave alone.
Follows(v, w) ==
    /\ Known(v) = Known(w) /\ v.q_id = w.q_id /\ v.cancelled = w.cancelled /\ w.first <= v.first
    /\ w.error < Limit => v.error < Limit

\* libpq has answers for the queries of the issued range only.
Ready(w) == PipelineInvariant(w) /\ w.dummy = FALSE /\ (~have_pending(w) => w.answers = <<>>)

LEMMA LikeKeeps ==
    ASSUME NEW v, NEW w, PipelineInvariant(w), Like(v, w)
    PROVE  PipelineInvariant(v) /\ Follows(v, w)
<1>1. World(v) /\ Typed(v)
  BY DEF PipelineInvariant, Like, Typed, Known
<1>2. Ranged(v)
  BY DEF PipelineInvariant, Like, Ranged, Left, From, Known
<1>3. Stopped(v) /\ Held(v)
  BY DEF PipelineInvariant, Like, Stopped, Held, Known
<1>4. Pending(v) = Pending(w)
  BY DEF Like, Pending, Known
<1>5. InStep(v)
  <2>1. \A ans : Matches(w, ans) => Matches(v, ans)
    BY <1>4 DEF Matches, Like
  <2>2. Wrong(w) => Wrong(v)
    BY <1>4 DEF Wrong, Like
  <2> QED BY <2>1, <2>2 DEF PipelineInvariant, Like, InStep, Quiet, Refused, Expected, have_pending
<1>6. w.first \in Nat
  BY MaxQueriesAssumption DEF PipelineInvariant, Ranged, Typed, NoMore
<1>7. Follows(v, w)
  BY <1>6 DEF Like, Follows, Known
<1> QED BY <1>1, <1>2, <1>3, <1>5, <1>7 DEF PipelineInvariant

\* The iterators are numbers in order.
LEMMA Places ==
    ASSUME NEW w, Typed(w), Ranged(w)
    PROVE  /\ w.first \in Nat /\ w.second \in Nat /\ w.second <= NoMore /\ w.first <= w.second
           /\ NoMore \in Nat /\ Limit = NoMore + 1 /\ w.q_id + 1 <= NoMore /\ w.q_id \in Nat
           /\ Known(w) \subseteq Nat /\ \A q \in Known(w) : q <= w.q_id /\ q < NoMore /\ q >= 1
  BY MaxQueriesAssumption DEF Typed, Ranged, NoMore, Limit

\* While results are pending nothing has gone wrong.
LEMMA PendingIs ==
    ASSUME NEW w, PipelineInvariant(w), have_pending(w)
    PROVE  /\ w.first < w.second /\ w.first \in Known(w) /\ w.first \in Pending(w) /\ w.first < NoMore
           /\ w.error = Limit /\ w.tx # "gone"
           /\ \A q \in Known(w) : q < w.error /\ (q >= w.first => w.queries[q].res = NoResult)
<1>1. Typed(w) /\ Ranged(w) /\ Stopped(w) /\ Held(w)
  BY DEF PipelineInvariant
<1>2. /\ w.first \in Nat /\ w.second \in Nat /\ w.second <= NoMore /\ w.first <= w.second
      /\ NoMore \in Nat /\ Limit = NoMore + 1
      /\ Known(w) \subseteq Nat /\ \A q \in Known(w) : q < NoMore
  BY <1>1, Places
<1>3. w.first < w.second /\ w.first < NoMore
  BY <1>2 DEF have_pending
<1>4. w.first \in Known(w)
  BY <1>1, <1>2, <1>3 DEF Ranged
<1>5. w.error = Limit
  BY <1>1, <1>2 DEF Stopped, have_pending
<1>6. w.tx # "gone"
  BY <1>1, <1>2, <1>5 DEF Stopped
<1>7. \A q \in Known(w) : q < w.error
  BY <1>2, <1>5
<1>8. w.first \in Pending(w)
  BY <1>2, <1>3, <1>4 DEF Pending
<1> QED BY <1>1, <1>3, <1>4, <1>5, <1>6, <1>7, <1>8 DEF Held

-----------------------------------------------------------------------------
(* obtain_result *)

\* No result where one is due: the queries from first on are given up.
GaveUp(v, w) ==
    /\ World(v)
    /\ v.queries = w.queries /\ v.first = w.first /\ v.second = w.first /\ v.waiting = w.waiting
    /\ v.q_id = w.q_id /\ v.dummy = w.dummy /\ v.error = w.first /\ v.tx = w.tx
    /\ v.answers = w.answers /\ v.stray = w.stray /\ v.cancelled = w.cancelled

LEMMA GivingUpIs ==
    ASSUME NEW w, Ready(w), have_pending(w), w.answers = <<>>, NEW v, GaveUp(v, w)
    PROVE  Ready(v) /\ Follows(v, w) /\ v.second <= w.second /\ ~have_pending(v) /\ v.error < Limit
<1>1. Typed(w) /\ Ranged(w) /\ Stopped(w) /\ Held(w) /\ InStep(w) /\ PipelineInvariant(w) /\ w.dummy = FALSE
  BY DEF Ready, PipelineInvariant
<1>2. /\ w.first \in Nat /\ w.second \in Nat /\ w.second <= NoMore /\ w.first <= w.second
      /\ NoMore \in Nat /\ Limit = NoMore + 1 /\ w.q_id \in Nat
      /\ Known(w) \subseteq Nat /\ \A q \in Known(w) : q <= w.q_id
  BY <1>1, Places
<1>3. w.first < NoMore /\ w.first \in Known(w) /\ w.error = Limit /\ w.tx # "gone"
  BY <1>1, PendingIs
<1>4. World(v) /\ Typed(v)
  BY <1>1 DEF GaveUp, Typed, Known
<1>5. Ranged(v)
  <2>1. Left(w, w.second) <= Left(w, w.first) /\ Left(w, w.second) \in Nat /\ Left(w, w.first) \in Nat
    <3>1. w.first \in Int /\ w.second \in Int
      BY <1>2
    <3>2. Left(w, w.second) \in Nat /\ Left(w, w.first) \in Nat
      BY <1>1, <3>1, LeftIs
    <3> QED BY <1>1, <1>2, <3>1, <3>2, LeftGrows
  <2>2. w.waiting <= Left(w, w.second) /\ w.waiting \in Int
    BY <1>1 DEF Ranged, Typed
  <2>3. Left(v, v.second) = Left(w, w.first)
    BY DEF GaveUp, Left, From, Known
  <2>4. w.waiting <= Left(w, w.first)
    BY <2>1, <2>2
  <2> QED BY <1>2, <1>3, <2>3, <2>4 DEF Ranged, GaveUp, Known
<1>6. Stopped(v)
  BY <1>1, <1>2, <1>3 DEF Stopped, GaveUp
<1>7. Held(v)
  BY <1>1, <1>2, <1>3 DEF Held, GaveUp, Known
<1>8. ~have_pending(v) /\ Quiet(v)
  BY <1>1 DEF GaveUp, have_pending, Quiet
<1>9. InStep(v)
  BY <1>1, <1>8 DEF InStep, GaveUp
<1>10. Follows(v, w) /\ v.error < Limit
  BY <1>2, <1>3 DEF Follows, GaveUp, Known
<1> QED BY <1>2, <1>4, <1>5, <1>6, <1>7, <1>8, <1>9, <1>10 DEF Ready, PipelineInvariant, GaveUp, Quiet

\* The next answer is that of the oldest pending query.
GotOne(v, w) ==
    /\ World(v)
    /\ v.queries = [w.queries EXCEPT ![w.first] = [@ EXCEPT !.res = Head(w.answers)]]
    /\ v.first = Successor(w, w.first) /\ v.second = w.second /\ v.waiting = w.waiting
    /\ v.q_id = w.q_id /\ v.dummy = w.dummy /\ v.error = w.error /\ v.tx = w.tx
    /\ v.answers = Tail(w.answers) /\ v.stray = w.stray /\ v.cancelled = w.cancelled

LEMMA HeadIsForFirst ==
    ASSUME NEW w, PipelineInvariant(w), have_pending(w), NEW ans \in Seq(AnswerType), ans # <<>>, Matches(w, ans)
    PROVE  /\ Head(ans) = [of |-> w.first, ok |-> Head(ans).ok] /\ Head(ans).ok \in BOOLEAN
           /\ w.tx = "non" /\ Head(ans).ok = FALSE => w.queries[w.first].kind # "good"
<1>1. 1 \in 1 .. Len(ans) /\ Head(ans) = ans[1] /\ Head(ans) \in AnswerType
  BY HeadTailProperties
<1>2. w.first \in Pending(w) /\ w.first \in Nat
  BY PendingIs, Places DEF PipelineInvariant
<1>3. ans[1].of \in Pending(w) /\ \A q \in Pending(w) : ~ (q < ans[1].of)
  BY <1>1 DEF Matches
<1>4. ans[1].of = w.first
  <2>1. ans[1].of \in Nat /\ w.first <= ans[1].of
    BY <1>1, <1>3 DEF AnswerType, Pending
  <2> QED BY <1>2, <1>3, <2>1
<1>5. w.tx = "non" /\ ans[1].ok = FALSE => w.queries[ans[1].of].kind # "good"
  BY <1>1 DEF Matches
<1> QED BY <1>1, <1>4, <1>5 DEF AnswerType

LEMMA GettingOneIs ==
    ASSUME NEW w, Ready(w), have_pending(w), w.answers # <<>>, NEW v, GotOne(v, w)
    PROVE  Ready(v) /\ Follows(v, w) /\ v.second = w.second
<1> DEFINE q == w.first
           s == Successor(w, q)
           h == Head(w.answers)
<1>1. Typed(w) /\ Ranged(w) /\ Stopped(w) /\ Held(w) /\ InStep(w) /\ PipelineInvariant(w) /\ w.dummy = FALSE
  BY DEF Ready, PipelineInvariant
<1>2. /\ w.first \in Nat /\ w.second \in Nat /\ w.second <= NoMore /\ w.first <= w.second
      /\ NoMore \in Nat /\ Limit = NoMore + 1 /\ w.q_id \in Nat
      /\ Known(w) \subseteq Nat /\ \A r \in Known(w) : r <= w.q_id
  BY <1>1, Places
<1>3. /\ q < NoMore /\ q \in Known(w) /\ q \in Pending(w) /\ w.error = Limit /\ w.tx # "gone" /\ q < w.second
      /\ \A r \in Known(w) : r < w.error /\ (r >= q => w.queries[r].res = NoResult)
  BY <1>1, PendingIs
<1>4. /\ s \in Known(w) \cup {NoMore} /\ s \in Nat /\ q < s /\ s <= NoMore
      /\ \A i \in Known(w) : q < i => s <= i
  BY <1>1, <1>2, <1>3, SuccessorIs
<1>5. Matches(w, w.answers) /\ w.answers \in Seq(AnswerType)
  BY <1>1 DEF InStep, Typed
<1>6. /\ h = [of |-> q, ok |-> h.ok] /\ h.ok \in BOOLEAN
      /\ w.tx = "non" /\ h.ok = FALSE => w.queries[q].kind # "good"
  BY <1>1, <1>5, HeadIsForFirst
<1>7. Known(v) = Known(w) /\ World(v)
  BY DEF Known, GotOne
<1>8. /\ DOMAIN v.queries[q] = {"kind", "res"} /\ v.queries[q].res = h /\ v.queries[q].kind = w.queries[q].kind
      /\ \A r \in Known(w) : r # q => v.queries[r] = w.queries[r]
  <2>1. DOMAIN w.queries[q] = {"kind", "res"}
    BY <1>1, <1>3 DEF Typed
  <2> QED BY <1>3, <2>1 DEF GotOne, Known
<1>9. v.answers = Tail(w.answers) /\ v.answers \in Seq(AnswerType)
  BY <1>5, HeadTailProperties DEF GotOne
<1> HIDE DEF s, h
<1>10. h \in Own(q) /\ h # NoResult
  <2>1. q # 0
    BY <1>1, <1>3 DEF Typed
  <2>2. h.of = q
    BY <1>6
  <2>3. h = [of |-> q, ok |-> TRUE] \/ h = [of |-> q, ok |-> FALSE]
    BY <1>6
  <2> QED BY <2>1, <2>2, <2>3 DEF Own, NoResult
<1> HIDE DEF q
<1>11. Typed(v)
  <2>1. \A r \in Known(v) : /\ v.queries[r].kind \in QueryKinds /\ v.queries[r].res \in Own(r)
                            /\ DOMAIN v.queries[r] = {"kind", "res"}
    BY <1>1, <1>7, <1>8, <1>10, <1>3 DEF Typed
  <2>2. v.q_id = w.q_id /\ v.waiting = w.waiting
    BY DEF GotOne
  <2> QED BY <1>1, <1>7, <1>9, <2>1, <2>2 DEF Typed
<1>12. v.first = s /\ v.second = w.second /\ v.waiting = w.waiting /\ v.error = w.error /\ v.tx = w.tx /\ v.stray = w.stray
  BY DEF GotOne, s, q
<1>13. s <= w.second
  <2>1. w.second \in Known(w) => s <= w.second
    BY <1>3, <1>4
  <2> QED BY <1>1, <1>4, <2>1 DEF Ranged
<1>14. Ranged(v)
  <2>1. Left(v, v.second) = Left(w, w.second)
    BY <1>7, <1>12 DEF Left, From
  <2> QED BY <1>1, <1>4, <1>7, <1>12, <1>13, <2>1 DEF Ranged
<1>15. Stopped(v)
  BY <1>1, <1>2, <1>3, <1>12 DEF Stopped, GotOne
<1>16. Held(v)
  <2> SUFFICES ASSUME NEW r \in Known(w)
               PROVE  /\ r < s => v.queries[r].res # NoResult
                      /\ r >= s => v.queries[r].res = NoResult
                      /\ w.tx = "non" /\ v.queries[r].res.ok = FALSE => v.queries[r].kind # "good"
    BY <1>7, <1>12 DEF Held
  <2>1. CASE r = q
    BY <1>3, <1>4, <1>6, <1>8, <1>10, <2>1, <1>2
  <2>2. CASE r # q
    <3>1. r \in Nat /\ q \in Nat
      BY <1>2, <1>3
    <3>2. r < s => r < q
      BY <1>4, <2>2, <3>1
    <3>3. r >= s => r >= q
      BY <1>4, <3>1
    <3>4. v.queries[r] = w.queries[r]
      BY <1>8, <2>2
    <3>5. r < w.error /\ q = w.first
      BY <1>3 DEF q
    <3> QED BY <1>1, <3>2, <3>3, <3>4, <3>5 DEF Held
  <2> QED BY <2>1, <2>2
<1>17. Pending(v) = Pending(w) \ {q}
  <2>1. \A r \in Known(w) : s <= r <=> q <= r /\ r # q
    BY <1>2, <1>3, <1>4
  <2> QED BY <1>7, <1>12, <2>1 DEF Pending, q
<1>18. Matches(v, v.answers)
  <2> DEFINE n == Len(w.answers)
             a == w.answers
             b == v.answers
  <2>1. n \in Nat /\ Len(b) = n - 1 /\ \A i \in 1 .. n - 1 : b[i] = a[i + 1]
    BY <1>5, <1>9, HeadTailProperties, LenProperties
  <2>2. a[1].of = q /\ n >= 1
    BY <1>5, <1>6, HeadTailProperties, LenProperties DEF h
  <2>3. \A i \in 1 .. n : /\ a[i].of \in Pending(w)
                          /\ w.tx = "non" /\ a[i].ok = FALSE => w.queries[a[i].of].kind # "good"
                          /\ \A j \in 1 .. i - 1 : a[j].of < a[i].of
                          /\ \A r \in Pending(w) : r < a[i].of => \E j \in 1 .. i - 1 : a[j].of = r
    BY <1>5 DEF Matches
  <2> HIDE DEF n, a, b
  <2> SUFFICES ASSUME NEW i \in 1 .. n - 1
               PROVE  /\ b[i].of \in Pending(v)
                      /\ v.tx = "non" /\ b[i].ok = FALSE => v.queries[b[i].of].kind # "good"
                      /\ \A j \in 1 .. i - 1 : b[j].of < b[i].of
                      /\ \A r \in Pending(v) : r < b[i].of => \E j \in 1 .. i - 1 : b[j].of = r
    BY <2>1 DEF Matches, b
  <2>4. /\ i + 1 \in 1 .. n /\ 1 \in 1 .. (i + 1) - 1 /\ b[i] = a[i + 1]
        /\ \A j \in 1 .. i - 1 : j + 1 \in 1 .. (i + 1) - 1 /\ j \in 1 .. n - 1
        /\ \A j \in 1 .. (i + 1) - 1 : j = 1 \/ j - 1 \in 1 .. i - 1
        /\ \A j \in 1 .. i - 1 : j \in 1 .. n - 1
        /\ \A j \in 1 .. (i + 1) - 1 : j # 1 => j - 1 \in 1 .. n - 1 /\ (j - 1) + 1 = j
    BY <2>1
  <2>5. /\ a[i + 1].of \in Pending(w)
        /\ w.tx = "non" /\ a[i + 1].ok = FALSE => w.queries[a[i + 1].of].kind # "good"
        /\ \A j \in 1 .. (i + 1) - 1 : a[j].of < a[i + 1].of
        /\ \A r \in Pending(w) : r < a[i + 1].of => \E j \in 1 .. (i + 1) - 1 : a[j].of = r
    BY <2>3, <2>4
  <2>6. b[i].of \in Pending(v) /\ b[i].of # q
    <3>1. a[1].of < a[i + 1].of
      BY <2>4, <2>5
    <3>2. a[i + 1].of # q
      BY <1>2, <1>3, <2>2, <3>1
    <3> QED BY <1>17, <2>4, <2>5, <3>2
  <2>7. v.tx = "non" /\ b[i].ok = FALSE => v.queries[b[i].of].kind # "good"
    <3>1. b[i].of \in Known(w)
      BY <2>4, <2>5 DEF Pending
    <3> QED BY <1>8, <1>12, <2>4, <2>5, <2>6, <3>1
  <2>8. \A j \in 1 .. i - 1 : b[j].of < b[i].of
    BY <2>1, <2>4, <2>5
  <2>9. ASSUME NEW r \in Pending(v), r < b[i].of
        PROVE  \E j \in 1 .. i - 1 : b[j].of = r
    <3>1. r \in Pending(w) /\ r # q
      BY <1>17
    <3>2. PICK j \in 1 .. (i + 1) - 1 : a[j].of = r
      BY <2>4, <2>5, <2>9, <3>1
    <3>3. j # 1
      BY <2>2, <3>1, <3>2
    <3>4. j - 1 \in 1 .. i - 1 /\ j - 1 \in 1 .. n - 1 /\ (j - 1) + 1 = j
      BY <2>4, <3>3
    <3>5. b[j - 1] = a[j]
      BY <2>1, <3>4
    <3> QED BY <3>2, <3>4, <3>5
  <2> QED BY <2>6, <2>7, <2>8, <2>9
<1>19. ~have_pending(v) => v.answers = <<>>
  <2> SUFFICES ASSUME ~have_pending(v), v.answers # <<>> PROVE FALSE
    OBVIOUS
  <2>1. v.answers[1].of \in Pending(v)
    <3>1. 1 \in 1 .. Len(v.answers)
      BY <1>9, LenProperties, EmptySeq
    <3> QED BY <1>18, <3>1 DEF Matches
  <2>2. v.first = v.second
    BY DEF have_pending
  <2>3. \A r \in Known(v) : ~ (v.first <= r /\ r < v.second)
    BY <1>2, <1>7, <1>12, <2>2
  <2> QED BY <2>1, <2>3 DEF Pending
<1>20. v.dummy = FALSE /\ v.cancelled = w.cancelled
  BY <1>1 DEF GotOne
<1>21. InStep(v)
  BY <1>1, <1>18, <1>19, <1>20 DEF InStep, Quiet
<1>22. Follows(v, w)
  <2>1. w.first <= v.first
    BY <1>2, <1>4, <1>12 DEF q
  <2> QED BY <1>7, <1>20, <2>1 DEF Follows, GotOne
<1> QED BY <1>7, <1>11, <1>12, <1>14, <1>15, <1>16, <1>19, <1>20, <1>21, <1>22 DEF Ready, PipelineInvariant

LEMMA OutcomeIs == \A w, res : Outcome(w, res).w = w /\ Outcome(w, res).res = res
  BY DEF Outcome

\* An outcome that leaves the pipeline ready, and has gone forward from w; only an
\* error makes the issued range end earlier.
Onward(o, w) ==
    /\ Ready(o.w) /\ Follows(o.w, w) /\ o.w.second <= w.second
    /\ o.w.second = w.second \/ o.w.error < Limit

LEMMA FollowsOn ==
    ASSUME NEW u, NEW v, NEW w, Ready(w), Ready(v), Ready(u), Follows(v, w), Follows(u, v)
    PROVE  Follows(u, w)
<1>1. w.first \in Nat /\ v.first \in Nat /\ u.first \in Nat
  BY Places DEF Ready, PipelineInvariant
<1> QED BY <1>1 DEF Follows

LEMMA OnwardOn ==
    ASSUME NEW u, NEW v, NEW w, Ready(w), Onward(v, w), Onward(u, v.w)
    PROVE  Onward(u, w)
<1>1. w.second \in Nat /\ v.w.second \in Nat /\ u.w.second \in Nat
  BY Places DEF Onward, Ready, PipelineInvariant
<1>2. Follows(u.w, w)
  BY FollowsOn DEF Onward
<1>3. u.w.second = w.second \/ u.w.error < Limit
  BY DEF Onward, Follows
<1> QED BY <1>1, <1>2, <1>3 DEF Onward

LEMMA OnwardStart ==
    ASSUME NEW w, Ready(w), NEW o, o.w = w
    PROVE  Onward(o, w)
<1>1. w.second \in Nat /\ w.first \in Nat
  BY Places DEF Ready, PipelineInvariant
<1> QED BY <1>1 DEF Onward, Follows

LEMMA ObtainIs ==
    ASSUME NEW w, Ready(w), NEW o, o = obtain_result(w, FALSE)
    PROVE  o.res \in {"more", "none"} /\ Onward(o, w) /\ (o.res = "none" => ~have_pending(o.w))
<1> DEFINE idle == [w EXCEPT !.active = FALSE]
           rest == [w EXCEPT !.answers = Tail(@)]
<1>0. /\ World(w) /\ PipelineInvariant(w) /\ w.second \in Nat /\ w.first \in Nat
      /\ w.error \in Int /\ w.answers \in Seq(AnswerType)
  <2>1. Typed(w) /\ Ranged(w) /\ Stopped(w) /\ World(w) /\ PipelineInvariant(w)
    BY DEF Ready, PipelineInvariant
  <2>2. Limit \in Nat
    BY <2>1, Places
  <2> QED BY <2>1, <2>2, Places DEF Stopped, Typed
<1>00. w.second <= w.second
  BY <1>0
<1>1. CASE w.answers = <<>> /\ have_pending(w)
  <2>1. w.first < NoMore /\ w.error = Limit /\ w.first <= w.error /\ w.first # NoMore
    <3>1. w.first < NoMore /\ w.error = Limit
      BY <1>0, <1>1, PendingIs
    <3>2. NoMore \in Nat /\ Limit = NoMore + 1
      BY <1>0, Places DEF PipelineInvariant
    <3> QED BY <1>0, <3>1, <3>2
  <2>2. Min({w.error, w.first}) = w.first
    BY <1>0, <2>1, MinOfTwo
  <2>3. o = Outcome([set_error_at(idle, w.first) EXCEPT !.second = w.first], "none")
    BY <1>1, <2>1 DEF obtain_result
  <2>4. o.w = [set_error_at(idle, w.first) EXCEPT !.second = w.first] /\ o.res = "none"
    BY <2>3, OutcomeIs, ZenonT(60)
  <2>5. GaveUp(o.w, w)
    <3> DEFINE v == o.w
    <3> HIDE DEF v
    <3>1. v = [[[w EXCEPT !.active = FALSE] EXCEPT !.error = w.first] EXCEPT !.second = w.first]
      BY <1>0, <2>2, <2>4 DEF set_error_at, World, v
    <3>2. GaveUp(v, w)
      BY <1>0, <3>1 DEF World, GaveUp
    <3> QED BY <3>2 DEF v
  <2>6. Ready(o.w) /\ Follows(o.w, w) /\ o.w.second <= w.second /\ ~have_pending(o.w) /\ o.w.error < Limit
    BY <1>1, <2>5, GivingUpIs
  <2> QED BY <2>4, <2>6 DEF Onward
<1>2. CASE w.answers = <<>> /\ ~have_pending(w)
  <2>1. o = Outcome(idle, "none")
    BY <1>2 DEF obtain_result
  <2>0. o.w = idle /\ o.res = "none"
    BY <2>1, OutcomeIs, ZenonT(60)
  <2>2. Like(o.w, w) /\ o.res = "none"
    BY <1>0, <2>0 DEF Like, World
  <2>3. PipelineInvariant(o.w) /\ Follows(o.w, w)
    BY <1>0, <2>2, LikeKeeps
  <2>4. ~have_pending(o.w) /\ o.w.dummy = FALSE /\ o.w.answers = <<>> /\ o.w.second = w.second
    BY <1>2, <2>2 DEF Ready, Like, have_pending
  <2>5. Ready(o.w)
    BY <2>3, <2>4 DEF Ready
  <2>6. o.w.second <= w.second
    BY <1>00, <2>4, Zenon
  <2> QED BY <2>2, <2>3, <2>4, <2>5, <2>6 DEF Onward
<1>3. CASE w.answers # <<>>
  <2>1. have_pending(w)
    BY <1>3 DEF Ready
  <2>2. w.first \in Known(w) /\ w.queries[w.first].res = NoResult
    <3>1. /\ w.first \in Known(w)
          /\ \A q \in Known(w) : q < w.error /\ (q >= w.first => w.queries[q].res = NoResult)
      BY <1>0, <2>1, PendingIs
    <3> QED BY <1>0, <3>1
  <2>3. o = Outcome([rest EXCEPT !.queries[w.first].res = Head(w.answers),
                                 !.first = Successor(w, w.first)], "more")
    BY <1>3, <2>1, <2>2 DEF obtain_result
  <2>4. o.res = "more" /\ o.w = [rest EXCEPT !.queries[w.first].res = Head(w.answers),
                                             !.first = Successor(w, w.first)]
    BY <2>3, OutcomeIs, ZenonT(60)
  <2>5. GotOne(o.w, w)
    <3> DEFINE h == Head(w.answers)
               s == Successor(w, w.first)
               t == Tail(w.answers)
    <3> HIDE DEF h, s, t
    <3>1. o.w = [[w EXCEPT !.answers = t] EXCEPT !.queries[w.first].res = h, !.first = s]
      BY <2>4 DEF h, s, t
    <3>2. World(o.w) /\ o.w.first = s /\ o.w.answers = t
      BY <1>0, <3>1 DEF World
    <3>3. o.w.queries = [w.queries EXCEPT ![w.first] = [@ EXCEPT !.res = h]]
      BY <1>0, <3>1 DEF World
    <3>4. /\ o.w.second = w.second /\ o.w.waiting = w.waiting
          /\ o.w.q_id = w.q_id /\ o.w.dummy = w.dummy /\ o.w.error = w.error /\ o.w.tx = w.tx
          /\ o.w.stray = w.stray /\ o.w.cancelled = w.cancelled
      BY <1>0, <3>1 DEF World
    <3> QED BY <3>2, <3>3, <3>4 DEF GotOne, h, s, t
  <2>6. Ready(o.w) /\ Follows(o.w, w) /\ o.w.second = w.second
    BY <1>3, <2>1, <2>5, GettingOneIs
  <2>7. o.w.second <= w.second
    BY <1>00, <2>6, Zenon
  <2> QED BY <2>4, <2>6, <2>7 DEF Onward
<1> QED BY <1>1, <1>2, <1>3

-----------------------------------------------------------------------------
(* Results in a row *)

\* o[n] is the outcome of the n-th call of obtain_result.
Obtains(o, w, most) ==
    /\ o[0] = Outcome(w, "more")
    /\ \A n \in 1 .. most : o[n] = obtain_result(o[n - 1].w, FALSE)

LEMMA ObtainsExists ==
    ASSUME NEW w, NEW most \in Nat
    PROVE  \E o : o = [n \in 0 .. most |-> IF n = 0 THEN Outcome(w, "more") ELSE obtain_result(o[n - 1].w, FALSE)]
<1> DEFINE S == {m \in Nat : \E o : o = [n \in 0 .. m |-> IF n = 0 THEN Outcome(w, "more")
                                                         ELSE obtain_result(o[n - 1].w, FALSE)]}
<1>1. 0 \in S
  <2> DEFINE o == [n \in 0 .. 0 |-> Outcome(w, "more")]
  <2>1. o = [n \in 0 .. 0 |-> IF n = 0 THEN Outcome(w, "more") ELSE obtain_result(o[n - 1].w, FALSE)]
    OBVIOUS
  <2> QED BY <2>1
<1>2. ASSUME NEW m \in Nat, m \in S PROVE m + 1 \in S
  <2>1. PICK a : a = [n \in 0 .. m |-> IF n = 0 THEN Outcome(w, "more") ELSE obtain_result(a[n - 1].w, FALSE)]
    BY <1>2
  <2> DEFINE b == [n \in 0 .. m + 1 |-> IF n = m + 1 THEN obtain_result(a[m].w, FALSE) ELSE a[n]]
  <2>2. \A n \in 0 .. m : b[n] = a[n]
    <3>1. \A n \in 0 .. m : n \in 0 .. m + 1 /\ n # m + 1
      OBVIOUS
    <3> QED BY <3>1
  <2>0. b[m + 1] = obtain_result(a[m].w, FALSE)
    <3>1. m + 1 \in 0 .. m + 1
      OBVIOUS
    <3> QED BY <3>1
  <2>3. \A n \in 0 .. m + 1 : n # 0 => n - 1 \in 0 .. m
    OBVIOUS
  <2>5. b = [n \in 0 .. m + 1 |-> b[n]]
    OBVIOUS
  <2> HIDE DEF b
  <2>4. ASSUME NEW n \in 0 .. m + 1
        PROVE  b[n] = IF n = 0 THEN Outcome(w, "more") ELSE obtain_result(b[n - 1].w, FALSE)
    <3>1. CASE n = m + 1
      <4>1. n - 1 = m /\ m \in 0 .. m /\ n # 0
        BY <3>1
      <4>2. b[n - 1] = a[m]
        BY <2>2, <4>1
      <4> QED BY <2>0, <3>1, <4>1, <4>2
    <3>2. CASE n # m + 1
      <4>1. n \in 0 .. m
        BY <3>2
      <4>2. b[n] = a[n]
        BY <2>2, <4>1
      <4>3. a[n] = IF n = 0 THEN Outcome(w, "more") ELSE obtain_result(a[n - 1].w, FALSE)
        BY <2>1, <4>1
      <4>4. n # 0 => b[n - 1] = a[n - 1]
        BY <2>2, <2>3
      <4> QED BY <4>2, <4>3, <4>4
    <3> QED BY <3>1, <3>2
  <2>6. b = [n \in 0 .. m + 1 |-> IF n = 0 THEN Outcome(w, "more") ELSE obtain_result(b[n - 1].w, FALSE)]
    <3> DEFINE x == [n \in 0 .. m + 1 |-> b[n]]
               y == [n \in 0 .. m + 1 |-> IF n = 0 THEN Outcome(w, "more") ELSE obtain_result(b[n - 1].w, FALSE)]
    <3>1. x = y
      BY <2>4, Zenon
    <3>2. b = x
      BY <2>5
    <3> HIDE DEF x
    <3>3. b = y
      BY <3>1, <3>2
    <3> QED BY <3>3
  <2>7. \E o : o = [n \in 0 .. m + 1 |-> IF n = 0 THEN Outcome(w, "more") ELSE obtain_result(o[n - 1].w, FALSE)]
    BY <2>6, Zenon
  <2>8. m + 1 \in Nat
    OBVIOUS
  <2> QED BY <2>7, <2>8, Zenon
<1>3. Nat \subseteq S
  <2> HIDE DEF S
  <2> QED BY <1>1, <1>2, NumberInduction
<1> QED BY <1>3

LEMMA ObtainedIs ==
    ASSUME NEW w, w.answers \in Seq(AnswerType)
    PROVE  Obtains(obtained(w), w, Len(w.answers) + 1)
<1> DEFINE most == Len(w.answers) + 1
           it == CHOOSE o : o = [n \in 0 .. most |-> IF n = 0 THEN Outcome(w, "more")
                                                     ELSE obtain_result(o[n - 1].w, FALSE)]
<1>1. most \in Nat
  BY LenProperties
<1>2. it = [n \in 0 .. most |-> IF n = 0 THEN Outcome(w, "more") ELSE obtain_result(it[n - 1].w, FALSE)]
  <2> HIDE DEF most
  <2> QED BY <1>1, ObtainsExists
<1>3. obtained(w) = it
  BY DEF obtained
<1> HIDE DEF it, most
<1>4. it[0] = Outcome(w, "more") /\ \A n \in 1 .. most : it[n] = obtain_result(it[n - 1].w, FALSE)
  <2>1. 0 \in 0 .. most /\ \A n \in 1 .. most : n \in 0 .. most /\ n # 0
    BY <1>1
  <2> QED BY <1>2, <2>1
<1> QED BY <1>3, <1>4 DEF Obtains, most

\* As long as results come in, they come in order.
LEMMA AllOnward ==
    ASSUME NEW w, Ready(w), NEW most \in Nat, NEW o, Obtains(o, w, most), NEW m \in Nat,
           \A k \in 0 .. m - 1 : k <= most
    PROVE  m <= most => Onward(o[m], w) /\ o[m].res \in {"more", "none"} /\ (o[m].res = "none" => ~have_pending(o[m].w))
<1> DEFINE S == {n \in Nat : n <= most => /\ Onward(o[n], w) /\ o[n].res \in {"more", "none"}
                                          /\ o[n].res = "none" => ~have_pending(o[n].w)}
<1>1. 0 \in S
  <2>1. o[0].w = w /\ o[0].res = "more"
    BY DEF Obtains, Outcome
  <2> QED BY <2>1, OnwardStart
<1>2. ASSUME NEW n \in Nat, n \in S PROVE n + 1 \in S
  <2> SUFFICES ASSUME n + 1 <= most
               PROVE  /\ Onward(o[n + 1], w) /\ o[n + 1].res \in {"more", "none"}
                      /\ o[n + 1].res = "none" => ~have_pending(o[n + 1].w)
    OBVIOUS
  <2>1. Onward(o[n], w)
    BY <1>2
  <2>2. o[n + 1] = obtain_result(o[n].w, FALSE)
    <3>1. n + 1 \in 1 .. most /\ (n + 1) - 1 = n
      OBVIOUS
    <3> QED BY <3>1 DEF Obtains
  <2>3. /\ o[n + 1].res \in {"more", "none"} /\ Onward(o[n + 1], o[n].w)
        /\ o[n + 1].res = "none" => ~have_pending(o[n + 1].w)
    BY <2>1, <2>2, ObtainIs DEF Onward
  <2> QED BY <2>1, <2>3, OnwardOn
<1>3. Nat \subseteq S
  <2> HIDE DEF S
  <2> QED BY <1>1, <1>2, NumberInduction
<1> QED BY <1>3

LEMMA FurtherIs ==
    ASSUME NEW w, Ready(w), NEW o \in get_further_available_results(w)
    PROVE  o.res = "ok" /\ Onward(o, w)
<1> DEFINE b == obtained(w)
           most == Len(w.answers) + 1
<1>1. w.answers \in Seq(AnswerType) /\ most \in Nat
  BY LenProperties DEF Ready, PipelineInvariant, Typed
<1>2. Obtains(b, w, most)
  BY <1>1, ObtainedIs
<1>3. PICK n \in 0 .. most : o = Outcome(b[n].w, IF b[n].res \in {"more", "none"} THEN "ok" ELSE b[n].res)
  BY DEF get_further_available_results
<1> HIDE DEF b, most
<1>4. Onward(b[n], w) /\ b[n].res \in {"more", "none"}
  BY <1>1, <1>2, AllOnward
<1>5. o.w = b[n].w /\ o.res = "ok"
  BY <1>3, <1>4 DEF Outcome
<1> QED BY <1>4, <1>5 DEF Onward

\* receive goes on to stop, unless there is nothing more to come.
LEMMA ReceiveUpToIs ==
    ASSUME NEW w, Ready(w), NEW stop \in Int, NEW o \in ReceiveUpTo(w, stop)
    PROVE  o.res = "ok" /\ Onward(o, w) /\ (stop <= o.w.first \/ ~have_pending(o.w))
<1> DEFINE b == obtained(w)
           most == Len(w.answers) + 1
           goes_on(n) == n = 0 \/ (b[n].res = "more" /\ b[n].w.first # stop)
<1>1. w.answers \in Seq(AnswerType) /\ most \in Nat
  BY LenProperties DEF Ready, PipelineInvariant, Typed
<1>2. Obtains(b, w, most)
  BY <1>1, ObtainedIs
<1>3. PICK n \in 0 .. most :
        /\ ~goes_on(n)
        /\ o \in IF b[n].res \notin {"more", "none"} THEN {b[n]}
                 ELSE IF b[n].w.first = stop THEN get_further_available_results(b[n].w)
                 ELSE {Outcome(b[n].w, "ok")}
  BY DEF ReceiveUpTo
<1> HIDE DEF b, most
<1>4. Onward(b[n], w) /\ b[n].res \in {"more", "none"} /\ (b[n].res = "none" => ~have_pending(b[n].w))
  BY <1>1, <1>2, AllOnward
<1>5. CASE b[n].w.first = stop
  <2>1. o \in get_further_available_results(b[n].w) /\ Ready(b[n].w)
    BY <1>3, <1>4, <1>5 DEF Onward
  <2>2. o.res = "ok" /\ Onward(o, b[n].w)
    BY <2>1, FurtherIs
  <2>3. Onward(o, w)
    BY <1>4, <2>2, OnwardOn
  <2>4. stop <= o.w.first
    BY <1>5, <2>2 DEF Onward, Follows
  <2> QED BY <2>2, <2>3, <2>4
<1>6. CASE b[n].w.first # stop
  <2>1. o = Outcome(b[n].w, "ok") /\ b[n].res = "none"
    BY <1>3, <1>4, <1>6
  <2>2. o.w = b[n].w /\ o.res = "ok"
    BY <2>1 DEF Outcome
  <2> QED BY <1>4, <2>1, <2>2 DEF Onward
<1> QED BY <1>5, <1>6

-----------------------------------------------------------------------------
(* The replay *)

\* In the middle of a replay of the queries before stop: the oldest of those that
\* are left is next, each still has the error of the batch, and unless the
\* transaction has failed one of them is wrong.
Replaying(u, stop) ==
    /\ World(u) /\ Typed(u) /\ stop \in Known(u) \cup {NoMore}
    /\ u.first \in Known(u) /\ u.first < stop /\ u.waiting <= Left(u, u.first)
    /\ u.error = Limit /\ u.answers = <<>> /\ u.dummy = FALSE /\ u.registered = FALSE
    /\ u.stray = FALSE /\ u.cancelled \in BOOLEAN /\ u.tx \in {"non", "failed"}
    /\ \A q \in Known(u) :
          /\ q < u.first => /\ u.queries[q].res # NoResult
                            /\ u.tx = "non" /\ u.queries[q].res.ok = FALSE => u.queries[q].kind # "good"
          /\ u.first <= q /\ q < stop => u.queries[q].res = BatchError
    /\ u.tx = "non" => \E q \in Known(u) : u.first <= q /\ q < stop /\ u.queries[q].kind # "good"

\* The query has been executed.
Executed(v, u) ==
    /\ World(v)
    /\ v.queries = [u.queries EXCEPT ![u.first] = [@ EXCEPT !.res = [of |-> u.first, ok |-> TRUE]]]
    /\ v.first = Successor(u, u.first) /\ v.waiting = u.waiting - 1
    /\ v.q_id = u.q_id /\ v.dummy = u.dummy /\ v.error = u.error /\ v.tx = u.tx
    /\ v.answers = <<>> /\ v.stray = u.stray /\ v.cancelled = u.cancelled /\ v.registered = u.registered

\* The query has failed.
Culprit(v, u, tx, error) ==
    /\ World(v)
    /\ v.queries = u.queries /\ v.first = Successor(u, u.first) /\ v.second = Successor(u, u.first)
    /\ v.waiting = u.waiting - 1 /\ v.q_id = u.q_id /\ v.dummy = u.dummy
    /\ v.error = error /\ v.tx = tx
    /\ v.answers = <<>> /\ v.stray = u.stray /\ v.cancelled = u.cancelled

LEMMA Replays ==
    ASSUME NEW u, NEW stop, Replaying(u, stop)
    PROVE  LET q == u.first
               s == Successor(u, q)
           IN  /\ q \in Nat /\ q >= 1 /\ q <= u.q_id /\ q < NoMore /\ NoMore \in Nat /\ Limit = NoMore + 1
               /\ u.q_id \in Nat /\ u.q_id < NoMore /\ stop \in Nat /\ stop <= NoMore /\ q < stop
               /\ s \in Known(u) \cup {NoMore} /\ s \in Nat /\ q < s /\ s <= NoMore /\ s <= stop
               /\ \A i \in Known(u) : i \in Nat /\ i <= u.q_id /\ (q < i => s <= i)
               /\ Left(u, s) = Left(u, q) - 1 /\ Left(u, q) \in Nat
<1> DEFINE q == u.first
           s == Successor(u, q)
<1>1. Typed(u) /\ q \in Known(u) /\ q < stop /\ stop \in Known(u) \cup {NoMore}
  BY DEF Replaying
<1>2. /\ NoMore \in Nat /\ Limit = NoMore + 1 /\ u.q_id \in Nat /\ u.q_id < NoMore
      /\ \A i \in Known(u) : i \in Nat /\ i <= u.q_id /\ i >= 1 /\ i < NoMore
  BY <1>1, MaxQueriesAssumption DEF Typed, NoMore, Limit
<1>3. q \in Nat /\ q >= 1 /\ q <= u.q_id /\ q < NoMore /\ stop \in Nat /\ stop <= NoMore
  BY <1>1, <1>2
<1>4. /\ s \in Known(u) \cup {NoMore} /\ s \in Nat /\ q < s /\ s <= NoMore
      /\ \A i \in Known(u) : q < i => s <= i
  BY <1>1, <1>3, SuccessorIs
<1>5. Left(u, s) = Left(u, q) - 1 /\ Left(u, q) \in Nat
  <2>1. q \in Int
    BY <1>3
  <2> QED BY <1>1, <2>1, LeftAfterOne, LeftIs
<1>6. s <= stop
  BY <1>1, <1>4
<1> QED BY <1>1, <1>2, <1>3, <1>4, <1>5, <1>6

LEMMA ExecutedIs ==
    ASSUME NEW u, NEW stop, Replaying(u, stop), NEW v, Executed(v, u),
           u.tx = "non", u.queries[u.first].kind = "good"
    PROVE  Replaying(v, stop) /\ Follows(v, u)
<1> DEFINE q == u.first
           s == Successor(u, q)
           h == [of |-> q, ok |-> TRUE]
<1>1. /\ q \in Nat /\ q >= 1 /\ q < NoMore /\ NoMore \in Nat /\ stop \in Nat
      /\ s \in Known(u) \cup {NoMore} /\ s \in Nat /\ q < s /\ s <= NoMore
      /\ \A i \in Known(u) : i \in Nat /\ (q < i => s <= i)
      /\ Left(u, s) = Left(u, q) - 1 /\ Left(u, q) \in Nat
  BY Replays
<1>2. Known(v) = Known(u) /\ q \in Known(u) /\ v.first = s /\ Typed(u) /\ stop \in Known(u) \cup {NoMore}
  BY DEF Known, Executed, Replaying
<1> HIDE DEF s
<1>3. /\ v.queries[q].res = h /\ v.queries[q].kind = u.queries[q].kind
      /\ DOMAIN v.queries[q] = {"kind", "res"}
      /\ \A r \in Known(u) : r # q => v.queries[r] = u.queries[r]
  <2>1. DOMAIN u.queries[q] = {"kind", "res"}
    BY <1>2 DEF Typed
  <2> QED BY <1>2, <2>1 DEF Executed, Known
<1>4. h \in Own(q) /\ h # NoResult /\ h.ok = TRUE
  BY <1>1 DEF Own, NoResult
<1> HIDE DEF h
<1>5. Typed(v)
  <2>1. \A r \in Known(v) : /\ v.queries[r].kind \in QueryKinds /\ v.queries[r].res \in Own(r)
                            /\ DOMAIN v.queries[r] = {"kind", "res"}
    BY <1>2, <1>3, <1>4 DEF Typed
  <2>2. v.q_id = u.q_id /\ v.waiting = u.waiting - 1 /\ v.answers = u.answers
    BY DEF Executed, Replaying
  <2>3. v.waiting \in Int
    BY <1>2, <2>2 DEF Typed
  <2> QED BY <1>2, <2>1, <2>2, <2>3 DEF Typed
<1>6. PICK b \in Known(u) : q <= b /\ b < stop /\ u.queries[b].kind # "good"
  BY DEF Replaying
<1>7. b # q /\ s <= b /\ b \in Nat /\ v.queries[b] = u.queries[b]
  <2>1. b # q /\ b \in Nat /\ q \in Nat
    BY <1>1, <1>6
  <2>2. q < b
    BY <1>6, <2>1
  <2> QED BY <1>1, <1>3, <1>6, <2>1, <2>2
<1>8. s \in Known(u) /\ s < stop
  <2>1. s < stop
    BY <1>1, <1>6, <1>7
  <2>2. \A i \in Known(u) : i < NoMore
    BY <1>2, MaxQueriesAssumption DEF Typed, NoMore
  <2>3. s < NoMore
    BY <1>1, <1>7, <2>2
  <2> QED BY <1>1, <2>1, <2>3
<1>9. v.waiting <= Left(v, v.first)
  <2>1. Left(v, v.first) = Left(u, s)
    BY <1>2 DEF Left, From
  <2>2. u.waiting <= Left(u, q) /\ u.waiting \in Int
    BY <1>2 DEF Replaying, Typed
  <2>3. v.waiting = u.waiting - 1
    BY DEF Executed
  <2> QED BY <1>1, <2>1, <2>2, <2>3
<1>10. ASSUME NEW r \in Known(u)
       PROVE  /\ r < s => /\ v.queries[r].res # NoResult
                          /\ v.tx = "non" /\ v.queries[r].res.ok = FALSE => v.queries[r].kind # "good"
              /\ s <= r /\ r < stop => v.queries[r].res = BatchError
  <2>1. CASE r = q
    BY <1>1, <1>3, <1>4, <2>1
  <2>2. CASE r # q
    <3>1. (r < s => r < q) /\ (s <= r => q <= r) /\ v.queries[r] = u.queries[r]
      BY <1>1, <1>3, <2>2
    <3>2. v.tx = u.tx
      BY DEF Executed
    <3> QED BY <3>1, <3>2 DEF Replaying
  <2> QED BY <2>1, <2>2
<1>11. /\ World(v) /\ v.error = Limit /\ v.answers = <<>> /\ v.dummy = FALSE /\ v.registered = FALSE
       /\ v.stray = FALSE /\ v.cancelled \in BOOLEAN /\ v.tx \in {"non", "failed"} /\ v.cancelled = u.cancelled
       /\ v.q_id = u.q_id
  BY DEF Executed, Replaying
<1>12. Replaying(v, stop)
  <2>1. \E r \in Known(v) : v.first <= r /\ r < stop /\ v.queries[r].kind # "good"
    BY <1>2, <1>6, <1>7
  <2> QED BY <1>2, <1>5, <1>8, <1>9, <1>10, <1>11, <2>1 DEF Replaying
<1>13. Follows(v, u)
  <2>1. u.error < Limit => v.error < Limit
    BY DEF Executed
  <2> QED BY <1>1, <1>2, <1>11, <2>1 DEF Follows
<1> QED BY <1>12, <1>13

LEMMA CulpritIs ==
    ASSUME NEW u, NEW stop, Replaying(u, stop), u.tx = "non" => u.queries[u.first].kind # "good",
           NEW tx \in {"non", "gone"}, tx = "non" <=> u.tx = "non",
           NEW v, NEW e, e = IF Successor(u, u.first) = NoMore THEN u.first + 1 ELSE Successor(u, u.first),
           Culprit(v, u, tx, e)
    PROVE  Ready(v) /\ Follows(v, u) /\ v.second <= stop /\ v.error < Limit
<1> DEFINE q == u.first
           s == Successor(u, q)
<1>1. /\ q \in Nat /\ q >= 1 /\ q <= u.q_id /\ q < NoMore /\ NoMore \in Nat /\ Limit = NoMore + 1
      /\ u.q_id \in Nat /\ u.q_id < NoMore /\ stop \in Nat
      /\ s \in Known(u) \cup {NoMore} /\ s \in Nat /\ q < s /\ s <= NoMore /\ s <= stop
      /\ \A i \in Known(u) : i \in Nat /\ i <= u.q_id /\ (q < i => s <= i)
      /\ Left(u, s) = Left(u, q) - 1 /\ Left(u, q) \in Nat
  BY Replays
<1>2. Known(v) = Known(u) /\ q \in Known(u) /\ v.first = s /\ v.second = s /\ Typed(u)
  BY DEF Known, Culprit, Replaying
<1> HIDE DEF s
<1>3. e \in Nat /\ e <= s /\ e <= u.q_id + 1 /\ e < Limit /\ q < e
      /\ \A i \in Known(u) : i < e => i <= q
  <2>1. CASE s = NoMore
    <3>1. e = q + 1
      BY <2>1 DEF s
    <3> QED BY <1>1, <2>1, <3>1
  <2>2. CASE s # NoMore
    <3>1. e = s /\ s \in Known(u)
      BY <1>1, <2>2 DEF s
    <3> QED BY <1>1, <2>2, <3>1
  <2> QED BY <2>1, <2>2
<1>4. /\ World(v) /\ v.queries = u.queries /\ v.waiting = u.waiting - 1 /\ v.q_id = u.q_id
      /\ v.error = e /\ v.tx = tx /\ v.answers = <<>> /\ v.dummy = FALSE
      /\ v.stray = FALSE /\ v.cancelled \in BOOLEAN /\ v.cancelled = u.cancelled
  BY DEF Culprit, Replaying
<1>5. Typed(v)
  <2>1. v.waiting \in Int /\ v.answers = u.answers
    BY <1>2, <1>4 DEF Typed, Replaying
  <2> QED BY <1>2, <1>4, <2>1 DEF Typed
<1>6. Ranged(v)
  <2>1. Left(v, v.second) = Left(u, s)
    BY <1>2 DEF Left, From
  <2>2. u.waiting <= Left(u, q) /\ u.waiting \in Int
    BY <1>2 DEF Replaying, Typed
  <2>3. v.waiting <= Left(v, v.second)
    BY <1>1, <1>4, <2>1, <2>2
  <2>4. s <= s
    BY <1>1
  <2> QED BY <1>1, <1>2, <2>3, <2>4 DEF Ranged
<1>7. Stopped(v)
  <2>1. e \in 0 .. Limit
    BY <1>1, <1>3
  <2> QED BY <1>2, <1>3, <1>4, <2>1 DEF Stopped
<1>8. Held(v)
  <2> SUFFICES ASSUME NEW r \in Known(u), r < e
               PROVE  /\ r < s => u.queries[r].res # NoResult
                      /\ r >= s => u.queries[r].res = NoResult
                      /\ tx = "non" /\ u.queries[r].res.ok = FALSE => u.queries[r].kind # "good"
    BY <1>2, <1>4 DEF Held
  <2>1. r <= q /\ r \in Nat /\ ~ (r >= s)
    <3>1. r <= q
      BY <1>3
    <3>2. r \in Nat /\ q \in Nat /\ s \in Nat /\ q < s
      BY <1>1
    <3> QED BY <3>1, <3>2
  <2>2. CASE r < q
    BY <2>1, <2>2 DEF Replaying
  <2>3. CASE r = q
    <3>1. q <= q /\ q < stop
      BY <1>1 DEF Replaying
    <3>2. u.queries[q].res = BatchError
      BY <1>2, <3>1 DEF Replaying
    <3>3. BatchError # NoResult
      BY DEF BatchError, NoResult
    <3> QED BY <2>1, <2>3, <3>2, <3>3
  <2>4. r < q \/ r = q
    BY <1>1, <2>1
  <2> QED BY <2>2, <2>3, <2>4
<1>9. ~have_pending(v) /\ Quiet(v)
  BY <1>2, <1>4 DEF have_pending, Quiet
<1>10. InStep(v)
  BY <1>4, <1>9 DEF InStep
<1>11. Follows(v, u)
  BY <1>1, <1>2, <1>3, <1>4 DEF Follows
<1> QED BY <1>1, <1>2, <1>3, <1>4, <1>5, <1>6, <1>7, <1>8, <1>9, <1>10, <1>11 DEF Ready, PipelineInvariant

LEMMA ReplayOneFails ==
    ASSUME NEW u, NEW x, x = exec_query([u EXCEPT !.waiting = @ - 1], u.first), x.res # "ok",
           NEW after, after = [x.w EXCEPT !.first = Successor(u, u.first)]
    PROVE  replay_one(u) = Outcome(set_error_at([after EXCEPT !.second = after.first],
                                                IF after.first = NoMore THEN u.first + 1 ELSE after.first), "caught")
  BY DEF replay_one

LEMMA ReplayOneIs ==
    ASSUME NEW u, NEW stop, Replaying(u, stop), NEW o, o = replay_one(u)
    PROVE  \/ o.res = "ok" /\ Replaying(o.w, stop) /\ Follows(o.w, u)
           \/ o.res = "caught" /\ Ready(o.w) /\ Follows(o.w, u) /\ o.w.second <= stop /\ o.w.error < Limit
<1> DEFINE q == u.first
           s == Successor(u, q)
           one == [u EXCEPT !.waiting = @ - 1]
           run == [one EXCEPT !.active = FALSE, !.answers = <<>>]
           n == u.waiting - 1
           kind == u.queries[q].kind
<1>0. World(u) /\ u.registered = FALSE /\ u.tx \in {"non", "failed"} /\ u.error = Limit
  BY DEF Replaying
<1>1. one.registered = FALSE /\ one.tx = u.tx /\ one.queries = u.queries
  BY <1>0 DEF World
<1>2. CASE u.tx = "non" /\ kind = "good"
  <2>1. exec_query(one, q) = Outcome(run, "ok")
    BY <1>1, <1>2 DEF exec_query
  <2>2. o = Outcome([[run EXCEPT !.first = s] EXCEPT !.queries[q].res = [of |-> q, ok |-> TRUE]], "ok")
    <3> DEFINE x == exec_query(one, q)
    <3>1. x.w = run /\ x.res = "ok"
      BY <2>1, OutcomeIs
    <3>2. x = exec_query([u EXCEPT !.waiting = @ - 1], u.first)
      OBVIOUS
    <3> HIDE DEF x, run
    <3>3. o = Outcome([[x.w EXCEPT !.first = s] EXCEPT !.queries[q].res = [of |-> q, ok |-> TRUE]], "ok")
      BY <3>1, <3>2 DEF replay_one
    <3> QED BY <3>1, <3>3
  <2>3. o.w = [[run EXCEPT !.first = s] EXCEPT !.queries[q].res = [of |-> q, ok |-> TRUE]] /\ o.res = "ok"
    BY <2>2, OutcomeIs
  <2>4. Executed(o.w, u)
    <3> DEFINE v == o.w
               h == [of |-> q, ok |-> TRUE]
               z == s
               m == n
    <3> HIDE DEF v, h, z, m
    <3>1. v = [[[[u EXCEPT !.waiting = m] EXCEPT !.active = FALSE, !.answers = <<>>] EXCEPT !.first = z]
                  EXCEPT !.queries[u.first].res = h]
      BY <2>3 DEF v, h, z, m
    <3>2. World(v) /\ v.first = z /\ v.waiting = m /\ v.answers = <<>>
      BY <1>0, <3>1 DEF World
    <3>3. v.queries = [u.queries EXCEPT ![u.first] = [@ EXCEPT !.res = h]]
      BY <1>0, <3>1 DEF World
    <3>4. /\ v.q_id = u.q_id /\ v.dummy = u.dummy /\ v.error = u.error /\ v.tx = u.tx
          /\ v.stray = u.stray /\ v.cancelled = u.cancelled /\ v.registered = u.registered
      BY <1>0, <3>1 DEF World
    <3> QED BY <3>2, <3>3, <3>4 DEF Executed, v, h, z, m
  <2> QED BY <1>2, <2>3, <2>4, ExecutedIs
<1>3. CASE ~ (u.tx = "non" /\ kind = "good")
  <2> DEFINE tx == IF u.tx = "non" THEN "non" ELSE "gone"
             e == IF s = NoMore THEN q + 1 ELSE s
             bad == [run EXCEPT !.tx = tx]
             after == [bad EXCEPT !.first = s]
             failed == [after EXCEPT !.second = s]
  <2>1. exec_query(one, q) = Outcome(bad, "sql")
    <3>1. ~ (one.registered = TRUE \/ one.tx = "gone") /\ ~ (one.tx # "failed" /\ one.queries[q].kind = "good")
      BY <1>0, <1>1, <1>3
    <3>2. run.tx = u.tx
      BY <1>0, <1>1 DEF World
    <3> QED BY <1>1, <3>1, <3>2 DEF exec_query
  <2>2. o = Outcome(set_error_at(failed, e), "caught")
    <3> DEFINE x == exec_query(one, q)
    <3>1. x.w = bad /\ x.res # "ok"
      BY <2>1, OutcomeIs
    <3>2. x = exec_query([u EXCEPT !.waiting = @ - 1], u.first)
      OBVIOUS
    <3>3. after.first = s
      BY <1>0 DEF World
    <3> HIDE DEF x, bad
    <3>4. [x.w EXCEPT !.first = s] = after
      BY <3>1
    <3> HIDE DEF after
    <3>5. o = Outcome(set_error_at([after EXCEPT !.second = after.first],
                                   IF after.first = NoMore THEN q + 1 ELSE after.first), "caught")
      BY <3>1, <3>2, <3>4, ReplayOneFails
    <3> QED BY <3>3, <3>5
  <2>3. o.w = set_error_at(failed, e) /\ o.res = "caught"
    BY <2>2, OutcomeIs
  <2>4. Min({failed.error, e}) = e
    <3>1. failed.error = Limit
      BY <1>0 DEF World
    <3>2. e \in Int /\ Limit \in Int /\ e <= Limit
      BY Replays
    <3> QED BY <3>1, <3>2, MinOfTwo
  <2>5. Culprit(o.w, u, tx, e)
    <3> DEFINE v == o.w
               z == s
               m == n
               x == e
               t == tx
    <3> HIDE DEF v, z, m, x, t
    <3>1. v = [[[[[[u EXCEPT !.waiting = m] EXCEPT !.active = FALSE, !.answers = <<>>] EXCEPT !.tx = t]
                  EXCEPT !.first = z] EXCEPT !.second = z] EXCEPT !.error = x]
      BY <1>0, <2>3, <2>4 DEF set_error_at, v, z, m, x, t
    <3>2. World(v) /\ v.first = z /\ v.second = z /\ v.waiting = m /\ v.answers = <<>> /\ v.tx = t /\ v.error = x
      BY <1>0, <3>1 DEF World
    <3>3. /\ v.queries = u.queries /\ v.q_id = u.q_id /\ v.dummy = u.dummy
          /\ v.stray = u.stray /\ v.cancelled = u.cancelled
      BY <1>0, <3>1 DEF World
    <3> QED BY <3>2, <3>3 DEF Culprit, v, z, m, x, t
  <2>6. tx \in {"non", "gone"} /\ (tx = "non" <=> u.tx = "non") /\ (u.tx = "non" => u.queries[u.first].kind # "good")
    BY <1>3
  <2> HIDE DEF tx, e, bad, after, failed
  <2>7. e = IF Successor(u, u.first) = NoMore THEN u.first + 1 ELSE Successor(u, u.first)
    BY DEF e
  <2> QED BY <2>3, <2>5, <2>6, <2>7, CulpritIs
<1> QED BY <1>2, <1>3

\* r[n] is what the n-th query of the replay leaves.
Replayed(r, u, most) ==
    /\ r[0] = Outcome(u, "ok")
    /\ \A n \in 1 .. most : r[n] = replay_one(r[n - 1].w)

LEMMA ReplayedExists ==
    ASSUME NEW u, NEW most \in Nat
    PROVE  \E r : r = [n \in 0 .. most |-> IF n = 0 THEN Outcome(u, "ok") ELSE replay_one(r[n - 1].w)]
<1> DEFINE S == {m \in Nat : \E r : r = [n \in 0 .. m |-> IF n = 0 THEN Outcome(u, "ok") ELSE replay_one(r[n - 1].w)]}
<1>1. 0 \in S
  <2> DEFINE r == [n \in 0 .. 0 |-> Outcome(u, "ok")]
  <2>1. r = [n \in 0 .. 0 |-> IF n = 0 THEN Outcome(u, "ok") ELSE replay_one(r[n - 1].w)]
    OBVIOUS
  <2> QED BY <2>1
<1>2. ASSUME NEW m \in Nat, m \in S PROVE m + 1 \in S
  <2>1. PICK a : a = [n \in 0 .. m |-> IF n = 0 THEN Outcome(u, "ok") ELSE replay_one(a[n - 1].w)]
    BY <1>2
  <2> DEFINE b == [n \in 0 .. m + 1 |-> IF n = m + 1 THEN replay_one(a[m].w) ELSE a[n]]
  <2>2. \A n \in 0 .. m : b[n] = a[n]
    <3>1. \A n \in 0 .. m : n \in 0 .. m + 1 /\ n # m + 1
      OBVIOUS
    <3> QED BY <3>1
  <2>3. b[m + 1] = replay_one(a[m].w)
    <3>1. m + 1 \in 0 .. m + 1
      OBVIOUS
    <3> QED BY <3>1
  <2>4. \A n \in 0 .. m + 1 : n # 0 => n - 1 \in 0 .. m
    OBVIOUS
  <2>5. b = [n \in 0 .. m + 1 |-> b[n]]
    OBVIOUS
  <2> HIDE DEF b
  <2>6. ASSUME NEW n \in 0 .. m + 1
        PROVE  b[n] = IF n = 0 THEN Outcome(u, "ok") ELSE replay_one(b[n - 1].w)
    <3>1. CASE n = m + 1
      <4>1. n - 1 = m /\ m \in 0 .. m /\ n # 0
        BY <3>1
      <4>2. b[n - 1] = a[m]
        BY <2>2, <4>1
      <4> QED BY <2>3, <3>1, <4>1, <4>2
    <3>2. CASE n # m + 1
      <4>1. n \in 0 .. m
        BY <3>2
      <4>2. b[n] = a[n]
        BY <2>2, <4>1
      <4>3. a[n] = IF n = 0 THEN Outcome(u, "ok") ELSE replay_one(a[n - 1].w)
        BY <2>1, <4>1
      <4>4. n # 0 => b[n - 1] = a[n - 1]
        BY <2>2, <2>4
      <4> QED BY <4>2, <4>3, <4>4
    <3> QED BY <3>1, <3>2
  <2>7. b = [n \in 0 .. m + 1 |-> IF n = 0 THEN Outcome(u, "ok") ELSE replay_one(b[n - 1].w)]
    <3> DEFINE x == [n \in 0 .. m + 1 |-> b[n]]
               y == [n \in 0 .. m + 1 |-> IF n = 0 THEN Outcome(u, "ok") ELSE replay_one(b[n - 1].w)]
    <3>1. x = y
      BY <2>6, Zenon
    <3>2. b = x
      BY <2>5
    <3> HIDE DEF x
    <3>3. b = y
      BY <3>1, <3>2
    <3> QED BY <3>3
  <2>8. \E r : r = [n \in 0 .. m + 1 |-> IF n = 0 THEN Outcome(u, "ok") ELSE replay_one(r[n - 1].w)]
    BY <2>7, Zenon
  <2>9. m + 1 \in Nat
    OBVIOUS
  <2> QED BY <2>8, <2>9, Zenon
<1>3. Nat \subseteq S
  <2> HIDE DEF S
  <2> QED BY <1>1, <1>2, NumberInduction
<1> QED BY <1>3

\* A replay ends with the query that fails.
LEMMA ReplayIs ==
    ASSUME NEW u, NEW stop, Replaying(u, stop), NEW o \in Replay(u, stop)
    PROVE  o.res = "ok" /\ Ready(o.w) /\ Follows(o.w, u) /\ o.w.second <= stop /\ o.w.error < Limit
<1> DEFINE r == CHOOSE r : r = [n \in 0 .. MaxQueries |-> IF n = 0 THEN Outcome(u, "ok") ELSE replay_one(r[n - 1].w)]
           goes_on(n) == n = 0 \/ (r[n].res = "ok" /\ r[n].w.first # stop)
<1>1. r = [n \in 0 .. MaxQueries |-> IF n = 0 THEN Outcome(u, "ok") ELSE replay_one(r[n - 1].w)]
  BY MaxQueriesAssumption, ReplayedExists
<1>2. PICK k \in 0 .. MaxQueries : /\ \A m \in 0 .. k - 1 : goes_on(m)
                                   /\ ~goes_on(k) /\ o = Outcome(r[k].w, "ok")
  BY DEF Replay
<1> HIDE DEF r
<1>3. Replayed(r, u, MaxQueries)
  <2>1. 0 \in 0 .. MaxQueries /\ \A n \in 1 .. MaxQueries : n \in 0 .. MaxQueries /\ n # 0
    BY MaxQueriesAssumption
  <2> QED BY <1>1, <2>1 DEF Replayed
<1> DEFINE Good(n) == Replaying(r[n].w, stop) /\ Follows(r[n].w, u)
           S == {n \in Nat : n < k => Good(n)}
<1>4. 0 \in S
  <2>1. r[0].w = u
    BY <1>3, OutcomeIs DEF Replayed
  <2>2. Follows(u, u)
    BY Replays DEF Follows
  <2> QED BY <2>1, <2>2
<1>5. ASSUME NEW n \in Nat, n < MaxQueries, Good(n)
      PROVE  LET v == r[n + 1]
             IN  \/ v.res = "ok" /\ Good(n + 1)
                 \/ v.res = "caught" /\ Ready(v.w) /\ Follows(v.w, u) /\ v.w.second <= stop /\ v.w.error < Limit
  <2>1. r[n + 1] = replay_one(r[n].w)
    <3>1. n + 1 \in 1 .. MaxQueries /\ (n + 1) - 1 = n
      BY <1>5, MaxQueriesAssumption
    <3> QED BY <1>3, <3>1 DEF Replayed
  <2> DEFINE v == r[n + 1]
             t == r[n].w
  <2> HIDE DEF v, t
  <2>2. \/ v.res = "ok" /\ Replaying(v.w, stop) /\ Follows(v.w, t)
        \/ v.res = "caught" /\ Ready(v.w) /\ Follows(v.w, t) /\ v.w.second <= stop /\ v.w.error < Limit
    BY <1>5, <2>1, ReplayOneIs DEF v, t
  <2>3. Follows(t, u) /\ t.first \in Nat /\ u.first \in Nat
    BY <1>5, Replays DEF t
  <2>4. v.w.first \in Nat
    BY <2>2, Replays, Places DEF Ready, PipelineInvariant
  <2>5. Follows(v.w, u)
    BY <2>2, <2>3, <2>4 DEF Follows
  <2> QED BY <2>2, <2>5 DEF v
<1>6. ASSUME NEW n \in Nat, n \in S PROVE n + 1 \in S
  <2> SUFFICES ASSUME n + 1 < k PROVE Good(n + 1)
    OBVIOUS
  <2>1. n < k /\ n < MaxQueries /\ n + 1 \in 0 .. k - 1 /\ n + 1 # 0
    BY MaxQueriesAssumption
  <2>2. Good(n) /\ goes_on(n + 1)
    BY <1>2, <1>6, <2>1
  <2>3. r[n + 1].res = "ok"
    BY <2>1, <2>2
  <2> QED BY <1>5, <2>1, <2>2, <2>3
<1>7. Nat \subseteq S
  <2> HIDE DEF S
  <2> QED BY <1>4, <1>6, NumberInduction
<1>8. k # 0
  BY <1>2
<1>9. k - 1 \in Nat /\ k - 1 < k /\ k - 1 < MaxQueries /\ (k - 1) + 1 = k
  BY <1>8, MaxQueriesAssumption
<1>10. Good(k - 1)
  BY <1>7, <1>9
<1> HIDE DEF Good
<1>11. \/ r[k].res = "ok" /\ Good(k)
       \/ r[k].res = "caught" /\ Ready(r[k].w) /\ Follows(r[k].w, u) /\ r[k].w.second <= stop /\ r[k].w.error < Limit
  BY <1>5, <1>9, <1>10
<1>12. ~ (r[k].res = "ok" /\ Good(k))
  <2> SUFFICES ASSUME r[k].res = "ok", Good(k) PROVE FALSE
    OBVIOUS
  <2>1. r[k].w.first \in Nat /\ stop \in Nat /\ r[k].w.first < stop
    BY Replays DEF Good
  <2>2. r[k].w.first # stop
    BY <2>1
  <2> QED BY <1>2, <1>8, <2>2
<1> QED BY <1>2, <1>11, <1>12, OutcomeIs

-----------------------------------------------------------------------------
(* Receiving *)

\* The dummy query is answered.
DummyAnswered(v, w) ==
    /\ World(v)
    /\ v.queries = w.queries /\ v.first = w.first /\ v.second = w.second /\ v.waiting = w.waiting
    /\ v.q_id = w.q_id /\ v.dummy = FALSE /\ v.error = w.error /\ v.tx = w.tx
    /\ v.answers = Tail(w.answers) /\ v.stray = w.stray /\ v.cancelled = w.cancelled

LEMMA DummyAnsweredIs ==
    ASSUME NEW w, PipelineInvariant(w), have_pending(w), Expected(w), NEW v, DummyAnswered(v, w)
    PROVE  Ready(v) /\ Follows(v, w) /\ v.second <= w.second /\ v.second = w.second
<1>1. Typed(w) /\ Ranged(w) /\ Stopped(w) /\ Held(w) /\ InStep(w)
  BY DEF PipelineInvariant
<1>2. v.answers \in Seq(AnswerType)
  BY <1>1, HeadTailProperties DEF Typed, Expected, DummyAnswered
<1>3. World(v) /\ Typed(v)
  BY <1>1, <1>2 DEF DummyAnswered, Typed, Known
<1>4. Ranged(v) /\ Stopped(v) /\ Held(v)
  <2>1. Ranged(v)
    BY <1>1 DEF DummyAnswered, Ranged, Left, From, Known
  <2>2. Stopped(v)
    BY <1>1 DEF DummyAnswered, Stopped
  <2>3. Held(v)
    BY <1>1 DEF DummyAnswered, Held, Known
  <2> QED BY <2>1, <2>2, <2>3
<1>5. have_pending(v) /\ v.dummy = FALSE /\ v.cancelled = w.cancelled
  BY DEF have_pending, DummyAnswered
<1>6. Matches(v, v.answers)
  <2>1. Pending(v) = Pending(w) /\ v.tx = w.tx /\ v.queries = w.queries /\ v.answers = Tail(w.answers)
    BY DEF Pending, DummyAnswered, Known
  <2>2. Matches(w, v.answers)
    BY <2>1 DEF Expected
  <2> QED BY <2>1, <2>2 DEF Matches
<1>7. InStep(v)
  BY <1>1, <1>5, <1>6 DEF InStep
<1>8. Follows(v, w) /\ v.second <= w.second /\ v.second = w.second
  <2>1. w.first <= w.first /\ w.second <= w.second
    BY <1>1, Places
  <2> QED BY <2>1 DEF Follows, DummyAnswered, Known
<1> QED BY <1>3, <1>4, <1>5, <1>7, <1>8 DEF Ready, PipelineInvariant

\* The batch has been refused, and each of its queries has the error.
Botched(u, w) ==
    /\ World(u)
    /\ u.queries = [q \in Known(w) |-> IF q \in From(w, w.first) \ From(w, w.second)
                                       THEN [w.queries[q] EXCEPT !.res = BatchError] ELSE w.queries[q]]
    /\ u.first = w.first /\ u.second = w.first
    /\ u.waiting = w.waiting + Cardinality(From(w, w.first) \ From(w, w.second))
    /\ u.q_id = w.q_id /\ u.dummy = FALSE /\ u.error = w.error /\ u.tx = w.tx
    /\ u.answers = <<>> /\ u.stray = w.stray /\ u.cancelled = w.cancelled /\ u.registered = FALSE

LEMMA BotchedIs ==
    ASSUME NEW w, PipelineInvariant(w), have_pending(w), Refused(w), NEW u, Botched(u, w)
    PROVE  Replaying(u, w.second) /\ Follows(u, w) /\ w.second \in Int
<1> DEFINE batch == From(w, w.first) \ From(w, w.second)
<1>1. Typed(w) /\ Ranged(w) /\ Stopped(w) /\ Held(w) /\ InStep(w)
  BY DEF PipelineInvariant
<1>2. /\ w.first \in Nat /\ w.second \in Nat /\ w.second <= NoMore /\ w.first <= w.second
      /\ NoMore \in Nat /\ Limit = NoMore + 1
      /\ Known(w) \subseteq Nat /\ \A q \in Known(w) : q < NoMore /\ q >= 1
  BY <1>1, Places
<1>3. /\ w.first < w.second /\ w.first \in Known(w) /\ w.error = Limit /\ w.tx # "gone"
      /\ \A q \in Known(w) : q < w.error /\ (q >= w.first => w.queries[q].res = NoResult)
  BY PendingIs
<1>4. Known(u) = Known(w) /\ World(u)
  BY DEF Known, Botched
<1>5. \A q \in Known(w) : q \in batch <=> w.first <= q /\ q < w.second
  <2>1. \A q \in Known(w) : q \in batch <=> q >= w.first /\ ~ (q >= w.second)
    BY DEF From
  <2>2. \A q \in Known(w) : (q >= w.first <=> w.first <= q) /\ (~ (q >= w.second) <=> q < w.second)
    BY <1>2
  <2> QED BY <2>1, <2>2
<1>6. Cardinality(batch) \in Nat /\ Cardinality(batch) + Left(w, w.second) = Left(w, w.first)
      /\ Left(w, w.second) \in Nat /\ Left(w, w.first) \in Nat
  <2>1. w.first \in Int /\ w.second \in Int
    BY <1>2
  <2>2. Cardinality(batch) \in Nat /\ Cardinality(batch) + Left(w, w.second) = Left(w, w.first)
    BY <1>1, <1>2, <2>1, LeftOfBatch
  <2>3. Left(w, w.second) \in Nat /\ Left(w, w.first) \in Nat
    BY <1>1, <2>1, LeftIs
  <2> QED BY <2>2, <2>3
<1>7. u.queries = [q \in Known(w) |-> IF q \in batch THEN [w.queries[q] EXCEPT !.res = BatchError] ELSE w.queries[q]]
  BY DEF Botched
<1> HIDE DEF batch
<1>8. ASSUME NEW q \in Known(w)
      PROVE  /\ u.queries[q].kind = w.queries[q].kind /\ DOMAIN u.queries[q] = {"kind", "res"}
             /\ u.queries[q].res = IF q \in batch THEN BatchError ELSE w.queries[q].res
  <2>1. DOMAIN w.queries[q] = {"kind", "res"}
    BY <1>1 DEF Typed
  <2> QED BY <1>7, <2>1
<1>9. Typed(u)
  <2>1. u.q_id = w.q_id /\ u.answers = <<>> /\ u.waiting = w.waiting + Cardinality(batch)
    BY DEF Botched, batch
  <2>2. <<>> \in Seq(AnswerType)
    OBVIOUS
  <2>3. \A q \in Known(w) : u.queries[q].kind \in QueryKinds /\ u.queries[q].res \in Own(q)
    BY <1>1, <1>8 DEF Typed, Own
  <2>4. u.waiting \in Int
    BY <1>1, <1>6, <2>1 DEF Typed
  <2> QED BY <1>1, <1>4, <1>8, <2>1, <2>2, <2>3, <2>4 DEF Typed
<1>10. u.waiting <= Left(u, u.first)
  <2>1. Left(u, u.first) = Left(w, w.first)
    BY <1>4 DEF Left, From, Botched
  <2>2. w.waiting <= Left(w, w.second) /\ w.waiting \in Int
    BY <1>1 DEF Ranged, Typed
  <2>3. u.waiting = w.waiting + Cardinality(batch)
    BY DEF Botched, batch
  <2> QED BY <1>6, <2>1, <2>2, <2>3
<1>11. ASSUME NEW q \in Known(w)
       PROVE  /\ q < w.first => /\ u.queries[q].res # NoResult
                                /\ w.tx = "non" /\ u.queries[q].res.ok = FALSE => u.queries[q].kind # "good"
              /\ w.first <= q /\ q < w.second => u.queries[q].res = BatchError
  <2>1. q < w.first => q \notin batch
    BY <1>2, <1>5
  <2>2. q < w.error
    BY <1>3
  <2> QED BY <1>1, <1>5, <1>8, <2>1, <2>2 DEF Held
<1>12. w.tx = "non" => \E q \in Known(w) : w.first <= q /\ q < w.second /\ u.queries[q].kind # "good"
  BY <1>8 DEF Refused, Wrong, Pending
<1>13. /\ u.first = w.first /\ u.error = Limit /\ u.answers = <<>> /\ u.dummy = FALSE /\ u.registered = FALSE
       /\ u.stray = FALSE /\ u.cancelled \in BOOLEAN /\ u.tx \in {"non", "failed"} /\ u.tx = w.tx
       /\ u.cancelled = w.cancelled /\ u.q_id = w.q_id
  BY <1>1, <1>3 DEF Botched, Stopped, InStep, Refused
<1>14. Replaying(u, w.second)
  BY <1>1, <1>3, <1>4, <1>9, <1>10, <1>11, <1>12, <1>13 DEF Replaying, Ranged
<1>15. Follows(u, w)
  <2>1. w.error < Limit => u.error < Limit
    BY DEF Botched
  <2> QED BY <1>2, <1>4, <1>13, <2>1 DEF Follows
<1> QED BY <1>2, <1>14, <1>15

LEMMA DummyIs ==
    ASSUME NEW w, PipelineInvariant(w), have_pending(w), w.dummy = TRUE, NEW o \in obtain_dummy(w)
    PROVE  o.res = "ok" /\ Onward(o, w)
<1> DEFINE rest == [w EXCEPT !.answers = Tail(@), !.dummy = FALSE]
<1>0. World(w) /\ w.answers \in Seq(AnswerType) /\ (Refused(w) \/ Expected(w))
  BY DEF PipelineInvariant, Typed, InStep
<1>1. CASE Expected(w)
  <2>1. w.answers # <<>> /\ Head(w.answers).ok = TRUE /\ Head(w.answers).of = 0
    BY <1>1 DEF Expected, NoResult
  <2>2. o = Outcome(rest, "ok")
    BY <2>1 DEF obtain_dummy
  <2>3. o.w = rest /\ o.res = "ok"
    BY <2>2, OutcomeIs
  <2>4. DummyAnswered(o.w, w)
    BY <1>0, <2>3 DEF World, DummyAnswered
  <2> QED BY <1>1, <2>3, <2>4, DummyAnsweredIs DEF Onward
<1>2. CASE Refused(w)
  <2> DEFINE batch == From(w, w.first) \ From(w, w.second)
             qs == [q \in Known(w) |-> IF q \in batch THEN [w.queries[q] EXCEPT !.res = BatchError] ELSE w.queries[q]]
             blamed == [rest EXCEPT !.queries = qs]
             idle == [blamed EXCEPT !.active = FALSE]
             reset == [idle EXCEPT !.waiting = @ + Cardinality(batch), !.second = w.first, !.registered = FALSE]
  <2>1. w.answers # <<>> /\ Head(w.answers).ok = FALSE /\ Tail(w.answers) = <<>>
    <3>1. w.answers = <<BatchError>>
      BY <1>2 DEF Refused
    <3>2. BatchError.ok = FALSE
      BY DEF BatchError
    <3> QED BY <3>1, <3>2
  <2>2. obtain_result(blamed, TRUE) = Outcome(idle, "none")
    <3>1. blamed.answers = <<>>
      BY <1>0, <2>1 DEF World
    <3> HIDE DEF blamed
    <3> QED BY <3>1 DEF obtain_result, idle
  <2>3. rest.queries = w.queries
    BY <1>0 DEF World
  <2>4. o \in Replay(reset, w.second)
    <3> DEFINE ended == obtain_result(blamed, TRUE)
    <3>0. ended = Outcome(idle, "none")
      BY <2>2
    <3>2. ended = obtain_result([rest EXCEPT !.queries = [q \in Known(w) |-> IF q \in batch THEN [@[q] EXCEPT !.res = BatchError] ELSE @[q]]], TRUE)
      BY <2>3
    <3> HIDE DEF ended, idle
    <3>1. ended.w = idle /\ ended.res = "none"
      BY <3>0, OutcomeIs
    <3>3. obtain_dummy(w) = Replay([ended.w EXCEPT !.waiting = @ + Cardinality(batch), !.second = w.first, !.registered = FALSE], w.second)
      BY <2>1, <3>1, <3>2 DEF obtain_dummy
    <3> QED BY <3>1, <3>3
  <2>5. Botched(reset, w)
    <3> DEFINE n == w.waiting + Cardinality(batch)
               x == qs
               t == Tail(w.answers)
               r == reset
    <3> HIDE DEF n, x, t, r
    <3>1. r = [[[[w EXCEPT !.answers = t, !.dummy = FALSE] EXCEPT !.queries = x] EXCEPT !.active = FALSE]
                  EXCEPT !.waiting = n, !.second = w.first, !.registered = FALSE]
      <4>1. idle.waiting = w.waiting
        BY <1>0 DEF World
      <4> QED BY <4>1 DEF r, n, x, t
    <3>2. World(r) /\ r.queries = x /\ r.waiting = n /\ r.second = w.first /\ r.registered = FALSE
          /\ r.answers = t /\ r.dummy = FALSE
      BY <1>0, <3>1 DEF World
    <3>3. /\ r.first = w.first /\ r.q_id = w.q_id /\ r.error = w.error /\ r.tx = w.tx
          /\ r.stray = w.stray /\ r.cancelled = w.cancelled
      BY <1>0, <3>1 DEF World
    <3>4. t = <<>>
      BY <2>1 DEF t
    <3> QED BY <3>2, <3>3, <3>4 DEF Botched, n, x, r
  <2> HIDE DEF reset
  <2>6. Replaying(reset, w.second) /\ Follows(reset, w) /\ w.second \in Int
    BY <1>2, <2>5, BotchedIs
  <2>7. o.res = "ok" /\ Ready(o.w) /\ Follows(o.w, reset) /\ o.w.second <= w.second /\ o.w.error < Limit
    BY <2>4, <2>6, ReplayIs
  <2>8. w.first \in Nat /\ reset.first \in Nat /\ o.w.first \in Nat
    BY <2>6, <2>7, Replays, Places DEF Ready, PipelineInvariant
  <2>9. Follows(o.w, w)
    BY <2>6, <2>7, <2>8 DEF Follows
  <2> QED BY <2>7, <2>9 DEF Onward
<1> QED BY <1>0, <1>1, <1>2

LEMMA OnwardAfter ==
    ASSUME NEW u, NEW v, NEW w, PipelineInvariant(w), Onward(v, w), Onward(u, v.w)
    PROVE  Onward(u, w)
<1>1. /\ w.second \in Nat /\ v.w.second \in Nat /\ u.w.second \in Nat
      /\ w.first \in Nat /\ v.w.first \in Nat /\ u.w.first \in Nat
  BY Places DEF Onward, Ready, PipelineInvariant
<1> QED BY <1>1 DEF Onward, Follows

LEMMA DummyFirstIs ==
    ASSUME NEW w, PipelineInvariant(w), have_pending(w), NEW o \in DummyFirst(w)
    PROVE  o.res = "ok" /\ Onward(o, w)
<1>1. CASE w.dummy = TRUE
  BY <1>1, DummyIs DEF DummyFirst
<1>2. CASE w.dummy = FALSE
  <2>1. o.w = w /\ o.res = "ok"
    BY <1>2, OutcomeIs DEF DummyFirst
  <2>2. Ready(w)
    BY <1>2 DEF Ready
  <2> QED BY <2>1, <2>2, OnwardStart
<1> QED BY <1>1, <1>2 DEF PipelineInvariant, InStep

LEMMA ReceiveIs ==
    ASSUME NEW w, PipelineInvariant(w), have_pending(w), NEW stop \in Int, NEW o \in receive(w, stop)
    PROVE  o.res = "ok" /\ Onward(o, w) /\ (stop <= o.w.first \/ ~have_pending(o.w))
<1>1. PICK d \in DummyFirst(w) : (d.res # "ok" /\ o = d) \/ (d.res = "ok" /\ o \in ReceiveUpTo(d.w, stop))
  BY DEF receive, Then, Threw, Succeeded
<1>2. d.res = "ok" /\ Onward(d, w)
  BY DummyFirstIs
<1>3. Ready(d.w) /\ o \in ReceiveUpTo(d.w, stop)
  BY <1>1, <1>2 DEF Onward
<1>4. o.res = "ok" /\ Onward(o, d.w) /\ (stop <= o.w.first \/ ~have_pending(o.w))
  BY <1>3, ReceiveUpToIs
<1> QED BY <1>2, <1>4, OnwardAfter

\* What receive_if_available leaves: the pipeline as it was, or ready.
Along(v, w) ==
    /\ PipelineInvariant(v) /\ Follows(v, w) /\ v.second <= w.second /\ (~have_pending(v) => Quiet(v))
    /\ v.second = w.second \/ v.error < Limit

LEMMA AvailableIs ==
    ASSUME NEW w, PipelineInvariant(w), have_pending(w), NEW o \in receive_if_available(w)
    PROVE  o.res = "ok" /\ Along(o.w, w)
<1>1. CASE o = Outcome(w, "ok")
  <2>1. o.w = w /\ o.res = "ok"
    BY <1>1, OutcomeIs
  <2>2. w.first <= w.first /\ w.second <= w.second
    BY Places DEF PipelineInvariant
  <2> QED BY <2>1, <2>2 DEF Along, Follows
<1>2. CASE o \in Then(DummyFirst(w), FurtherIfPending)
  <2>1. PICK d \in DummyFirst(w) : (d.res # "ok" /\ o = d) \/ (d.res = "ok" /\ o \in FurtherIfPending(d.w))
    BY <1>2 DEF Then, Threw, Succeeded
  <2>2. d.res = "ok" /\ Onward(d, w)
    BY DummyFirstIs
  <2>3. Ready(d.w) /\ o \in FurtherIfPending(d.w)
    BY <2>1, <2>2 DEF Onward
  <2>4. o.res = "ok" /\ Onward(o, d.w)
    <3>1. CASE have_pending(d.w)
      BY <2>3, <3>1, FurtherIs DEF FurtherIfPending
    <3>2. CASE ~have_pending(d.w)
      BY <2>3, <3>2, OnwardStart, OutcomeIs DEF FurtherIfPending
    <3> QED BY <3>1, <3>2
  <2>5. Onward(o, w)
    BY <2>2, <2>4, OnwardAfter
  <2> QED BY <2>4, <2>5 DEF Onward, Along, Ready, Quiet
<1> QED BY <1>1, <1>2 DEF receive_if_available

\* With nothing pending there is nothing to receive; but a pipeline that has been
\* cancelled may still expect the answer to a dummy.
Blundered(v, w) ==
    /\ World(v)
    /\ v.queries = w.queries /\ v.first = w.first /\ v.second = w.second /\ v.waiting = w.waiting
    /\ v.q_id = w.q_id /\ v.dummy = FALSE /\ v.error = 0 /\ v.tx = w.tx
    /\ v.answers = w.answers /\ v.stray = w.stray /\ v.cancelled = w.cancelled

LEMMA BlunderedIs ==
    ASSUME NEW w, PipelineInvariant(w), ~have_pending(w), w.answers = <<>>, NEW v, Blundered(v, w)
    PROVE  PipelineInvariant(v)
<1>1. Typed(w) /\ Ranged(w) /\ Stopped(w) /\ Held(w) /\ InStep(w) /\ w.first = w.second
  BY DEF PipelineInvariant, have_pending
<1>2. /\ w.first \in Nat /\ NoMore \in Nat /\ Limit = NoMore + 1 /\ w.q_id \in Nat
      /\ Known(w) \subseteq Nat
  BY <1>1, Places
<1>3. World(v) /\ Typed(v)
  BY <1>1 DEF Blundered, Typed, Known
<1>4. Ranged(v)
  BY <1>1 DEF Blundered, Ranged, Left, From, Known
<1>5. Stopped(v)
  <2>1. 0 \in 0 .. Limit /\ 0 < Limit /\ 0 <= w.first /\ 0 <= w.q_id + 1
    BY <1>2
  <2> QED BY <1>1, <2>1 DEF Blundered, Stopped
<1>6. Held(v)
  <2>1. \A q \in Known(v) : ~ (q < v.error)
    BY <1>2 DEF Blundered, Known
  <2> QED BY <2>1 DEF Held
<1>7. ~have_pending(v) /\ Quiet(v)
  BY <1>1 DEF Blundered, have_pending, Quiet
<1>8. InStep(v)
  BY <1>1, <1>7 DEF InStep, Blundered
<1> QED BY <1>3, <1>4, <1>5, <1>6, <1>8 DEF PipelineInvariant

LEMMA NothingAvailable ==
    ASSUME NEW w, PipelineInvariant(w), ~have_pending(w), w.answers = <<>>, NEW o \in receive_if_available(w)
    PROVE  /\ PipelineInvariant(o.w)
           /\ o = Outcome(w, "ok") \/ (o.res = "internal" /\ o.w.cancelled = TRUE)
<1>1. CASE o = Outcome(w, "ok")
  BY <1>1, OutcomeIs
<1>2. CASE o # Outcome(w, "ok")
  <2>1. PICK d \in DummyFirst(w) : (d.res # "ok" /\ o = d) \/ (d.res = "ok" /\ o \in FurtherIfPending(d.w))
    BY <1>2 DEF receive_if_available, Then, Threw, Succeeded
  <2>2. w.dummy = TRUE
    <3> SUFFICES ASSUME w.dummy = FALSE PROVE FALSE
      BY DEF PipelineInvariant, InStep
    <3>1. d = Outcome(w, "ok")
      BY DEF DummyFirst
    <3>2. d.res = "ok" /\ d.w = w
      BY <3>1, OutcomeIs
    <3>3. o = Outcome(w, "ok")
      BY <2>1, <3>2 DEF FurtherIfPending
    <3> QED BY <1>2, <3>3
  <2>3. d = internal_error([w EXCEPT !.dummy = FALSE])
    BY <2>2 DEF DummyFirst, obtain_dummy
  <2>4. d.w = set_error_at([w EXCEPT !.dummy = FALSE], 0) /\ d.res = "internal"
    BY <2>3, OutcomeIs DEF internal_error
  <2>5. World(w) /\ w.error \in Int /\ 0 <= w.error /\ w.cancelled = TRUE
    <3>1. Limit \in Nat
      BY Places DEF PipelineInvariant
    <3> QED BY <2>2, <3>1 DEF PipelineInvariant, Stopped, InStep, Quiet
  <2>6. Min({w.error, 0}) = 0
    BY <2>5, MinOfTwo
  <2>7. Blundered(d.w, w)
    <3> DEFINE v == d.w
    <3> HIDE DEF v
    <3>1. v = [[w EXCEPT !.dummy = FALSE] EXCEPT !.error = 0]
      BY <2>4, <2>5, <2>6 DEF set_error_at, World, v
    <3>2. Blundered(v, w)
      BY <2>5, <3>1 DEF World, Blundered
    <3> QED BY <3>2 DEF v
  <2>8. PipelineInvariant(d.w) /\ d.w.cancelled = TRUE
    BY <2>5, <2>7, BlunderedIs DEF Blundered
  <2> QED BY <2>1, <2>4, <2>8
<1> QED BY <1>1, <1>2

-----------------------------------------------------------------------------
(* The answers to a batch *)

LEMMA RankIs ==
    ASSUME NEW S \in SUBSET Nat, IsFiniteSet(S)
    PROVE  /\ \A x \in S : Rank(S, x) \in 1 .. Cardinality(S)
           /\ \A x, y \in S : x < y => Rank(S, x) < Rank(S, y)
<1> DEFINE Below(x) == {s \in S : s <= x}
<1>1. \A x \in S : Below(x) \in SUBSET S /\ IsFiniteSet(Below(x)) /\ Cardinality(Below(x)) <= Cardinality(S)
  BY FS_Subset
<1>2. \A x \in S : Cardinality(Below(x)) \in Nat /\ (Cardinality(Below(x)) = 0 <=> Below(x) = {})
  BY <1>1, FS_EmptySet, FS_CardinalityType
<1>3. \A x \in S : x \in Below(x)
  OBVIOUS
<1>4. Cardinality(S) \in Nat
  BY FS_CardinalityType
<1>5. \A x \in S : Cardinality(Below(x)) \in 1 .. Cardinality(S)
  <2> SUFFICES ASSUME NEW x \in S PROVE Cardinality(Below(x)) \in 1 .. Cardinality(S)
    OBVIOUS
  <2>1. Cardinality(Below(x)) # 0
    BY <1>2, <1>3
  <2> HIDE DEF Below
  <2> QED BY <1>1, <1>2, <1>4, <2>1
<1>6. ASSUME NEW x \in S, NEW y \in S, x < y PROVE Cardinality(Below(x)) < Cardinality(Below(y))
  <2>1. Below(x) \in SUBSET Below(y) /\ y \notin Below(x)
    <3>1. \A i, j, k \in Nat : j < k /\ i <= j => i <= k
      OBVIOUS
    <3>2. ~ (y <= x)
      BY <1>6
    <3> QED BY <1>6, <3>1, <3>2
  <2>2. Cardinality(Below(x)) <= Cardinality(Below(y)) /\ Cardinality(Below(x)) # Cardinality(Below(y))
    BY <1>1, <1>3, <2>1, FS_Subset
  <2> HIDE DEF Below
  <2> QED BY <1>2, <2>2
<1> QED BY <1>5, <1>6 DEF Rank

LEMMA RankReached ==
    ASSUME NEW S \in SUBSET Nat, IsFiniteSet(S), NEW i \in 1 .. Cardinality(S)
    PROVE  \E x \in S : Rank(S, x) = i
<1> DEFINE n == Cardinality(S)
           f == [x \in S |-> Rank(S, x)]
<1>1. n \in Nat
  BY FS_CardinalityType
<1>2. f \in [S -> 1 .. n]
  BY RankIs
<1>3. \A x, y \in S : f[x] = f[y] => x = y
  <2> SUFFICES ASSUME NEW x \in S, NEW y \in S, Rank(S, x) = Rank(S, y) PROVE x = y
    OBVIOUS
  <2>1. Rank(S, x) \in Int /\ Rank(S, y) \in Int /\ x \in Nat /\ y \in Nat
    BY RankIs
  <2>2. ~ (x < y) /\ ~ (y < x)
    BY <2>1, RankIs
  <2> QED BY <2>1, <2>2
<1>4. IsFiniteSet(1 .. n) /\ Cardinality(1 .. n) = n
  <2>1. 1 \in Int /\ n \in Int /\ (1 > n => n = 0) /\ n - 1 + 1 = n
    BY <1>1
  <2> QED BY <2>1, FS_Interval
<1> HIDE DEF f, n
<1>5. f \in Injection(S, 1 .. n)
  BY <1>2, <1>3, Fun_IsInj
<1>6. Cardinality(S) = Cardinality(1 .. n)
  BY <1>4 DEF n
<1>7. f \in Surjection(S, 1 .. n)
  BY <1>4, <1>5, <1>6, FS_Injection
<1>8. \A j \in 1 .. n : \E x \in S : f[x] = j
  BY <1>7, Fun_SurjectionProperties
<1> QED BY <1>8 DEF f, n

\* The answers are, in order, for the oldest of the queries qs, and only one that
\* is wrong fails.
InOrder(w, qs, ans) ==
    /\ ans \in Seq(AnswerType)
    /\ \A i \in 1 .. Len(ans) :
          /\ ans[i].of \in qs
          /\ ans[i].ok = FALSE => w.queries[ans[i].of].kind # "good"
          /\ \A j \in 1 .. i - 1 : ans[j].of < ans[i].of
          /\ \A q \in qs : q < ans[i].of => \E j \in 1 .. i - 1 : ans[j].of = q

LEMMA UpToErrorIs ==
    ASSUME NEW w, NEW qs \in SUBSET Nat, IsFiniteSet(qs)
    PROVE  InOrder(w, qs, UpToError(w, qs))
<1> DEFINE bad == {q \in qs : w.queries[q].kind # "good"}
           run == {q \in qs : \A b \in bad : q <= b}
           n == Cardinality(run)
           at(i) == Nth(run, i)
           ans == UpToError(w, qs)
<1>1. run \in SUBSET qs /\ run \in SUBSET Nat /\ IsFiniteSet(run) /\ n \in Nat
  BY FS_Subset, FS_CardinalityType
<1>2. ans = [i \in 1 .. n |-> [of |-> at(i), ok |-> at(i) \notin bad]]
  BY DEF UpToError
<1>3. \A q \in run, r \in qs : r < q => r \in run
  <2>1. \A i, j, k \in Nat : i < j /\ j <= k => i <= k
    OBVIOUS
  <2>2. \A b \in bad : b \in Nat
    OBVIOUS
  <2> QED BY <2>1, <2>2
<1>4. \A q \in run : q \in bad => w.queries[q].kind # "good"
  OBVIOUS
<1> HIDE DEF run, bad
<1>5. \A i \in 1 .. n : at(i) \in run /\ Rank(run, at(i)) = i
  BY <1>1, RankReached DEF Nth
<1>6. \A x, y \in run : Rank(run, x) \in 1 .. n /\ (x < y => Rank(run, x) < Rank(run, y))
  BY <1>1, RankIs
<1> HIDE DEF at
<1>7. Len(ans) = n /\ ans \in Seq(AnswerType)
  <2>1. \A i \in 1 .. n : [of |-> at(i), ok |-> at(i) \notin bad] \in AnswerType
    BY <1>1, <1>5 DEF AnswerType
  <2>2. ans \in [1 .. n -> AnswerType]
    BY <1>2, <2>1
  <2> HIDE DEF ans, n
  <2> QED BY <1>1, <2>2
<1> HIDE DEF ans, n
<1>8. \A i \in 1 .. n : ans[i].of = at(i) /\ ans[i].ok = (at(i) \notin bad)
  BY <1>2
<1> SUFFICES ASSUME NEW i \in 1 .. n
             PROVE  /\ ans[i].of \in qs
                    /\ ans[i].ok = FALSE => w.queries[ans[i].of].kind # "good"
                    /\ \A j \in 1 .. i - 1 : ans[j].of < ans[i].of
                    /\ \A q \in qs : q < ans[i].of => \E j \in 1 .. i - 1 : ans[j].of = q
  BY <1>7 DEF InOrder, ans
<1>9. \A j \in 1 .. i - 1 : j \in 1 .. n /\ j < i
  BY <1>1
<1>10. \A j \in 1 .. i - 1 : at(j) < at(i)
  <2> SUFFICES ASSUME NEW j \in 1 .. i - 1 PROVE at(j) < at(i)
    OBVIOUS
  <2>1. j \in 1 .. n /\ j < i
    BY <1>9
  <2>2. at(j) \in Nat /\ at(i) \in Nat /\ at(j) \in run /\ at(i) \in run
    BY <1>1, <1>5, <2>1
  <2>3. Rank(run, at(j)) = j /\ Rank(run, at(i)) = i
    BY <1>5, <2>1
  <2>4. at(j) # at(i)
    BY <1>1, <2>1, <2>3
  <2>5. ~ (at(i) < at(j))
    <3>1. at(i) < at(j) => i < j
      BY <1>6, <2>2, <2>3
    <3> QED BY <1>1, <2>1, <3>1
  <2> QED BY <2>2, <2>4, <2>5
<1>11. ASSUME NEW q \in qs, q < at(i) PROVE \E j \in 1 .. i - 1 : at(j) = q
  <2>1. q \in run /\ at(i) \in run
    BY <1>3, <1>5, <1>11
  <2> DEFINE j == Rank(run, q)
  <2>2. j \in 1 .. n /\ j < i
    BY <1>5, <1>6, <1>11, <2>1
  <2>3. at(j) \in run /\ Rank(run, at(j)) = j
    BY <1>5, <2>2
  <2> HIDE DEF j
  <2>4. at(j) = q
    <3>1. at(j) \in Nat /\ q \in Nat
      BY <1>1, <2>1, <2>3
    <3>2. at(j) < q => j < j
      BY <1>6, <2>1, <2>3 DEF j
    <3>3. q < at(j) => j < j
      BY <1>6, <2>1, <2>3 DEF j
    <3>4. ~ (j < j)
      BY <2>2
    <3> QED BY <3>1, <3>2, <3>3, <3>4
  <2>5. j \in 1 .. i - 1
    BY <2>2
  <2> QED BY <2>4, <2>5
<1>12. at(i) \in qs /\ at(i) \in run
  BY <1>1, <1>5
<1>13. ans[i].ok = FALSE => w.queries[ans[i].of].kind # "good"
  BY <1>4, <1>8, <1>12
<1> QED BY <1>8, <1>9, <1>10, <1>11, <1>12, <1>13

LEMMA LeadIs ==
    ASSUME NEW T, NEW x \in T, NEW s \in Seq(T)
    PROVE  LET z == <<x>> \o s
           IN  z \in Seq(T) /\ z # <<>> /\ Head(z) = x /\ Tail(z) = s
<1> DEFINE z == <<x>> \o s
<1>1. <<x>> \in Seq(T) /\ Len(<<x>>) = 1 /\ <<x>>[1] = x
  OBVIOUS
<1>2. /\ z \in Seq(T) /\ Len(z) = 1 + Len(s)
      /\ \A i \in 1 .. 1 + Len(s) : z[i] = IF i <= 1 THEN <<x>>[i] ELSE s[i - 1]
  BY <1>1, ConcatProperties
<1>3. Len(s) \in Nat
  BY LenProperties
<1> HIDE DEF z
<1>4. z # <<>>
  BY <1>2, <1>3
<1>5. Head(z) = x
  <2>1. 1 \in 1 .. 1 + Len(s)
    BY <1>3
  <2>2. z[1] = x
    BY <1>1, <1>2, <2>1
  <2> QED BY <1>2, <1>4, <2>2
<1>6. /\ Tail(z) \in Seq(T) /\ Len(Tail(z)) = Len(s)
      /\ \A i \in 1 .. Len(Tail(z)) : Tail(z)[i] = z[i + 1]
  <2>1. Len(z) - 1 = Len(s)
    BY <1>2, <1>3
  <2> QED BY <1>2, <1>4, <2>1, HeadTailProperties
<1>7. \A i \in 1 .. Len(s) : Tail(z)[i] = s[i]
  <2> SUFFICES ASSUME NEW i \in 1 .. Len(s) PROVE Tail(z)[i] = s[i]
    OBVIOUS
  <2>1. i + 1 \in 1 .. 1 + Len(s) /\ ~ (i + 1 <= 1) /\ (i + 1) - 1 = i
    BY <1>3
  <2> QED BY <1>2, <1>6, <2>1
<1>8. Tail(z) = s
  BY <1>6, <1>7, SeqEqual
<1> QED BY <1>2, <1>4, <1>5, <1>8 DEF z

\* The answer to a query that is sent by itself, and to a batch with a dummy: that
\* it has been refused, or the results up to the first that fails.
AnsweredAlone(w, qs, ans) ==
    \A i \in 1 .. Len(ans) :
        /\ ans[i].of \in qs
        /\ w.tx # "failed" /\ ans[i].ok = FALSE => w.queries[ans[i].of].kind # "good"
        /\ \A j \in 1 .. i - 1 : ans[j].of < ans[i].of
        /\ \A q \in qs : q < ans[i].of => \E j \in 1 .. i - 1 : ans[j].of = q

AnsweredBatch(w, qs, ans) ==
    \/ /\ ans = <<BatchError>>
       /\ w.tx # "failed" => \E q \in qs : w.queries[q].kind # "good"
    \/ ans # <<>> /\ Head(ans) = NoResult /\ InOrder(w, qs, Tail(ans))

Answered(w, qs, dummy, ans) ==
    /\ ans \in Seq(AnswerType)
    /\ dummy = FALSE => AnsweredAlone(w, qs, ans)
    /\ dummy = TRUE => AnsweredBatch(w, qs, ans)

LEMMA AnswersAre ==
    ASSUME Transient = FALSE, NEW w, Typed(w), w.tx \in {"non", "open", "failed"},
           NEW qs \in SUBSET Known(w), qs # {}, IsFiniteSet(qs),
           NEW dummy \in BOOLEAN, dummy = (Cardinality(qs) > 1), NEW ans \in Answers(w, qs, dummy)
    PROVE  Answered(w, qs, dummy, ans)
<1> DEFINE parsed == \A q \in qs : w.queries[q].kind # "syntax"
<1>1. qs \in SUBSET Nat
  BY DEF Typed
<1>2. CASE w.tx = "failed" \/ ~parsed
  <2>1. CASE dummy = TRUE
    <3>1. ans = <<BatchError>>
      BY <1>2, <2>1 DEF Answers
    <3>2. BatchError \in AnswerType
      BY DEF BatchError, AnswerType
    <3>3. w.tx # "failed" => \E q \in qs : w.queries[q].kind # "good"
      BY <1>2
    <3>4. <<BatchError>> \in Seq(AnswerType)
      BY <3>2
    <3> QED BY <2>1, <3>1, <3>3, <3>4 DEF Answered, AnsweredBatch
  <2>2. CASE dummy = FALSE
    <3> DEFINE m == Min(qs)
               a == [of |-> m, ok |-> FALSE]
    <3>1. ans = <<a>>
      BY <1>2, <2>2 DEF Answers
    <3>2. m \in qs /\ \A q \in qs : m <= q
      BY <1>1, MinIs
    <3>3. \A q \in qs : q = m
      <4>1. Cardinality(qs) \in Nat /\ Cardinality(qs) # 0 /\ ~ (Cardinality(qs) > 1)
        BY <2>2, FS_CardinalityType, FS_EmptySet
      <4>2. Cardinality(qs) = 1
        BY <4>1
      <4>3. PICK x : qs = {x}
        BY <4>2, FS_Singleton
      <4> HIDE DEF m
      <4> QED BY <3>2, <4>3
    <3>4. w.tx # "failed" => w.queries[m].kind # "good"
      BY <1>2, <3>3
    <3> HIDE DEF m
    <3>5. a \in AnswerType /\ a.of = m
      BY <1>1, <3>2 DEF AnswerType
    <3> HIDE DEF a
    <3>6. ans \in Seq(AnswerType) /\ Len(ans) = 1 /\ ans[1] = a
      BY <3>1, <3>5
    <3>7. \A q \in qs : ~ (q < m)
      BY <1>1, <3>2
    <3>8. \A i \in 1 .. Len(ans) : i = 1 /\ 1 .. i - 1 = {}
      BY <3>6
    <3> QED BY <2>2, <3>2, <3>4, <3>5, <3>6, <3>7, <3>8 DEF Answered, AnsweredAlone
  <2> QED BY <2>1, <2>2
<1>3. CASE ~ (w.tx = "failed" \/ ~parsed)
  <2> DEFINE up == UpToError(w, qs)
  <2>1. InOrder(w, qs, up)
    BY <1>1, UpToErrorIs
  <2> HIDE DEF up
  <2>2. up \in Seq(AnswerType) /\ NoResult \in AnswerType
    BY <2>1 DEF InOrder, NoResult, AnswerType
  <2>3. CASE dummy = TRUE
    <3>1. ans = <<NoResult>> \o up
      BY <1>3, <2>3 DEF Answers, NoResult, up
    <3>2. ans \in Seq(AnswerType) /\ ans # <<>> /\ Head(ans) = NoResult /\ Tail(ans) = up
      BY <2>2, <3>1, LeadIs
    <3> QED BY <2>1, <2>3, <3>2 DEF Answered, AnsweredBatch
  <2>4. CASE dummy = FALSE
    <3>1. ans = <<>> \o up
      BY <1>3, <2>4 DEF Answers, up
    <3>2. ans = up
      BY <2>2, <3>1, ConcatEmptySeq
    <3> QED BY <2>1, <2>2, <2>4, <3>2 DEF InOrder, Answered, AnsweredAlone
  <2> QED BY <2>3, <2>4
<1> QED BY <1>2, <1>3

-----------------------------------------------------------------------------
(* issue *)

\* More results than queries: what cancel has left with libpq.
Surplus(v, w, error) ==
    /\ World(v)
    /\ v.queries = w.queries /\ v.first = w.first /\ v.second = w.second /\ v.waiting = w.waiting
    /\ v.q_id = w.q_id /\ v.dummy = w.dummy /\ v.error = error /\ v.tx = w.tx
    /\ v.answers = Tail(w.answers) /\ v.stray = w.stray /\ v.cancelled = w.cancelled

LEMMA SurplusIs ==
    ASSUME NEW w, PipelineInvariant(w), ~have_pending(w), w.answers # <<>>, w.second \in Known(w),
           NEW v, NEW e, e = (IF FirstKnown(w) <= w.error THEN FirstKnown(w) ELSE w.error), Surplus(v, w, e)
    PROVE  PipelineInvariant(v) /\ v.cancelled = TRUE
<1>1. Typed(w) /\ Ranged(w) /\ Stopped(w) /\ Held(w) /\ InStep(w) /\ w.first = w.second
  BY DEF PipelineInvariant, have_pending
<1>2. /\ w.first \in Nat /\ NoMore \in Nat /\ Limit = NoMore + 1 /\ w.q_id \in Nat
      /\ Known(w) \subseteq Nat /\ \A q \in Known(w) : q <= w.q_id /\ q < NoMore
  BY <1>1, Places
<1> DEFINE f == FirstKnown(w)
<1>3. f \in Nat /\ \A i \in Known(w) : f <= i
  BY <1>1, FirstKnownIs
<1> HIDE DEF f
<1>4. w.error \in Nat /\ w.error <= Limit
  BY <1>1, <1>2 DEF Stopped
<1>5. e \in Nat /\ e <= f /\ e <= w.error
  BY <1>3, <1>4 DEF f
<1>6. f <= w.first /\ f <= w.q_id
  <2>1. w.first \in Known(w)
    BY <1>1
  <2>2. f <= w.first /\ w.first <= w.q_id
    BY <1>2, <1>3, <2>1
  <2> QED BY <1>2, <1>3, <2>2
<1>7. w.cancelled = TRUE /\ v.cancelled = w.cancelled
  BY <1>1 DEF InStep, Quiet, Surplus
<1>8. World(v) /\ Typed(v)
  <2>1. Tail(w.answers) \in Seq(AnswerType)
    BY <1>1, HeadTailProperties DEF Typed
  <2> QED BY <1>1, <2>1 DEF Surplus, Typed, Known
<1>9. Ranged(v)
  BY <1>1 DEF Surplus, Ranged, Left, From, Known
<1>10. Stopped(v)
  <2>1. e \in 0 .. Limit /\ e <= w.first /\ e <= w.q_id + 1 /\ e < Limit
    BY <1>2, <1>3, <1>4, <1>5, <1>6
  <2> QED BY <1>1, <2>1 DEF Surplus, Stopped
<1>11. Held(v)
  <2>1. \A q \in Known(w) : q < e => q < w.error
    BY <1>2, <1>4, <1>5
  <2> QED BY <1>1, <2>1 DEF Held, Surplus, Known
<1>12. ~have_pending(v)
  BY <1>1 DEF have_pending, Surplus
<1>13. InStep(v)
  BY <1>1, <1>7, <1>12 DEF InStep, Surplus
<1> QED BY <1>7, <1>8, <1>9, <1>10, <1>11, <1>13 DEF PipelineInvariant

\* The batch has been sent: all that waited is pending.
Sent(x, v, dummy, ans) ==
    /\ World(x)
    /\ x.queries = v.queries /\ x.first = v.second /\ x.second = NoMore
    /\ x.waiting = v.waiting - Left(v, v.second)
    /\ x.q_id = v.q_id /\ x.dummy = dummy /\ x.error = v.error
    /\ x.tx = (IF v.tx = "open" /\ \E i \in 1 .. Len(ans) : ~ans[i].ok THEN "failed" ELSE v.tx)
    /\ x.answers = ans /\ x.stray = (v.stray \/ v.tx = "gone") /\ x.cancelled = v.cancelled

LEMMA SentIs ==
    ASSUME Transient = FALSE,
           NEW v, PipelineInvariant(v), ~have_pending(v), v.second \in Known(v), ~ (v.error < Limit),
           NEW dummy \in BOOLEAN, dummy = (Left(v, v.second) > 1),
           NEW ans \in Answers(v, From(v, v.second), dummy), NEW x, Sent(x, v, dummy, ans)
    PROVE  PipelineInvariant(x) /\ Follows(x, v) /\ have_pending(x) /\ x.second = NoMore /\ x.error = Limit
<1> DEFINE batch == From(v, v.second)
<1>1. Typed(v) /\ Ranged(v) /\ Stopped(v) /\ Held(v) /\ InStep(v) /\ v.first = v.second
  BY DEF PipelineInvariant, have_pending
<1>2. /\ v.second \in Nat /\ NoMore \in Nat /\ Limit = NoMore + 1
      /\ Known(v) \subseteq Nat /\ \A q \in Known(v) : q < NoMore
  BY <1>1, Places
<1>3. v.error = Limit /\ v.tx \in {"non", "open", "failed"}
  <2>1. v.error \in 0 .. Limit
    BY <1>1 DEF Stopped
  <2> QED BY <1>1, <1>2, <2>1 DEF Stopped
<1>4. /\ IsFiniteSet(batch) /\ batch \in SUBSET Known(v) /\ v.second \in batch
      /\ Left(v, v.second) = Cardinality(batch) /\ Left(v, v.second) \in Nat
  <2>1. v.second \in Int /\ v.second >= v.second
    BY <1>2
  <2> QED BY <1>1, <2>1, LeftIs DEF From, Left
<1> HIDE DEF batch
<1>5. Answered(v, batch, dummy, ans)
  <2>1. Typed(v) /\ Transient = FALSE
    BY <1>1
  <2>2. v.tx \in {"non", "open", "failed"}
    BY <1>3
  <2>3. batch \in SUBSET Known(v) /\ IsFiniteSet(batch) /\ batch # {}
    BY <1>4
  <2>4. dummy = (Cardinality(batch) > 1)
    BY <1>4
  <2>5. ans \in Answers(v, batch, dummy) /\ dummy \in BOOLEAN
    BY DEF batch
  <2> QED BY <2>1, <2>2, <2>3, <2>4, <2>5, AnswersAre
<1>51. ans \in Seq(AnswerType)
  BY <1>5 DEF Answered
<1>6. /\ Known(x) = Known(v) /\ x.queries = v.queries /\ x.first = v.second /\ x.second = NoMore
      /\ x.dummy = dummy /\ x.error = Limit /\ x.answers = ans /\ x.stray = FALSE /\ x.cancelled = v.cancelled
      /\ x.q_id = v.q_id /\ World(x)
  BY <1>1, <1>3 DEF Sent, Known, Stopped
<1>7. /\ x.tx \in {"non", "open", "failed"} /\ (x.tx = "non" <=> v.tx = "non")
      /\ x.tx = "open" => \A i \in 1 .. Len(ans) : ans[i].ok = TRUE
  <2>1. \A i \in 1 .. Len(ans) : ans[i].ok \in BOOLEAN
    <3> SUFFICES ASSUME NEW i \in 1 .. Len(ans) PROVE ans[i].ok \in BOOLEAN
      OBVIOUS
    <3>1. ans[i] \in AnswerType
      BY <1>51
    <3> QED BY <3>1 DEF AnswerType
  <2>2. x.tx = (IF v.tx = "open" /\ \E i \in 1 .. Len(ans) : ~ans[i].ok THEN "failed" ELSE v.tx)
    BY DEF Sent
  <2>3. CASE v.tx = "open" /\ \E i \in 1 .. Len(ans) : ~ans[i].ok
    BY <2>2, <2>3
  <2>4. CASE ~ (v.tx = "open" /\ \E i \in 1 .. Len(ans) : ~ans[i].ok)
    BY <1>3, <2>1, <2>2, <2>4
  <2> QED BY <2>3, <2>4
<1>8. Typed(x)
  <2>1. x.waiting \in Int
    BY <1>1, <1>4 DEF Typed, Sent
  <2> QED BY <1>1, <1>51, <1>6, <2>1 DEF Typed
<1>9. Ranged(x)
  <2>1. x.waiting <= 0
    <3>1. v.waiting <= Left(v, v.second) /\ v.waiting \in Int
      BY <1>1 DEF Ranged, Typed
    <3>2. x.waiting = v.waiting - Left(v, v.second)
      BY DEF Sent
    <3> QED BY <1>4, <3>1, <3>2
  <2>2. Left(x, NoMore) = 0
    BY <1>8, LeftAtEnd
  <2>3. v.second <= NoMore
    BY <1>2
  <2> QED BY <1>6, <2>1, <2>2, <2>3 DEF Ranged
<1>10. Stopped(x)
  BY <1>2, <1>6, <1>7 DEF Stopped
<1>11. Held(x)
  <2> SUFFICES ASSUME NEW q \in Known(v)
               PROVE  /\ q < v.second => v.queries[q].res # NoResult
                      /\ q >= v.second => v.queries[q].res = NoResult
                      /\ v.tx = "non" /\ v.queries[q].res.ok = FALSE => v.queries[q].kind # "good"
    BY <1>6, <1>7 DEF Held
  <2>1. q < v.error
    BY <1>2, <1>3
  <2> QED BY <1>1, <2>1 DEF Held
<1>12. have_pending(x)
  BY <1>2, <1>6 DEF have_pending
<1>13. Pending(x) = batch
  <2>1. \A q \in Known(v) : (v.second <= q /\ q < NoMore) <=> q >= v.second
    BY <1>2
  <2> QED BY <1>6, <2>1 DEF Pending, From, batch
<1>14. CASE dummy = FALSE
  <2>1. AnsweredAlone(v, batch, ans)
    BY <1>5, <1>14 DEF Answered
  <2>2. Matches(x, ans)
    <3> SUFFICES ASSUME NEW i \in 1 .. Len(ans)
                 PROVE  /\ ans[i].of \in Pending(x)
                        /\ x.tx = "non" /\ ans[i].ok = FALSE => x.queries[ans[i].of].kind # "good"
                        /\ \A j \in 1 .. i - 1 : ans[j].of < ans[i].of
                        /\ \A q \in Pending(x) : q < ans[i].of => \E j \in 1 .. i - 1 : ans[j].of = q
      BY DEF Matches
    <3>1. /\ ans[i].of \in batch
          /\ v.tx # "failed" /\ ans[i].ok = FALSE => v.queries[ans[i].of].kind # "good"
          /\ \A j \in 1 .. i - 1 : ans[j].of < ans[i].of
          /\ \A q \in batch : q < ans[i].of => \E j \in 1 .. i - 1 : ans[j].of = q
      BY <2>1 DEF AnsweredAlone
    <3>2. x.tx = "non" => v.tx # "failed"
      BY <1>7
    <3> QED BY <1>6, <1>13, <3>1, <3>2
  <2>3. Matches(x, x.answers)
    BY <1>6, <2>2
  <2>4. InStep(x)
    BY <1>1, <1>6, <1>12, <1>14, <2>3 DEF InStep
  <2>5. Follows(x, v)
    BY <1>1, <1>2, <1>6 DEF Follows
  <2> QED BY <1>6, <1>8, <1>9, <1>10, <1>11, <1>12, <2>4, <2>5 DEF PipelineInvariant
<1>15. CASE dummy = TRUE
  <2>1. ASSUME ans = <<BatchError>>, v.tx # "failed" => \E q \in batch : v.queries[q].kind # "good"
        PROVE  Refused(x)
    <3>1. x.tx # "open"
      <4>1. 1 \in 1 .. Len(ans) /\ ans[1] = BatchError /\ BatchError.ok = FALSE
        BY <2>1 DEF BatchError
      <4> QED BY <1>7, <4>1
    <3>2. Wrong(x)
      <4> SUFFICES ASSUME x.tx = "non" PROVE \E q \in Pending(x) : x.queries[q].kind # "good"
        BY DEF Wrong
      <4>1. v.tx # "failed"
        BY <1>7
      <4>2. PICK q \in batch : v.queries[q].kind # "good"
        BY <2>1, <4>1
      <4>3. q \in Pending(x) /\ x.queries[q].kind # "good"
        BY <1>6, <1>13, <4>2
      <4> QED BY <4>3
    <3>3. x.answers = <<BatchError>>
      BY <1>6, <2>1
    <3> QED BY <3>1, <3>2, <3>3 DEF Refused
  <2>2. ASSUME ans # <<>>, Head(ans) = NoResult, InOrder(v, batch, Tail(ans))
        PROVE  Expected(x)
    <3> DEFINE a == Tail(ans)
    <3>1. InOrder(v, batch, a)
      BY <2>2
    <3> HIDE DEF a
    <3>2. Matches(x, a)
      <4> SUFFICES ASSUME NEW i \in 1 .. Len(a)
                   PROVE  /\ a[i].of \in Pending(x)
                          /\ x.tx = "non" /\ a[i].ok = FALSE => x.queries[a[i].of].kind # "good"
                          /\ \A j \in 1 .. i - 1 : a[j].of < a[i].of
                          /\ \A q \in Pending(x) : q < a[i].of => \E j \in 1 .. i - 1 : a[j].of = q
        BY DEF Matches
      <4>1. /\ a[i].of \in batch
            /\ a[i].ok = FALSE => v.queries[a[i].of].kind # "good"
            /\ \A j \in 1 .. i - 1 : a[j].of < a[i].of
            /\ \A q \in batch : q < a[i].of => \E j \in 1 .. i - 1 : a[j].of = q
        BY <3>1 DEF InOrder
      <4> QED BY <1>6, <1>13, <4>1
    <3>3. Matches(x, Tail(ans))
      BY <3>2 DEF a
    <3>4. x.answers = ans
      BY <1>6
    <3>5. x.answers # <<>> /\ Head(x.answers) = NoResult /\ Matches(x, Tail(x.answers))
      BY <2>2, <3>3, <3>4
    <3> QED BY <3>5 DEF Expected
  <2>3. Refused(x) \/ Expected(x)
    BY <1>5, <1>15, <2>1, <2>2 DEF Answered, AnsweredBatch
  <2>4. InStep(x)
    BY <1>1, <1>6, <1>12, <1>15, <2>3, SMTT(40) DEF InStep
  <2>5. Follows(x, v)
    BY <1>1, <1>2, <1>6 DEF Follows
  <2> QED BY <1>6, <1>8, <1>9, <1>10, <1>11, <1>12, <2>4, <2>5 DEF PipelineInvariant
<1> QED BY <1>14, <1>15

\* What issue does once libpq has no more results.
Dispatched(o, v, batch, dummy) ==
    \E s \in start_exec(v, batch, dummy) :
        \/ s.res # "ok" /\ o = s
        \/ /\ s.res = "ok"
           /\ o = Outcome([s.w EXCEPT !.dummy = dummy, !.first = v.second, !.second = NoMore,
                                     !.waiting = @ - Cardinality(batch)], "ok")

LEMMA IssueSends ==
    ASSUME NEW w, NEW b, b = obtain_result(w, FALSE), b.res \in {"more", "none"}, ~ (b.w.error < Limit),
           NEW v, v = b.w, NEW batch, batch = From(v, v.second), NEW dummy, dummy = (Cardinality(batch) > 1),
           NEW o \in issue(w)
    PROVE  Dispatched(o, v, batch, dummy)
  BY DEF issue, Then, Threw, Succeeded, Dispatched

\* Nothing has been sent.
Unsent(v, w) == Like(v, w) /\ v.answers = <<>> /\ w.error < Limit

LEMMA IssueIs ==
    ASSUME Transient = FALSE,
           NEW w, PipelineInvariant(w), ~have_pending(w), w.second \in Known(w), NEW o \in issue(w)
    PROVE  /\ PipelineInvariant(o.w)
           /\ \/ o.res = "logic" /\ o.w.cancelled = TRUE
              \/ o.res = "failure"
              \/ /\ o.res = "ok" /\ Follows(o.w, w)
                 /\ \/ Unsent(o.w, w)
                    \/ have_pending(o.w) /\ o.w.second = NoMore /\ o.w.error = Limit
<1> DEFINE b == obtain_result(w, FALSE)
           rest == [w EXCEPT !.answers = Tail(@)]
           idle == [w EXCEPT !.active = FALSE]
<1>0. World(w) /\ Typed(w) /\ w.error \in Int
  <2>1. Limit \in Nat
    BY Places DEF PipelineInvariant
  <2> QED BY <2>1 DEF PipelineInvariant, Stopped
<1>1. CASE w.answers # <<>>
  <2> DEFINE f == FirstKnown(w)
             e == IF f <= w.error THEN f ELSE w.error
  <2>0. f \in Int
    BY <1>0, FirstKnownIs
  <2> HIDE DEF f
  <2>1. b = Outcome(set_error_at(rest, f), "logic")
    BY <1>1 DEF obtain_result, f
  <2>2. b.w = set_error_at(rest, f) /\ b.res = "logic"
    BY <2>1, OutcomeIs
  <2> HIDE DEF b
  <2>3. o = b
    BY <2>2 DEF issue, b
  <2>4. Min({w.error, f}) = e
    <3>1. CASE f <= w.error
      BY <1>0, <2>0, <3>1, MinOfTwo
    <3>2. CASE ~ (f <= w.error)
      <4>1. w.error <= f /\ {w.error, f} = {f, w.error}
        BY <1>0, <2>0, <3>2
      <4>2. Min({f, w.error}) = w.error
        BY <1>0, <2>0, <4>1, MinOfTwo
      <4> QED BY <3>2, <4>1, <4>2
    <3> QED BY <3>1, <3>2
  <2>5. Surplus(o.w, w, e)
    <3> DEFINE v == o.w
               t == Tail(w.answers)
               x == e
    <3> HIDE DEF v, t, x
    <3>1. v = [[w EXCEPT !.answers = t] EXCEPT !.error = x]
      <4>1. rest.error = w.error
        BY <1>0 DEF World
      <4> QED BY <2>2, <2>3, <2>4, <4>1 DEF set_error_at, v, t, x
    <3>2. Surplus(v, w, x)
      BY <1>0, <3>1 DEF World, Surplus, t
    <3> QED BY <3>2 DEF v, x
  <2>6. PipelineInvariant(o.w) /\ o.w.cancelled = TRUE
    BY <1>1, <2>5, SurplusIs DEF f
  <2> QED BY <2>2, <2>3, <2>6
<1>2. CASE w.answers = <<>>
  <2>1. b = Outcome(idle, "none")
    BY <1>2 DEF obtain_result
  <2>2. b.w = idle /\ b.res = "none"
    BY <2>1, OutcomeIs, ZenonT(60)
  <2> DEFINE v == idle
             batch == From(v, v.second)
             dummy == Cardinality(batch) > 1
  <2>3. Like(v, w)
    BY <1>0 DEF Like, World
  <2>4. PipelineInvariant(v) /\ Follows(v, w)
    BY <2>3, LikeKeeps
  <2>5. v.second \in Known(v) /\ ~have_pending(v) /\ v.answers = <<>> /\ v.error = w.error /\ v.second = w.second
        /\ World(v)
    BY <1>2, <2>3 DEF Like, Known, have_pending
  <2> HIDE DEF b, idle
  <2>6. CASE v.error < Limit
    <3>1. o = Outcome(v, "ok")
      BY <2>2, <2>6 DEF issue, b
    <3>2. o.w = v /\ o.res = "ok"
      BY <3>1, OutcomeIs
    <3> QED BY <2>3, <2>4, <2>5, <2>6, <3>2 DEF Unsent
  <2>7. CASE ~ (v.error < Limit)
    <3> DEFINE d == dummy
    <3>1. b = obtain_result(w, FALSE) /\ b.res \in {"more", "none"} /\ ~ (b.w.error < Limit) /\ v = b.w
      BY <2>2, <2>7 DEF b
    <3>0. d = (Cardinality(batch) > 1) /\ d \in BOOLEAN /\ batch = From(v, v.second)
      OBVIOUS
    <3> HIDE DEF batch, dummy
    <3>10. Dispatched(o, v, batch, d)
      <4> HIDE DEF v
      <4>1. o \in issue(w)
        OBVIOUS
      <4> HIDE DEF d
      <4> QED BY <3>0, <3>1, <4>1, IssueSends, Zenon
    <3>2. PICK s \in start_exec(v, batch, d) :
              \/ s.res # "ok" /\ o = s
              \/ /\ s.res = "ok"
                 /\ o = Outcome([s.w EXCEPT !.dummy = d, !.first = v.second, !.second = NoMore,
                                           !.waiting = @ - Cardinality(batch)], "ok")
      BY <3>10 DEF Dispatched
    <3>3. CASE v.active
      <4>1. s = Outcome(v, "failure")
        BY <3>2, <3>3 DEF start_exec
      <4>2. s.w = v /\ s.res = "failure"
        BY <4>1, OutcomeIs
      <4> QED BY <2>4, <3>2, <4>2
    <3>4. CASE ~v.active
      <4>1. PICK ans \in Answers(v, batch, d) : s = Outcome(AfterBatch(v, ans), "ok")
        BY <3>2, <3>4 DEF start_exec
      <4>2. s.w = AfterBatch(v, ans) /\ s.res = "ok"
        BY <4>1, OutcomeIs
      <4> DEFINE u == s.w
                 n == Cardinality(batch)
      <4>3. o = Outcome([u EXCEPT !.dummy = d, !.first = v.second, !.second = NoMore, !.waiting = @ - n], "ok")
        BY <3>2, <4>2
      <4>4. o.w = [u EXCEPT !.dummy = d, !.first = v.second, !.second = NoMore, !.waiting = @ - n] /\ o.res = "ok"
        BY <4>3, OutcomeIs
      <4>5. Sent(o.w, v, d, ans)
        <5> DEFINE x == o.w
                   t == IF v.tx = "open" /\ \E i \in 1 .. Len(ans) : ~ans[i].ok THEN "failed" ELSE v.tx
                   y == v.stray \/ v.tx = "gone"
                   k == v.waiting - n
        <5> HIDE DEF x, t, y, n, k
        <5>1. u = [v EXCEPT !.answers = ans, !.active = TRUE, !.tx = t, !.stray = y]
          BY <4>2 DEF AfterBatch, t, y
        <5> HIDE DEF u
        <5>2. World(u) /\ u.waiting = v.waiting
          BY <2>5, <5>1 DEF World
        <5>3. x = [u EXCEPT !.dummy = d, !.first = v.second, !.second = NoMore, !.waiting = k]
          BY <4>4, <5>2 DEF x, k
        <5>4. /\ u.queries = v.queries /\ u.q_id = v.q_id /\ u.error = v.error /\ u.tx = t /\ u.answers = ans
              /\ u.stray = y /\ u.cancelled = v.cancelled
          BY <2>5, <5>1 DEF World
        <5>5. /\ World(x) /\ x.first = v.second /\ x.second = NoMore /\ x.waiting = k /\ x.dummy = d
              /\ x.queries = u.queries /\ x.q_id = u.q_id /\ x.error = u.error /\ x.tx = u.tx
              /\ x.answers = u.answers /\ x.stray = u.stray /\ x.cancelled = u.cancelled
          BY <5>2, <5>3 DEF World
        <5> QED BY <3>0, <5>4, <5>5 DEF Sent, Left, x, t, y, k, n
      <4>6. d \in BOOLEAN /\ d = (Left(v, v.second) > 1) /\ ans \in Answers(v, From(v, v.second), d)
        BY <3>0 DEF Left
      <4>7. /\ PipelineInvariant(o.w) /\ Follows(o.w, v) /\ have_pending(o.w) /\ o.w.second = NoMore
            /\ o.w.error = Limit
        BY <2>4, <2>5, <2>7, <4>5, <4>6, SentIs, ZenonT(60)
      <4>8. Follows(o.w, w)
        <5>1. w.first \in Nat /\ v.first \in Nat /\ o.w.first \in Nat
          BY <2>4, <4>7, Places DEF PipelineInvariant
        <5> QED BY <2>4, <4>7, <5>1 DEF Follows
      <4> QED BY <4>4, <4>7, <4>8
    <3> QED BY <3>3, <3>4
  <2> QED BY <2>6, <2>7
<1> QED BY <1>1, <1>2

-----------------------------------------------------------------------------
(* The calls *)

\* What a call may come to besides handing over a result: it may contradict itself
\* only when something has been cancelled.
Sound(o) ==
    /\ PipelineInvariant(o.w)
    /\ o.res \in {"ok", "failure", "runtime", "internal", "logic"}
    /\ o.res \in {"internal", "logic"} => o.w.cancelled = TRUE

LEMMA IssueSound ==
    ASSUME Transient = FALSE,
           NEW w, PipelineInvariant(w), ~have_pending(w), w.second \in Known(w), NEW o \in issue(w)
    PROVE  Sound(o)
  BY IssueIs DEF Sound

\* What waits can be issued.
LEMMA WaitingIs ==
    ASSUME NEW w, PipelineInvariant(w), w.waiting > 0
    PROVE  w.second \in Known(w)
  BY SomeWait DEF PipelineInvariant

LEMMA ReceivingIs ==
    ASSUME NEW w, PipelineInvariant(w), NEW s \in ReceiveAvailable(w)
    PROVE  s.res = "ok" /\ PipelineInvariant(s.w) /\ Follows(s.w, w) /\ s.w.second <= w.second
<1>1. CASE have_pending(w)
  BY <1>1, AvailableIs DEF Along, ReceiveAvailable
<1>2. CASE ~have_pending(w)
  <2>1. s.w = w /\ s.res = "ok"
    BY <1>2, OutcomeIs DEF ReceiveAvailable
  <2>2. w.first <= w.first /\ w.second <= w.second
    BY Places DEF PipelineInvariant
  <2> QED BY <2>1, <2>2 DEF Follows
<1> QED BY <1>1, <1>2

\* What resume does when nothing is pending and something waits.
IssueAndReceive(w) == Then(issue(w), receive_if_available)

LEMMA ResumeUnfolded ==
    ASSUME NEW w, NEW o \in resume(w)
    PROVE  \E s \in ReceiveAvailable(w) :
              \/ s.res # "ok" /\ o = s
              \/ ~have_pending(s.w) /\ s.w.waiting > 0 /\ o \in IssueAndReceive(s.w)
              \/ o = Outcome(s.w, "ok")
  BY DEF resume, Then, Threw, Succeeded, IssueAndReceive

LEMMA IssueAndReceiveIs ==
    ASSUME Transient = FALSE, NEW w, PipelineInvariant(w), ~have_pending(w), w.second \in Known(w),
           NEW o \in IssueAndReceive(w)
    PROVE  Sound(o)
<1>1. PICK t \in issue(w) : (t.res # "ok" /\ o = t) \/ (t.res = "ok" /\ o \in receive_if_available(t.w))
  BY DEF IssueAndReceive, Then, Threw, Succeeded
<1>2. CASE t.res # "ok"
  BY <1>1, <1>2, IssueSound
<1>3. CASE t.res = "ok"
  <2>1. PipelineInvariant(t.w) /\ o \in receive_if_available(t.w) /\ (Unsent(t.w, w) \/ have_pending(t.w))
    BY <1>1, <1>3, IssueIs
  <2>2. CASE have_pending(t.w)
    BY <2>1, <2>2, AvailableIs DEF Along, Sound
  <2>3. CASE Unsent(t.w, w)
    <3>1. ~have_pending(t.w) /\ t.w.answers = <<>>
      BY <2>3 DEF Unsent, Like, have_pending
    <3>2. PipelineInvariant(o.w) /\ (o = Outcome(t.w, "ok") \/ (o.res = "internal" /\ o.w.cancelled = TRUE))
      BY <2>1, <3>1, NothingAvailable
    <3> QED BY <3>2, OutcomeIs DEF Sound
  <2> QED BY <2>1, <2>2, <2>3
<1> QED BY <1>2, <1>3

LEMMA ResumeIs ==
    ASSUME Transient = FALSE, NEW w, PipelineInvariant(w), NEW o \in resume(w)
    PROVE  Sound(o)
<1>1. PICK s \in ReceiveAvailable(w) :
              \/ s.res # "ok" /\ o = s
              \/ ~have_pending(s.w) /\ s.w.waiting > 0 /\ o \in IssueAndReceive(s.w)
              \/ o = Outcome(s.w, "ok")
  BY ResumeUnfolded
<1>2. s.res = "ok" /\ PipelineInvariant(s.w)
  BY ReceivingIs
<1>3. CASE o = Outcome(s.w, "ok")
  BY <1>2, <1>3, OutcomeIs DEF Sound
<1>4. CASE ~have_pending(s.w) /\ s.w.waiting > 0 /\ o \in IssueAndReceive(s.w)
  BY <1>2, <1>4, WaitingIs, IssueAndReceiveIs
<1> QED BY <1>1, <1>2, <1>3, <1>4

LEMMA RetainIs ==
    ASSUME Transient = FALSE, NEW w, PipelineInvariant(w), NEW n, NEW o \in retain(w, n)
    PROVE  Sound(o)
<1> DEFINE v == [w EXCEPT !.retain = n]
<1>1. World(w)
  BY DEF PipelineInvariant
<1>2. Like(v, w)
  BY <1>1 DEF Like, World
<1>3. PipelineInvariant(v)
  BY <1>2, LikeKeeps
<1>4. o \in resume(v) \/ o = Outcome(v, "ok")
  BY DEF retain
<1> HIDE DEF v
<1>5. CASE o \in resume(v)
  BY <1>3, <1>5, ResumeIs
<1>6. CASE o = Outcome(v, "ok")
  BY <1>3, <1>6, OutcomeIs DEF Sound
<1> QED BY <1>4, <1>5, <1>6

\* All pending results up to the end of the issued range.
LEMMA ReceiveAllIs ==
    ASSUME NEW w, PipelineInvariant(w), NEW s \in ReceiveIssued(w)
    PROVE  /\ s.res = "ok" /\ PipelineInvariant(s.w) /\ ~have_pending(s.w) /\ Follows(s.w, w)
           /\ s.w.second <= w.second
<1>1. w.second \in Nat /\ w.first \in Nat
  BY Places DEF PipelineInvariant
<1>2. CASE have_pending(w)
  <2>1. w.second \in Int /\ s \in receive(w, w.second)
    BY <1>1, <1>2 DEF ReceiveIssued
  <2>2. s.res = "ok" /\ Onward(s, w) /\ (w.second <= s.w.first \/ ~have_pending(s.w))
    BY <1>2, <2>1, ReceiveIs
  <2>3. PipelineInvariant(s.w) /\ Follows(s.w, w) /\ s.w.second <= w.second
    BY <2>2 DEF Onward, Ready
  <2>4. s.w.first \in Nat /\ s.w.second \in Nat /\ s.w.first <= s.w.second
    BY <2>3, Places DEF PipelineInvariant
  <2>5. w.second <= s.w.first => s.w.first = s.w.second
    BY <1>1, <2>3, <2>4
  <2> QED BY <2>2, <2>3, <2>5 DEF have_pending
<1>3. CASE ~have_pending(w)
  <2>1. s = Outcome(w, "ok")
    BY <1>3 DEF ReceiveIssued
  <2>2. s.w = w /\ s.res = "ok"
    BY <2>1, OutcomeIs
  <2>3. w.first <= w.first /\ w.second <= w.second
    BY <1>1
  <2> QED BY <1>3, <2>2, <2>3 DEF Follows
<1> QED BY <1>2, <1>3

\* The pipeline unregisters itself.
LEMMA UnregisteredIs ==
    ASSUME NEW w, PipelineInvariant(w), NEW o \in unregister(w)
    PROVE  Sound(o)
<1> DEFINE v == [w EXCEPT !.registered = FALSE]
<1>1. World(w)
  BY DEF PipelineInvariant
<1>2. Like(v, w)
  BY <1>1 DEF Like, World
<1>3. PipelineInvariant(v)
  BY <1>2, LikeKeeps
<1> QED BY <1>3, OutcomeIs DEF Sound, unregister

LEMMA CompleteIs ==
    ASSUME Transient = FALSE, NEW w, PipelineInvariant(w), NEW o \in complete(w)
    PROVE  Sound(o)
<1>1. PICK m \in Then(ReceiveIssued(w), IssueRest) :
              (m.res # "ok" /\ o = m) \/ (m.res = "ok" /\ o \in unregister(m.w))
  BY DEF complete, Then, Threw, Succeeded
<1>2. PICK s \in ReceiveIssued(w) : (s.res # "ok" /\ m = s) \/ (s.res = "ok" /\ m \in IssueRest(s.w))
  BY DEF Then, Threw, Succeeded
<1>3. s.res = "ok" /\ PipelineInvariant(s.w) /\ ~have_pending(s.w) /\ m \in IssueRest(s.w)
  BY <1>2, ReceiveAllIs
<1>4. Sound(m)
  <2>1. CASE s.w.waiting > 0 /\ s.w.error = Limit
    <3>1. PICK t \in issue(s.w) : (t.res # "ok" /\ m = t) \/ (t.res = "ok" /\ m \in receive(t.w, NoMore))
      BY <1>3, <2>1 DEF IssueRest, Then, Threw, Succeeded
    <3>2. s.w.second \in Known(s.w)
      BY <1>3, <2>1, WaitingIs
    <3>3. CASE t.res # "ok"
      BY <1>3, <3>1, <3>2, <3>3, IssueSound
    <3>4. CASE t.res = "ok"
      <4>1. PipelineInvariant(t.w) /\ (Unsent(t.w, s.w) \/ have_pending(t.w))
        BY <1>3, <3>2, <3>4, IssueIs
      <4>2. Limit \in Nat /\ NoMore \in Int
        BY <1>3, Places DEF PipelineInvariant
      <4>3. ~Unsent(t.w, s.w)
        BY <2>1, <4>2 DEF Unsent
      <4>4. m \in receive(t.w, NoMore)
        BY <3>1, <3>4
      <4> QED BY <4>1, <4>2, <4>3, <4>4, ReceiveIs DEF Onward, Ready, Sound
    <3> QED BY <3>3, <3>4
  <2>2. CASE ~ (s.w.waiting > 0 /\ s.w.error = Limit)
    <3>1. m = Outcome(s.w, "ok")
      BY <1>3, <2>2 DEF IssueRest
    <3>2. m.w = s.w /\ m.res = "ok"
      BY <3>1, OutcomeIs
    <3> QED BY <1>3, <3>2 DEF Sound
  <2> QED BY <2>1, <2>2
<1> QED BY <1>1, <1>4, UnregisteredIs DEF Sound

-----------------------------------------------------------------------------
(* insert *)

\* A query has been added at the end.
Inserted(v, w, kind) ==
    /\ World(v)
    /\ v.queries = [i \in Known(w) \cup {w.q_id + 1} |->
                       IF i = w.q_id + 1 THEN [kind |-> kind, res |-> NoResult] ELSE w.queries[i]]
    /\ v.second = (IF w.second = NoMore THEN w.q_id + 1 ELSE w.second)
    /\ v.first = (IF w.second = NoMore /\ w.first = NoMore THEN w.q_id + 1 ELSE w.first)
    /\ v.waiting = w.waiting + 1 /\ v.q_id = w.q_id + 1
    /\ v.dummy = w.dummy /\ v.error = w.error /\ v.tx = w.tx
    /\ v.answers = w.answers /\ v.stray = w.stray /\ v.cancelled = w.cancelled

LEMMA InsertedIs ==
    ASSUME NEW w, PipelineInvariant(w), w.q_id < MaxQueries, NEW kind \in QueryKinds,
           NEW v, Inserted(v, w, kind)
    PROVE  PipelineInvariant(v) /\ v.second \in Known(v)
<1> DEFINE q == w.q_id + 1
<1>1. Typed(w) /\ Ranged(w) /\ Stopped(w) /\ Held(w) /\ InStep(w)
  BY DEF PipelineInvariant
<1>2. /\ w.first \in Nat /\ w.second \in Nat /\ w.second <= NoMore /\ w.first <= w.second
      /\ NoMore \in Nat /\ Limit = NoMore + 1 /\ w.q_id \in Nat
      /\ \A r \in Known(w) : r \in Nat /\ r <= w.q_id /\ r < NoMore /\ r >= 1
  BY <1>1, Places
<1>3. q \in Nat /\ q >= 1 /\ q < NoMore /\ q <= MaxQueries /\ w.q_id < q /\ \A r \in Known(w) : r < q /\ r # q
  BY <1>2, MaxQueriesAssumption DEF NoMore
<1>4. /\ Known(v) = Known(w) \cup {q} /\ World(v)
      /\ v.queries[q] = [kind |-> kind, res |-> NoResult]
      /\ \A r \in Known(w) : v.queries[r] = w.queries[r]
  BY <1>3 DEF Inserted, Known
<1>5. /\ v.second = (IF w.second = NoMore THEN q ELSE w.second)
      /\ v.first = (IF w.second = NoMore /\ w.first = NoMore THEN q ELSE w.first)
      /\ v.waiting = w.waiting + 1 /\ v.q_id = q
      /\ v.dummy = w.dummy /\ v.error = w.error /\ v.tx = w.tx
      /\ v.answers = w.answers /\ v.stray = w.stray /\ v.cancelled = w.cancelled
  BY DEF Inserted
<1> HIDE DEF q
<1>6. w.first \in Known(w) \/ w.first = NoMore
  BY <1>1 DEF Ranged
<1>7. w.second \in Known(w) \/ w.second = NoMore
  BY <1>1 DEF Ranged
<1>8. w.first # NoMore => w.first < q
  BY <1>3, <1>6
<1>9. w.second # NoMore => w.second < q /\ w.first # NoMore
  BY <1>2, <1>3, <1>7
<1>10. Typed(v)
  <2>1. w.waiting + 1 \in Int /\ q \in 0 .. MaxQueries /\ Known(v) \subseteq 1 .. q
    BY <1>1, <1>2, <1>3, <1>4, MaxQueriesAssumption DEF Typed
  <2>2. NoResult \in Own(q)
    BY DEF Own
  <2> DEFINE new == [kind |-> kind, res |-> NoResult]
  <2>3. new.kind = kind /\ new.res = NoResult /\ DOMAIN new = {"kind", "res"}
    OBVIOUS
  <2> HIDE DEF new
  <2>4. v.queries[q] = new
    BY <1>4 DEF new
  <2>5. \A r \in Known(v) : /\ v.queries[r].kind \in QueryKinds /\ v.queries[r].res \in Own(r)
                            /\ DOMAIN v.queries[r] = {"kind", "res"}
    <3> SUFFICES ASSUME NEW r \in Known(v)
                 PROVE  /\ v.queries[r].kind \in QueryKinds /\ v.queries[r].res \in Own(r)
                        /\ DOMAIN v.queries[r] = {"kind", "res"}
      OBVIOUS
    <3>1. CASE r = q
      BY <2>2, <2>3, <2>4, <3>1
    <3>2. CASE r # q
      <4>1. r \in Known(w) /\ v.queries[r] = w.queries[r]
        BY <1>4, <3>2
      <4> QED BY <1>1, <4>1 DEF Typed
    <3> QED BY <3>1, <3>2
  <2> QED BY <1>1, <1>5, <2>1, <2>5 DEF Typed
<1>11. v.second \in Known(v) /\ v.first \in Known(v) /\ v.first <= v.second /\ v.second <= q
       /\ v.first \in Nat /\ v.second \in Nat
  <2>1. CASE w.second = NoMore
    <3>1. v.second = q /\ q <= q
      BY <1>3, <1>5, <2>1
    <3>2. CASE w.first = NoMore
      BY <1>3, <1>4, <1>5, <2>1, <3>1, <3>2
    <3>3. CASE w.first # NoMore
      BY <1>2, <1>3, <1>4, <1>5, <1>6, <1>8, <2>1, <3>1, <3>3
    <3> QED BY <3>2, <3>3
  <2>2. CASE w.second # NoMore
    <3>1. v.second = w.second /\ v.first = w.first /\ w.second < q /\ w.first # NoMore
      BY <1>5, <1>9, <2>2
    <3> QED BY <1>2, <1>3, <1>4, <1>6, <1>7, <2>2, <3>1
  <2> QED BY <2>1, <2>2
<1>12. Left(v, v.second) = Left(w, w.second) + 1
  <2>1. From(v, v.second) = From(w, w.second) \cup {q}
    <3>1. \A r \in Known(w) : r >= v.second <=> r >= w.second
      BY <1>2, <1>3, <1>5
    <3>2. q >= v.second
      BY <1>3, <1>11
    <3> QED BY <1>4, <3>1, <3>2 DEF From
  <2>2. IsFiniteSet(From(w, w.second)) /\ q \notin From(w, w.second)
    <3>1. w.second \in Int
      BY <1>2
    <3> QED BY <1>1, <1>3, <3>1, LeftIs DEF From
  <2> QED BY <2>1, <2>2, FS_AddElement DEF Left
<1>13. Ranged(v)
  <2>1. w.waiting <= Left(w, w.second) /\ w.waiting \in Int /\ Left(w, w.second) \in Nat
    <3>1. w.second \in Int
      BY <1>2
    <3> QED BY <1>1, <3>1, LeftIs DEF Ranged, Typed
  <2>2. v.waiting <= Left(v, v.second)
    BY <1>5, <1>12, <2>1
  <2> QED BY <1>11, <2>2 DEF Ranged
<1>14. w.first = w.second => v.first = v.second
  BY <1>5
<1>15. w.error \in 0 .. Limit /\ w.error \in Nat
  BY <1>1, <1>2 DEF Stopped
<1>16. w.error < Limit => w.error <= v.first /\ w.error <= q + 1 /\ w.first = w.second
  <2> SUFFICES ASSUME w.error < Limit PROVE w.error <= v.first /\ w.error <= q + 1 /\ w.first = w.second
    OBVIOUS
  <2>1. w.first = w.second /\ w.error <= w.first /\ w.error <= q
    BY <1>1 DEF Stopped, q
  <2>2. v.first = w.first \/ v.first = q
    BY <1>5
  <2> QED BY <1>3, <1>15, <2>1, <2>2
<1>17. Stopped(v)
  BY <1>1, <1>5, <1>14, <1>15, <1>16 DEF Stopped
<1>18. Held(v)
  <2> SUFFICES ASSUME NEW r \in Known(v), r < w.error
               PROVE  /\ r < v.first => v.queries[r].res # NoResult
                      /\ r >= v.first => v.queries[r].res = NoResult
                      /\ w.tx = "non" /\ v.queries[r].res.ok = FALSE => v.queries[r].kind # "good"
    BY <1>5 DEF Held
  <2>1. CASE r = q
    <3>0. [kind |-> kind, res |-> NoResult].res = NoResult
      OBVIOUS
    <3>1. v.queries[r].res = NoResult
      BY <1>4, <2>1, <3>0, Zenon
    <3>3. NoResult.ok = TRUE
      BY DEF NoResult
    <3>2. ~ (q < v.first)
      BY <1>3, <1>11
    <3> QED BY <2>1, <3>1, <3>2, <3>3
  <2>2. CASE r # q
    <3>1. r \in Known(w) /\ v.queries[r] = w.queries[r] /\ r < q /\ r < NoMore /\ r \in Nat
      BY <1>2, <1>3, <1>4, <2>2
    <3>2. (r < v.first <=> r < w.first) /\ (r >= v.first <=> r >= w.first)
      BY <1>2, <1>3, <1>5, <3>1
    <3> QED BY <1>1, <3>1, <3>2 DEF Held
  <2> QED BY <2>1, <2>2
<1>19. have_pending(v) <=> have_pending(w)
  <2>1. w.second = NoMore /\ w.first # NoMore => v.first # v.second
    BY <1>2, <1>3, <1>5, <1>8
  <2> QED BY <1>5, <2>1 DEF have_pending
<1>20. Pending(v) = Pending(w)
  <2>1. \A r \in Known(w) : (v.first <= r <=> w.first <= r) /\ (r < v.second <=> r < w.second)
    BY <1>2, <1>3, <1>5
  <2>2. ~ (q < v.second)
    BY <1>3, <1>11
  <2>3. q \notin Known(w)
    BY <1>3
  <2> QED BY <1>4, <2>1, <2>2, <2>3 DEF Pending
<1>21. \A r \in Pending(w) : v.queries[r] = w.queries[r]
  BY <1>4 DEF Pending
<1>22. ASSUME NEW ans, Matches(w, ans) PROVE Matches(v, ans)
  BY <1>5, <1>20, <1>21, <1>22 DEF Matches
<1>23. Wrong(w) => Wrong(v)
  BY <1>5, <1>20, <1>21 DEF Wrong
<1>24. InStep(v)
  BY <1>1, <1>5, <1>19, <1>22, <1>23, SMTT(40) DEF InStep, Quiet, Refused, Expected
<1> QED BY <1>4, <1>10, <1>11, <1>13, <1>17, <1>18, <1>24 DEF PipelineInvariant

LEMMA InsertUnfolded ==
    ASSUME NEW w, NEW kind, NEW v,
           v = [w EXCEPT !.registered = TRUE, !.q_id = w.q_id + 1, !.waiting = @ + 1,
                         !.queries = [i \in Known(w) \cup {w.q_id + 1} |->
                                         IF i = w.q_id + 1 THEN [kind |-> kind, res |-> NoResult] ELSE @[i]],
                         !.second = IF @ = NoMore THEN w.q_id + 1 ELSE @,
                         !.first = IF w.second = NoMore /\ @ = NoMore THEN w.q_id + 1 ELSE @],
           NEW o \in insert(w, kind)
    PROVE  \/ o = Outcome(v, "ok")
           \/ \E s \in ReceiveAvailable(v) : \/ s.res # "ok" /\ o = s
                                             \/ s.res = "ok" /\ o \in IssueIf(s.w, ~have_pending(s.w))
  BY DEF insert, Then, Threw, Succeeded

LEMMA InsertIs ==
    ASSUME Transient = FALSE, NEW w, PipelineInvariant(w), w.q_id < MaxQueries, NEW kind \in QueryKinds,
           NEW o \in insert(w, kind)
    PROVE  Sound(o)
<1> DEFINE qs == [i \in Known(w) \cup {w.q_id + 1} |->
                     IF i = w.q_id + 1 THEN [kind |-> kind, res |-> NoResult] ELSE w.queries[i]]
           s == IF w.second = NoMore THEN w.q_id + 1 ELSE w.second
           f == IF w.second = NoMore /\ w.first = NoMore THEN w.q_id + 1 ELSE w.first
           k == w.waiting + 1
           n == w.q_id + 1
           v == [w EXCEPT !.registered = TRUE, !.q_id = w.q_id + 1, !.waiting = @ + 1,
                          !.queries = [i \in Known(w) \cup {w.q_id + 1} |->
                                          IF i = w.q_id + 1 THEN [kind |-> kind, res |-> NoResult] ELSE @[i]],
                          !.second = IF @ = NoMore THEN w.q_id + 1 ELSE @,
                          !.first = IF w.second = NoMore /\ @ = NoMore THEN w.q_id + 1 ELSE @]
<1>1. World(w)
  BY DEF PipelineInvariant
<1>2. \/ o = Outcome(v, "ok")
      \/ \E t \in ReceiveAvailable(v) : \/ t.res # "ok" /\ o = t
                                        \/ t.res = "ok" /\ o \in IssueIf(t.w, ~have_pending(t.w))
  BY InsertUnfolded
<1>3. v = [w EXCEPT !.registered = TRUE, !.q_id = n, !.waiting = k, !.queries = qs, !.second = s, !.first = f]
  BY <1>1 DEF World
<1> HIDE DEF v, qs, s, f, k, n
<1>4. /\ World(v) /\ v.q_id = n /\ v.waiting = k /\ v.queries = qs /\ v.second = s /\ v.first = f
      /\ v.dummy = w.dummy /\ v.error = w.error /\ v.tx = w.tx
      /\ v.answers = w.answers /\ v.stray = w.stray /\ v.cancelled = w.cancelled
  BY <1>1, <1>3 DEF World
<1>5. Inserted(v, w, kind)
  BY <1>4 DEF Inserted, qs, s, f, k, n
<1>6. PipelineInvariant(v) /\ v.second \in Known(v)
  BY <1>5, InsertedIs
<1>7. CASE o = Outcome(v, "ok")
  BY <1>6, <1>7, OutcomeIs DEF Sound
<1>8. ASSUME NEW t \in ReceiveAvailable(v),
             (t.res # "ok" /\ o = t) \/ (t.res = "ok" /\ o \in IssueIf(t.w, ~have_pending(t.w)))
      PROVE  Sound(o)
  <2>1. t.res = "ok" /\ PipelineInvariant(t.w) /\ Follows(t.w, v) /\ t.w.second <= v.second
    BY <1>6, ReceivingIs
  <2>2. t.w.second \in Known(t.w)
    <3>1. /\ t.w.second \in Nat /\ v.second \in Nat /\ v.second < NoMore /\ NoMore \in Nat
          /\ t.w.second \in Known(t.w) \cup {NoMore}
      BY <1>6, <2>1, Places DEF PipelineInvariant, Ranged
    <3> QED BY <2>1, <3>1
  <2>3. CASE have_pending(t.w)
    BY <1>8, <2>1, <2>3, OutcomeIs DEF IssueIf, Sound
  <2>4. CASE ~have_pending(t.w)
    BY <1>8, <2>1, <2>2, <2>4, IssueSound DEF IssueIf
  <2> QED BY <2>3, <2>4
<1> QED BY <1>2, <1>7, <1>8

-----------------------------------------------------------------------------
(* flush and cancel *)

\* Everything is forgotten.
Cleared(v, w) ==
    /\ World(v) /\ v.queries = [q \in {} |-> w.queries[q]]
    /\ v.first = NoMore /\ v.second = NoMore /\ v.waiting = 0 /\ v.q_id = w.q_id
    /\ v.dummy = FALSE /\ v.error = w.error /\ v.tx = w.tx
    /\ v.answers = w.answers /\ v.stray = w.stray /\ v.cancelled = w.cancelled

LEMMA ClearedIs ==
    ASSUME NEW w, PipelineInvariant(w), ~have_pending(w), NEW v, Cleared(v, w)
    PROVE  PipelineInvariant(v)
<1>1. Typed(w) /\ Ranged(w) /\ Stopped(w) /\ InStep(w)
  BY DEF PipelineInvariant
<1>2. NoMore \in Nat /\ Limit = NoMore + 1 /\ w.q_id \in Nat /\ w.q_id + 1 <= NoMore /\ NoMore <= NoMore
  BY <1>1, Places
<1>3. Known(v) = {} /\ World(v) /\ v.first = NoMore /\ v.second = NoMore
  BY DEF Known, Cleared
<1>4. Typed(v)
  <2>1. v.waiting \in Int /\ v.q_id = w.q_id /\ v.answers = w.answers
    BY DEF Cleared
  <2> QED BY <1>1, <1>3, <2>1 DEF Typed
<1>5. Ranged(v)
  <2>1. Left(v, NoMore) = 0 /\ v.waiting = 0
    BY <1>4, LeftAtEnd DEF Cleared
  <2> QED BY <1>2, <1>3, <2>1 DEF Ranged
<1>6. Stopped(v)
  <2>1. w.error \in Int /\ (w.error < Limit => w.error <= w.q_id + 1)
    BY <1>1, <1>2 DEF Stopped
  <2>2. w.error < Limit => w.error <= NoMore /\ w.error <= w.q_id + 1
    BY <1>2, <2>1
  <2> QED BY <1>1, <1>3, <2>2 DEF Stopped, Cleared
<1>7. Held(v)
  BY <1>3 DEF Held
<1>8. ~have_pending(v)
  BY <1>3 DEF have_pending
<1>9. InStep(v)
  BY <1>1, <1>8 DEF InStep, Quiet, Cleared
<1> QED BY <1>3, <1>4, <1>5, <1>6, <1>7, <1>9 DEF PipelineInvariant

LEMMA FlushUnfolded ==
    ASSUME NEW w, NEW o \in flush(w)
    PROVE  \/ o \in unregister(w)
           \/ \E s \in ReceiveIssued(w) :
                 \/ s.res # "ok" /\ o = s
                 \/ o = Outcome([s.w EXCEPT !.first = NoMore, !.second = NoMore, !.waiting = 0, !.dummy = FALSE,
                                            !.queries = Drop(s.w, Known(s.w)), !.registered = FALSE], "ok")
  BY DEF flush, Then, Threw, Succeeded

LEMMA FlushIs ==
    ASSUME NEW w, PipelineInvariant(w), NEW o \in flush(w)
    PROVE  Sound(o)
<1>1. CASE o \in unregister(w)
  BY <1>1, UnregisteredIs
<1>2. ASSUME NEW s \in ReceiveIssued(w),
             \/ s.res # "ok" /\ o = s
             \/ o = Outcome([s.w EXCEPT !.first = NoMore, !.second = NoMore, !.waiting = 0, !.dummy = FALSE,
                                        !.queries = Drop(s.w, Known(s.w)), !.registered = FALSE], "ok")
      PROVE  Sound(o)
  <2> DEFINE u == s.w
             none == Drop(u, Known(u))
             no == FALSE
             v == [[u EXCEPT !.first = NoMore, !.second = NoMore, !.waiting = 0]
                     EXCEPT !.dummy = no, !.queries = none, !.registered = no]
  <2>1. s.res = "ok" /\ PipelineInvariant(u) /\ ~have_pending(u)
    BY ReceiveAllIs
  <2>2. World(u)
    BY <2>1 DEF PipelineInvariant
  <2>3. none = [q \in {} |-> u.queries[q]]
    BY DEF Drop
  <2>4. o = Outcome([u EXCEPT !.first = NoMore, !.second = NoMore, !.waiting = 0, !.dummy = FALSE,
                              !.queries = none, !.registered = FALSE], "ok")
    BY <1>2, <2>1
  <2> HIDE DEF u, none
  <2>5. o = Outcome(v, "ok")
    BY <2>4
  <2> HIDE DEF no
  <2>6. Cleared(v, u)
    <3> DEFINE t == [u EXCEPT !.first = NoMore, !.second = NoMore, !.waiting = 0]
    <3>1. /\ World(t) /\ t.first = NoMore /\ t.second = NoMore /\ t.waiting = 0
          /\ t.q_id = u.q_id /\ t.error = u.error /\ t.tx = u.tx
          /\ t.answers = u.answers /\ t.stray = u.stray /\ t.cancelled = u.cancelled
      BY <2>2 DEF World
    <3>2. v = [t EXCEPT !.dummy = no, !.queries = none, !.registered = no]
      OBVIOUS
    <3> HIDE DEF t, v
    <3>3. /\ World(v) /\ v.first = NoMore /\ v.second = NoMore /\ v.waiting = 0
          /\ v.q_id = u.q_id /\ v.error = u.error /\ v.tx = u.tx
          /\ v.answers = u.answers /\ v.stray = u.stray /\ v.cancelled = u.cancelled
          /\ v.dummy = no /\ v.queries = none
      BY <3>1, <3>2 DEF World
    <3> QED BY <2>3, <3>3 DEF Cleared, no
  <2>7. PipelineInvariant(v)
    BY <2>1, <2>6, ClearedIs
  <2> HIDE DEF v
  <2> QED BY <2>5, <2>7, OutcomeIs DEF Sound
<1> QED BY <1>1, <1>2, FlushUnfolded

\* The batch has been dropped.
Cancelled(v, w) ==
    /\ World(v)
    /\ v.queries = [q \in Known(w) \ (From(w, w.first) \ From(w, w.second)) |-> w.queries[q]]
    /\ v.first = w.second /\ v.second = w.second /\ v.waiting = w.waiting /\ v.q_id = w.q_id
    /\ v.dummy = w.dummy /\ v.error = w.error /\ v.tx = w.tx
    /\ v.answers = w.answers /\ v.stray = w.stray /\ v.cancelled = (w.cancelled \/ have_pending(w))

LEMMA CancelledIs ==
    ASSUME NEW w, PipelineInvariant(w), NEW v, Cancelled(v, w)
    PROVE  PipelineInvariant(v)
<1>1. Typed(w) /\ Ranged(w) /\ Stopped(w) /\ Held(w) /\ InStep(w)
  BY DEF PipelineInvariant
<1>2. /\ w.first \in Nat /\ w.second \in Nat /\ w.second <= NoMore /\ w.first <= w.second
      /\ NoMore \in Nat /\ Limit = NoMore + 1 /\ w.q_id \in Nat /\ Known(w) \subseteq Nat
  BY <1>1, Places
<1>3. /\ World(v) /\ Known(v) \subseteq Known(w)
      /\ \A q \in Known(w) : q \in Known(v) <=> (q < w.first \/ q >= w.second)
      /\ \A q \in Known(v) : v.queries[q] = w.queries[q]
  <2>1. Known(v) = Known(w) \ (From(w, w.first) \ From(w, w.second))
    BY DEF Known, Cancelled
  <2>2. \A q \in Known(w) : ~ (q >= w.first) <=> q < w.first
    BY <1>2
  <2> QED BY <2>1, <2>2 DEF Cancelled, From
<1>4. From(v, w.second) = From(w, w.second)
  BY <1>3 DEF From
<1>5. /\ v.first = w.second /\ v.second = w.second /\ v.waiting = w.waiting /\ v.q_id = w.q_id
      /\ v.dummy = w.dummy /\ v.error = w.error /\ v.tx = w.tx
      /\ v.answers = w.answers /\ v.stray = w.stray
  BY DEF Cancelled
<1>6. Typed(v)
  BY <1>1, <1>3, <1>5 DEF Typed
<1>7. Ranged(v)
  <2>1. w.second \in Known(v) \cup {NoMore} /\ w.second <= w.second
    <3>1. w.second >= w.second /\ w.second <= w.second
      BY <1>2
    <3> QED BY <1>1, <1>3, <3>1 DEF Ranged
  <2> QED BY <1>1, <1>4, <1>5, <2>1 DEF Ranged, Left
<1>8. Stopped(v)
  BY <1>1, <1>5 DEF Stopped
<1>9. Held(v)
  <2> SUFFICES ASSUME NEW q \in Known(v), q < w.error
               PROVE  /\ q < w.second => w.queries[q].res # NoResult
                      /\ q >= w.second => w.queries[q].res = NoResult
                      /\ w.tx = "non" /\ w.queries[q].res.ok = FALSE => w.queries[q].kind # "good"
    BY <1>3, <1>5 DEF Held
  <2>1. q \in Known(w) /\ q \in Nat /\ (q < w.second => q < w.first) /\ (q >= w.second => q >= w.first)
    BY <1>2, <1>3
  <2> QED BY <1>1, <2>1 DEF Held
<1>10. ~have_pending(v)
  BY <1>5 DEF have_pending
<1>11. v.cancelled \in BOOLEAN /\ (w.cancelled = TRUE => v.cancelled = TRUE) /\ (have_pending(w) => v.cancelled = TRUE)
  BY <1>1 DEF Cancelled, InStep
<1>12. InStep(v)
  BY <1>1, <1>5, <1>10, <1>11 DEF InStep, Quiet
<1> QED BY <1>3, <1>6, <1>7, <1>8, <1>9, <1>12 DEF PipelineInvariant

LEMMA CancelIs ==
    ASSUME NEW w, PipelineInvariant(w), NEW o \in cancel(w)
    PROVE  Sound(o)
<1> DEFINE qs == Drop(w, From(w, w.first) \ From(w, w.second))
           c == w.cancelled \/ have_pending(w)
           v == [w EXCEPT !.queries = qs, !.first = w.second, !.cancelled = c]
<1>1. World(w)
  BY DEF PipelineInvariant
<1>2. o = Outcome(v, "ok")
  BY <1>1 DEF cancel, World
<1> HIDE DEF qs, c
<1>3. Cancelled(v, w)
  <2>1. v = [w EXCEPT !.queries = qs, !.first = w.second, !.cancelled = c]
    OBVIOUS
  <2> HIDE DEF v
  <2>2. /\ World(v) /\ v.queries = qs /\ v.first = w.second /\ v.cancelled = c
        /\ v.second = w.second /\ v.waiting = w.waiting /\ v.q_id = w.q_id
        /\ v.dummy = w.dummy /\ v.error = w.error /\ v.tx = w.tx
        /\ v.answers = w.answers /\ v.stray = w.stray
    BY <1>1, <2>1 DEF World
  <2> QED BY <2>2 DEF Cancelled, Drop, qs, c
<1>4. PipelineInvariant(v)
  BY <1>3, CancelledIs
<1> HIDE DEF v
<1> QED BY <1>2, <1>4, OutcomeIs DEF Sound

-----------------------------------------------------------------------------
(* retrieve *)

LEMMA FollowsThrough ==
    ASSUME NEW u, NEW v, NEW w, PipelineInvariant(u), PipelineInvariant(v), PipelineInvariant(w),
           Follows(v, w), Follows(u, v)
    PROVE  Follows(u, w)
<1>1. w.first \in Nat /\ v.first \in Nat /\ u.first \in Nat
  BY Places DEF PipelineInvariant
<1> QED BY <1>1 DEF Follows

\* q has been issued, unless there has been an error.
IsIssued(w, q) == w.second # NoMore /\ q >= w.second => w.error < Limit

LEMMA IssueForIs ==
    ASSUME Transient = FALSE, NEW w, PipelineInvariant(w), NEW q, NEW o \in IssueFor(w, q)
    PROVE  Sound(o) /\ (o.res = "ok" => Follows(o.w, w) /\ IsIssued(o.w, q))
<1>1. CASE ~ (w.second # NoMore /\ q >= w.second)
  <2>1. o = Outcome(w, "ok")
    BY <1>1 DEF IssueFor
  <2>2. o.w = w /\ o.res = "ok"
    BY <2>1, OutcomeIs
  <2>3. w.first <= w.first
    BY Places DEF PipelineInvariant
  <2> QED BY <1>1, <2>2, <2>3 DEF Sound, Follows, IsIssued
<1>2. CASE w.second # NoMore /\ q >= w.second
  <2>1. PICK s \in ReceiveIssued(w) :
            (s.res # "ok" /\ o = s) \/ (s.res = "ok" /\ o \in IssueIf(s.w, s.w.error = Limit))
    BY <1>2 DEF IssueFor, Then, Threw, Succeeded
  <2>2. /\ s.res = "ok" /\ PipelineInvariant(s.w) /\ ~have_pending(s.w) /\ Follows(s.w, w)
        /\ s.w.second <= w.second
    BY ReceiveAllIs
  <2>3. /\ NoMore \in Nat /\ Limit = NoMore + 1 /\ s.w.second \in Nat /\ w.second \in Nat /\ w.second <= NoMore
        /\ s.w.second \in Known(s.w) \cup {NoMore} /\ s.w.error \in 0 .. Limit
    BY <2>2, Places DEF PipelineInvariant, Ranged, Stopped
  <2>4. s.w.second \in Known(s.w)
    BY <1>2, <2>2, <2>3
  <2>5. CASE s.w.error = Limit
    <3>1. o \in issue(s.w)
      BY <2>1, <2>2, <2>5 DEF IssueIf
    <3>2. Sound(o)
      BY <2>2, <2>4, <3>1, IssueSound
    <3>3. o.res = "ok" => Follows(o.w, s.w) /\ (Unsent(o.w, s.w) \/ o.w.second = NoMore)
      BY <2>2, <2>4, <3>1, IssueIs
    <3>4. ~Unsent(o.w, s.w)
      BY <2>3, <2>5 DEF Unsent
    <3>5. o.res = "ok" => Follows(o.w, w)
      BY <2>2, <3>2, <3>3, FollowsThrough DEF Sound
    <3> QED BY <3>2, <3>3, <3>4, <3>5 DEF IsIssued
  <2>6. CASE s.w.error # Limit
    <3>1. o = Outcome(s.w, "ok")
      BY <2>1, <2>2, <2>6 DEF IssueIf
    <3>2. o.w = s.w /\ o.res = "ok"
      BY <3>1, OutcomeIs
    <3>3. s.w.error < Limit
      BY <2>3, <2>6
    <3> QED BY <2>2, <3>2, <3>3 DEF Sound, IsIssued
  <2> QED BY <2>5, <2>6
<1> QED BY <1>1, <1>2

\* q has been received, or lies beyond an error.
LEMMA ReceiveForIs ==
    ASSUME NEW w, PipelineInvariant(w), NEW q \in Known(w), IsIssued(w, q), NEW o \in ReceiveFor(w, q)
    PROVE  o.res = "ok" /\ PipelineInvariant(o.w) /\ Follows(o.w, w) /\ (q < o.w.first \/ q >= o.w.error)
<1>1. /\ w.first \in Nat /\ w.second \in Nat /\ w.second <= NoMore /\ w.first <= w.second
      /\ NoMore \in Nat /\ Limit = NoMore + 1 /\ q \in Nat /\ q < NoMore
      /\ w.error \in 0 .. Limit /\ (w.error < Limit => w.error <= w.first) /\ Typed(w)
  BY Places DEF PipelineInvariant, Stopped
<1>2. CASE ~have_pending(w)
  <2>1. o = Outcome(w, "ok")
    BY <1>2 DEF ReceiveFor
  <2>2. o.w = w /\ o.res = "ok"
    BY <2>1, OutcomeIs
  <2>3. q < w.first \/ q >= w.error
    BY <1>1, <1>2 DEF IsIssued, have_pending
  <2>4. w.first <= w.first
    BY <1>1
  <2> QED BY <2>2, <2>3, <2>4 DEF Follows
<1>3. CASE have_pending(w)
  <2>1. w.first # NoMore /\ w.error = Limit
    <3>1. w.first < NoMore /\ w.error = Limit
      BY <1>3, PendingIs
    <3> QED BY <1>1, <3>1
  <2>2. CASE q >= w.first
    <3> DEFINE s == Successor(w, q)
    <3>1. s \in Int /\ q < s
      BY <1>1, SuccessorIs
    <3>2. o \in receive(w, s)
      BY <1>3, <2>1, <2>2 DEF ReceiveFor
    <3> HIDE DEF s
    <3>3. o.res = "ok" /\ Onward(o, w) /\ (s <= o.w.first \/ ~have_pending(o.w))
      BY <1>3, <3>1, <3>2, ReceiveIs
    <3>4. /\ PipelineInvariant(o.w) /\ Follows(o.w, w) /\ (o.w.second = w.second \/ o.w.error < Limit)
      BY <3>3 DEF Onward, Ready
    <3>5. /\ o.w.first \in Nat /\ o.w.second \in Nat /\ o.w.error \in 0 .. Limit
          /\ o.w.error < Limit => o.w.error <= o.w.first
      BY <3>4, Places DEF PipelineInvariant, Stopped
    <3>6. q < o.w.first \/ q >= o.w.error
      <4>1. CASE s <= o.w.first
        BY <1>1, <3>1, <3>5, <4>1
      <4>2. CASE o.w.error < Limit
        BY <1>1, <3>5, <4>2
      <4>3. CASE ~have_pending(o.w) /\ o.w.second = w.second
        <5>1. w.second = NoMore \/ q < w.second
          BY <1>1, <2>1 DEF IsIssued
        <5> QED BY <1>1, <4>3, <5>1 DEF have_pending
      <4> QED BY <3>3, <3>4, <4>1, <4>2, <4>3
    <3> QED BY <3>3, <3>4, <3>6
  <2>3. CASE ~ (q >= w.first)
    <3>1. o \in receive_if_available(w)
      BY <1>3, <2>1, <2>3 DEF ReceiveFor
    <3>2. o.res = "ok" /\ PipelineInvariant(o.w) /\ Follows(o.w, w)
      BY <1>3, <3>1, AvailableIs DEF Along
    <3>3. o.w.first \in Nat /\ w.first <= o.w.first
      BY <3>2, Places DEF PipelineInvariant, Follows
    <3>4. q < o.w.first
      BY <1>1, <2>3, <3>3
    <3> QED BY <3>2, <3>4
  <2> QED BY <2>2, <2>3
<1> QED BY <1>2, <1>3

LEMMA IssueMeanwhileIs ==
    ASSUME Transient = FALSE, NEW w, PipelineInvariant(w), NEW q \in Known(w), q < w.first \/ q >= w.error,
           NEW o \in IssueMeanwhile(w, q)
    PROVE  Sound(o) /\ (o.res = "ok" => Follows(o.w, w) /\ q < o.w.first /\ q < o.w.error)
<1>1. /\ w.first \in Nat /\ NoMore \in Nat /\ Limit = NoMore + 1 /\ q \in Nat /\ q < NoMore
      /\ w.error \in 0 .. Limit
  BY Places DEF PipelineInvariant, Stopped
<1>2. CASE q >= w.error
  <2>1. o = Outcome(w, "runtime")
    BY <1>2 DEF IssueMeanwhile
  <2>2. o.w = w /\ o.res = "runtime"
    BY <2>1, OutcomeIs
  <2> QED BY <2>2 DEF Sound
<1>3. CASE ~ (q >= w.error)
  <2>1. q < w.error /\ q < w.first
    BY <1>1, <1>3
  <2>2. CASE w.waiting > 0 /\ ~have_pending(w) /\ w.error = Limit
    <3>1. o \in issue(w)
      BY <1>3, <2>2 DEF IssueMeanwhile, IssueIf
    <3>2. w.second \in Known(w)
      BY <2>2, WaitingIs
    <3>3. Sound(o)
      BY <2>2, <3>1, <3>2, IssueSound
    <3>4. o.res = "ok" => Follows(o.w, w) /\ (Unsent(o.w, w) \/ o.w.error = Limit)
      BY <2>2, <3>1, <3>2, IssueIs
    <3>5. ~Unsent(o.w, w)
      BY <1>1, <2>2 DEF Unsent
    <3>6. ASSUME o.res = "ok" PROVE q < o.w.first /\ q < o.w.error
      <4>1. o.w.first \in Nat /\ w.first <= o.w.first /\ o.w.error = Limit
        BY <3>3, <3>4, <3>5, <3>6, Places DEF Sound, PipelineInvariant, Follows
      <4> QED BY <1>1, <2>1, <4>1
    <3> QED BY <3>3, <3>4, <3>6
  <2>3. CASE ~ (w.waiting > 0 /\ ~have_pending(w) /\ w.error = Limit)
    <3>1. o = Outcome(w, "ok")
      BY <1>3, <2>3 DEF IssueMeanwhile, IssueIf
    <3>2. o.w = w /\ o.res = "ok"
      BY <3>1, OutcomeIs
    <3>3. w.first <= w.first
      BY <1>1
    <3> QED BY <2>1, <3>2, <3>3 DEF Sound, Follows
  <2> QED BY <2>2, <2>3
<1> QED BY <1>2, <1>3

\* The query has been taken out.
Dropped(v, w, q) ==
    /\ World(v) /\ v.queries = [r \in Known(w) \ {q} |-> w.queries[r]]
    /\ v.first = w.first /\ v.second = w.second /\ v.waiting = w.waiting
    /\ v.q_id = w.q_id /\ v.dummy = w.dummy /\ v.error = w.error /\ v.tx = w.tx
    /\ v.answers = w.answers /\ v.stray = w.stray /\ v.cancelled = w.cancelled

LEMMA DroppedIs ==
    ASSUME NEW w, PipelineInvariant(w), NEW q \in Known(w), q < w.first, NEW v, Dropped(v, w, q)
    PROVE  PipelineInvariant(v)
<1>1. Typed(w) /\ Ranged(w) /\ Stopped(w) /\ Held(w) /\ InStep(w)
  BY DEF PipelineInvariant
<1>2. /\ w.first \in Nat /\ w.second \in Nat /\ w.first <= w.second /\ q \in Nat
      /\ NoMore \in Nat /\ q < NoMore /\ Known(w) \subseteq Nat
  BY <1>1, Places
<1>3. World(v) /\ Known(v) = Known(w) \ {q} /\ \A r \in Known(v) : v.queries[r] = w.queries[r]
  BY DEF Known, Dropped
<1>4. /\ v.first = w.first /\ v.second = w.second /\ v.waiting = w.waiting
      /\ v.q_id = w.q_id /\ v.dummy = w.dummy /\ v.error = w.error /\ v.tx = w.tx
      /\ v.answers = w.answers /\ v.stray = w.stray /\ v.cancelled = w.cancelled
  BY DEF Dropped
<1>5. q # w.first /\ q # w.second /\ ~ (q >= w.second) /\ ~ (w.first <= q)
  BY <1>2
<1>6. Typed(v)
  BY <1>1, <1>3, <1>4 DEF Typed
<1>7. Ranged(v)
  <2>1. From(v, w.second) = From(w, w.second)
    BY <1>3, <1>5 DEF From
  <2> QED BY <1>1, <1>3, <1>4, <1>5, <2>1 DEF Ranged, Left
<1>8. Stopped(v)
  BY <1>1, <1>4 DEF Stopped
<1>9. Held(v)
  BY <1>1, <1>3, <1>4 DEF Held
<1>10. Pending(v) = Pending(w)
  BY <1>3, <1>4, <1>5 DEF Pending
<1>11. \A r \in Pending(w) : v.queries[r] = w.queries[r]
  BY <1>3, <1>10 DEF Pending
<1>12. ASSUME NEW ans, Matches(w, ans) PROVE Matches(v, ans)
  BY <1>4, <1>10, <1>11, <1>12 DEF Matches
<1>13. Wrong(w) => Wrong(v)
  BY <1>4, <1>10, <1>11 DEF Wrong
<1>14. InStep(v)
  BY <1>1, <1>4, <1>12, <1>13 DEF InStep, Quiet, Refused, Expected, have_pending
<1> QED BY <1>3, <1>6, <1>7, <1>8, <1>9, <1>14 DEF PipelineInvariant

\* What retrieve may come to.
Retrieved(o, q) ==
    /\ PipelineInvariant(o.w)
    /\ o.res \in {"ok", "sql", "failure", "runtime", "internal", "logic"}
    /\ o.res \in {"internal", "logic"} => o.w.cancelled = TRUE
    /\ o.res = "ok" => o.w.got.res = [of |-> q, ok |-> TRUE]
    /\ o.res = "sql" => o.w.got.res.of \in {q, 0} /\ (o.w.tx = "non" => o.w.got.kind # "good")

LEMMA HandOverIs ==
    ASSUME NEW w, PipelineInvariant(w), NEW q \in Known(w), q < w.first, q < w.error, NEW o \in HandOver(w, q)
    PROVE  Retrieved(o, q)
<1> DEFINE r == w.queries[q].res
           k == w.queries[q].kind
           qs == Drop(w, {q})
           got == [kind |-> k, res |-> r]
           v == [w EXCEPT !.queries = qs, !.got = got]
           res == IF r = NoResult THEN "failure" ELSE IF r.ok THEN "ok" ELSE "sql"
<1>1. World(w) /\ Typed(w) /\ Held(w)
  BY DEF PipelineInvariant
<1>2. o = Outcome(v, res)
  BY DEF HandOver
<1>3. o.w = v /\ o.res = res
  BY <1>2, OutcomeIs
<1>4. r \in Own(q) /\ (w.tx = "non" /\ r.ok = FALSE => k # "good")
  BY <1>1 DEF Typed, Held
<1>5. got.kind = k /\ got.res = r
  OBVIOUS
<1> HIDE DEF r, k, qs, got, res
<1>6. v = [w EXCEPT !.queries = qs, !.got = got]
  OBVIOUS
<1> HIDE DEF v
<1>7. /\ World(v) /\ v.queries = qs /\ v.got = got
      /\ v.first = w.first /\ v.second = w.second /\ v.waiting = w.waiting
      /\ v.q_id = w.q_id /\ v.dummy = w.dummy /\ v.error = w.error /\ v.tx = w.tx
      /\ v.answers = w.answers /\ v.stray = w.stray /\ v.cancelled = w.cancelled
  BY <1>1, <1>6 DEF World
<1>8. Dropped(v, w, q)
  BY <1>7 DEF Dropped, Drop, qs
<1>9. PipelineInvariant(v)
  BY <1>8, DroppedIs
<1>10. /\ res \in {"ok", "sql", "failure"}
       /\ res = "ok" => r = [of |-> q, ok |-> TRUE]
       /\ res = "sql" => r.of \in {q, 0} /\ r.ok = FALSE
  <2>1. CASE r = NoResult
    BY <2>1 DEF res
  <2>2. CASE r # NoResult /\ r = BatchError
    <3>1. r.ok = FALSE /\ r.of = 0
      BY <2>2 DEF BatchError
    <3> QED BY <2>2, <3>1 DEF res
  <2>3. CASE r # NoResult /\ r = [of |-> q, ok |-> TRUE]
    <3>1. r.ok = TRUE
      BY <2>3
    <3> QED BY <2>3, <3>1 DEF res
  <2>4. CASE r # NoResult /\ r = [of |-> q, ok |-> FALSE]
    <3>1. r.ok = FALSE /\ r.of = q
      BY <2>4
    <3> QED BY <2>4, <3>1 DEF res
  <2> QED BY <1>4, <2>1, <2>2, <2>3, <2>4 DEF Own
<1> QED BY <1>3, <1>4, <1>5, <1>7, <1>9, <1>10 DEF Retrieved

LEMMA RetrieveUnfolded ==
    ASSUME NEW w, NEW q \in Known(w), NEW o \in retrieve(w, q)
    PROVE  \/ o = Outcome(w, "runtime")
           \/ \E a \in IssueFor(w, q) :
                 \/ a.res # "ok" /\ o = a
                 \/ /\ a.res = "ok"
                    /\ \E b \in ReceiveFor(a.w, q) :
                          \/ b.res # "ok" /\ o = b
                          \/ /\ b.res = "ok"
                             /\ \E c \in IssueMeanwhile(b.w, q) :
                                   \/ c.res # "ok" /\ o = c
                                   \/ c.res = "ok" /\ o \in HandOver(c.w, q)
  BY DEF retrieve, Then, Threw, Succeeded

LEMMA RetrieveIs ==
    ASSUME Transient = FALSE, NEW w, PipelineInvariant(w), NEW q \in Known(w), NEW o \in retrieve(w, q)
    PROVE  Retrieved(o, q)
<1>1. ASSUME NEW s, Sound(s), s.res # "ok" PROVE Retrieved(s, q)
  BY <1>1 DEF Sound, Retrieved
<1>2. CASE o = Outcome(w, "runtime")
  BY <1>2, OutcomeIs DEF Retrieved
<1>3. ASSUME NEW a \in IssueFor(w, q),
             \/ a.res # "ok" /\ o = a
             \/ /\ a.res = "ok"
                /\ \E b \in ReceiveFor(a.w, q) :
                      \/ b.res # "ok" /\ o = b
                      \/ /\ b.res = "ok"
                         /\ \E c \in IssueMeanwhile(b.w, q) :
                               \/ c.res # "ok" /\ o = c
                               \/ c.res = "ok" /\ o \in HandOver(c.w, q)
      PROVE  Retrieved(o, q)
  <2>1. Sound(a) /\ (a.res = "ok" => Follows(a.w, w) /\ IsIssued(a.w, q))
    BY IssueForIs
  <2>2. CASE a.res # "ok"
    BY <1>1, <1>3, <2>1, <2>2
  <2>3. CASE a.res = "ok"
    <3>1. PipelineInvariant(a.w) /\ q \in Known(a.w) /\ IsIssued(a.w, q)
      BY <2>1, <2>3 DEF Sound, Follows
    <3>2. PICK b \in ReceiveFor(a.w, q) :
                      \/ b.res # "ok" /\ o = b
                      \/ /\ b.res = "ok"
                         /\ \E c \in IssueMeanwhile(b.w, q) :
                               \/ c.res # "ok" /\ o = c
                               \/ c.res = "ok" /\ o \in HandOver(c.w, q)
      BY <1>3, <2>3
    <3>3. b.res = "ok" /\ PipelineInvariant(b.w) /\ Follows(b.w, a.w) /\ (q < b.w.first \/ q >= b.w.error)
      BY <3>1, ReceiveForIs
    <3>4. q \in Known(b.w)
      BY <3>1, <3>3 DEF Follows
    <3>5. PICK c \in IssueMeanwhile(b.w, q) : \/ c.res # "ok" /\ o = c
                                              \/ c.res = "ok" /\ o \in HandOver(c.w, q)
      BY <3>2, <3>3
    <3>6. Sound(c) /\ (c.res = "ok" => Follows(c.w, b.w) /\ q < c.w.first /\ q < c.w.error)
      BY <3>3, <3>4, IssueMeanwhileIs
    <3>7. CASE c.res # "ok"
      BY <1>1, <3>5, <3>6, <3>7
    <3>8. CASE c.res = "ok"
      <4>1. PipelineInvariant(c.w) /\ q \in Known(c.w) /\ q < c.w.first /\ q < c.w.error /\ o \in HandOver(c.w, q)
        BY <3>4, <3>5, <3>6, <3>8 DEF Sound, Follows
      <4> QED BY <4>1, HandOverIs
    <3> QED BY <3>7, <3>8
  <2> QED BY <2>2, <2>3
<1> QED BY <1>2, <1>3, RetrieveUnfolded

-----------------------------------------------------------------------------
(* Any number of calls *)

\* Between two calls, and what the latest has told.
Between ==
    /\ PipelineInvariant(p)
    /\ called.res # "undefined"
    /\ called.res \in {"internal", "logic"} => p.cancelled = TRUE
    /\ called.op = "retrieve" =>
         /\ called.res = "ok" => p.got.res = [of |-> called.q, ok |-> TRUE]
         /\ called.res = "sql" => /\ p.got.res.of \in {called.q, 0}
                                  /\ p.tx = "non" => p.got.kind # "good"

LEMMA BetweenInitially == PipelineInit => Between
<1> SUFFICES ASSUME PipelineInit PROVE Between
  OBVIOUS
<1>1. PICK tx \in {"non", "open"} :
          p = [queries |-> <<>>, first |-> NoMore, second |-> NoMore, retain |-> 0, waiting |-> 0,
               q_id |-> 0, dummy |-> FALSE, error |-> Limit, registered |-> TRUE,
               tx |-> tx, active |-> FALSE, answers |-> <<>>, stray |-> FALSE, cancelled |-> FALSE,
               got |-> [kind |-> "good", res |-> NoResult]]
  BY DEF PipelineInit
<1>2. called.op = "construct" /\ called.res = "ok"
  BY DEF PipelineInit
<1> DEFINE f == FALSE
           none == <<>>
<1> HIDE DEF f, none
<1>3. /\ World(p) /\ p.queries = <<>> /\ p.first = NoMore /\ p.second = NoMore /\ p.waiting = 0 /\ p.q_id = 0
      /\ p.error = Limit /\ p.tx = tx /\ p.answers = <<>>
  BY <1>1 DEF World
<1>31. p.dummy = FALSE /\ p.stray = FALSE /\ p.cancelled = FALSE
  BY <1>1
<1>4. Known(p) = {} /\ NoMore \in Nat /\ Limit = NoMore + 1 /\ 0 \in 0 .. MaxQueries
  BY <1>3, MaxQueriesAssumption DEF Known, NoMore, Limit
<1>5. Typed(p)
  BY <1>3, <1>4 DEF Typed
<1>6. Ranged(p)
  <2>1. Left(p, NoMore) = 0
    BY <1>5, LeftAtEnd
  <2> QED BY <1>3, <1>4, <2>1 DEF Ranged
<1>7. Stopped(p)
  BY <1>3, <1>31, <1>4 DEF Stopped
<1>8. Held(p)
  BY <1>4 DEF Held
<1>9. InStep(p)
  BY <1>3, <1>31 DEF InStep, have_pending, Quiet
<1> QED BY <1>2, <1>3, <1>5, <1>6, <1>7, <1>8, <1>9 DEF Between, PipelineInvariant

LEMMA CallIs ==
    ASSUME NEW op, op # "retrieve", NEW q, NEW outs, \A o \in outs : Sound(o), Call(op, q, outs)
    PROVE  Between'
<1>1. PICK o \in outs : p' = o.w /\ called' = [op |-> op, q |-> q, res |-> o.res]
  BY DEF Call
<1>2. called'.op = op /\ called'.res = o.res
  BY <1>1
<1> QED BY <1>1, <1>2 DEF Between, Sound

LEMMA BetweenKept ==
    ASSUME Transient = FALSE
    PROVE  Between /\ [PipelineNext]_pipelineVars => Between'
<1> SUFFICES ASSUME Between, [PipelineNext]_pipelineVars PROVE Between'
  OBVIOUS
<1>1. PipelineInvariant(p)
  BY DEF Between
<1>2. CASE UNCHANGED pipelineVars
  BY <1>2 DEF Between, pipelineVars
<1>3. ASSUME NEW kind \in {"good", "syntax", "runtime"}, Insert(kind) PROVE Between'
  <2>1. p.q_id < MaxQueries /\ Call("insert", p.q_id + 1, insert(p, kind))
    BY <1>3 DEF Insert
  <2>2. \A o \in insert(p, kind) : Sound(o)
    BY <1>1, <2>1, InsertIs DEF QueryKinds
  <2> QED BY <2>1, <2>2, CallIs
<1>4. CASE Complete
  <2>1. \A o \in complete(p) : Sound(o)
    BY <1>1, CompleteIs
  <2> QED BY <1>4, <2>1, CallIs DEF Complete
<1>5. CASE Flush
  <2>1. \A o \in flush(p) : Sound(o)
    BY <1>1, FlushIs
  <2> QED BY <1>5, <2>1, CallIs DEF Flush
<1>6. CASE Cancel
  <2>1. \A o \in cancel(p) : Sound(o)
    BY <1>1, CancelIs
  <2> QED BY <1>6, <2>1, CallIs DEF Cancel
<1>7. CASE Resume
  <2>1. \A o \in resume(p) : Sound(o)
    BY <1>1, ResumeIs
  <2> QED BY <1>7, <2>1, CallIs DEF Resume
<1>8. ASSUME NEW n \in 0 .. MaxRetain, Retain(n) PROVE Between'
  <2>1. \A o \in retain(p, n) : Sound(o)
    BY <1>1, RetainIs
  <2> QED BY <1>8, <2>1, CallIs DEF Retain
<1>9. ASSUME NEW q \in Known(p), RetrieveResult(q) PROVE Between'
  <2>1. PICK o \in retrieve(p, q) : p' = o.w /\ called' = [op |-> "retrieve", q |-> q, res |-> o.res]
    BY <1>9 DEF RetrieveResult, Call
  <2>2. Retrieved(o, q)
    BY <1>1, RetrieveIs
  <2>3. called'.op = "retrieve" /\ called'.res = o.res /\ called'.q = q
    BY <2>1
  <2> QED BY <2>1, <2>2, <2>3 DEF Between, Retrieved
<1> QED BY <1>2, <1>3, <1>4, <1>5, <1>6, <1>7, <1>8, <1>9 DEF PipelineNext

\* What holds between two calls gives the properties.
LEMMA BetweenSays == Between => NeverUndefined /\ RightAnswer /\ NeverStray /\ CulpritBlamed
<1> SUFFICES ASSUME Between PROVE NeverUndefined /\ RightAnswer /\ NeverStray /\ CulpritBlamed
  OBVIOUS
<1>1. Ranged(p) /\ Stopped(p) /\ Held(p) /\ Typed(p)
  BY DEF Between, PipelineInvariant
<1>2. NeverUndefined
  BY <1>1 DEF NeverUndefined, Between, Ranged
<1>3. NeverStray
  BY <1>1 DEF NeverStray, Stopped
<1>4. ASSUME NEW q \in Known(p), is_finished(p, q), q < p.error PROVE p.queries[q].res # NoResult
  <2>1. q < p.first
    BY <1>1, <1>4, Places DEF is_finished
  <2> QED BY <1>1, <1>4, <2>1 DEF Held
<1>5. RightAnswer
  BY <1>4 DEF RightAnswer, Between
<1>6. CulpritBlamed
  BY DEF CulpritBlamed, Between
<1> QED BY <1>2, <1>3, <1>5, <1>6

\* What stands in the issued range, what libpq still holds, and which queries have
\* their results fit together between any two calls of the client: the inductive
\* invariant from which the four properties of the pipeline follow.
THEOREM PipelineInductive ==
    ASSUME Transient = FALSE
    PROVE  PipelineSpec => []Between
<1>1. PipelineInit => Between
  BY BetweenInitially
<1>2. Between /\ [PipelineNext]_pipelineVars => Between'
  BY BetweenKept
<1> QED BY <1>1, <1>2, PTL DEF PipelineSpec

\* The pipeline never follows an iterator that has been erased or is at the end,
\* its bookkeeping of results never contradicts itself unless a batch has been
\* cancelled, and the issued range is a range (NeverUndefined): for any number of
\* queries, whenever their results arrive.
THEOREM PipelineIsDefined ==
    ASSUME Transient = FALSE
    PROVE  PipelineSpec => []NeverUndefined
<1>1. Between => NeverUndefined
  BY BetweenSays
<1> QED BY <1>1, PipelineInductive, PTL

\* retrieve hands over the result of the query it is asked for, or the error of
\* that query or of its batch, and what is_finished calls finished has its result
\* or lies beyond an error (RightAnswer).
THEOREM PipelineAnswersRight ==
    ASSUME Transient = FALSE
    PROVE  PipelineSpec => []RightAnswer
<1>1. Between => RightAnswer
  BY BetweenSays
<1> QED BY <1>1, PipelineInductive, PTL

\* Once a replay has rolled the transaction back nothing is sent any more
\* (NeverStray).
THEOREM PipelineNeverStrays ==
    ASSUME Transient = FALSE
    PROVE  PipelineSpec => []NeverStray
<1>1. Between => NeverStray
  BY BetweenSays
<1> QED BY <1>1, PipelineInductive, PTL

\* In a nontransaction the replay finds the query that is wrong (CulpritBlamed).
THEOREM PipelineBlamesTheCulprit ==
    ASSUME Transient = FALSE
    PROVE  PipelineSpec => []CulpritBlamed
<1>1. Between => CulpritBlamed
  BY BetweenSays
<1> QED BY <1>1, PipelineInductive, PTL

=============================================================================
