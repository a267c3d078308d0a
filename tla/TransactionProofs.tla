------------------------- MODULE TransactionProofs -------------------------
(***************************************************************************)
(* What holds of module Transactions for any number of transactions and    *)
(* statements, when the client does none of what Mishaps names.            *)
(*                                                                         *)
(* The operations are sets of outcomes, so that each is described once, by *)
(* a lemma about any of its outcomes in any world that it may meet, and    *)
(* used wherever the code calls it: first the commands of the server and   *)
(* the connection, then what do_begin, do_abort and do_commit of both      *)
(* classes are made of, then the calls of the client.  The invariant says  *)
(* of the world between two calls that it is Whole, and Calm while no      *)
(* exception is on its way: it is only then that a transaction that has    *)
(* not ended must be in its session, and the session hold its statements.  *)
(***************************************************************************)
EXTENDS Transactions, TLAPS

-----------------------------------------------------------------------------
(* Worlds *)

Fields == {"conn", "inhibited", "settings", "session", "stored", "trans", "sub"}

IsWorld(w) == DOMAIN w = Fields /\ DOMAIN w.session = {"tx", "work", "save", "set", "lost"}

\* A step of the connection leaves the objects of the client alone.
Similar(v, w) ==
    IsWorld(v) /\ v.inhibited = w.inhibited /\ v.trans = w.trans /\ v.sub = w.sub

\* The server has executed a command in the session of w.
Now(v, w, s, db) ==
    /\ Similar(v, w) /\ v.conn = w.conn /\ v.settings = w.settings
    /\ v.session = s /\ v.stored = db

\* The connection of w has been lost, or a lost one not been restored.
Gone(v, w) ==
    /\ Similar(v, w) /\ v.conn \in {"none", "bad"} /\ v.session = Fresh
    /\ v.settings \subseteq w.settings

\* The client has connected again: the settings are in effect, or lost unnoticed.
Renewed(v, w) ==
    /\ Similar(v, w) /\ v.conn = "ok" /\ v.stored = w.stored
    /\ v.settings = w.settings \ {"PREPARE"}
    /\ v.session.tx = "idle" /\ v.session.work = {} /\ v.session.save = {}
    /\ v.session.set = v.settings \ v.session.lost /\ v.session.lost \subseteq v.settings

LEMMA FreshIs == Fresh = [tx |-> "idle", work |-> {}, save |-> {}, set |-> {}, lost |-> {}]
  BY DEF Fresh

LEMMA OutcomeIs == \A w, res : Outcome(w, res).w = w /\ Outcome(w, res).res = res
  BY DEF Outcome

LEMMA CutIs ==
    ASSUME NEW w, IsWorld(w), NEW st
    PROVE  /\ Similar(Cut(w, st), w)
           /\ Cut(w, st).conn = st /\ Cut(w, st).session = Fresh
           /\ Cut(w, st).stored = w.stored /\ Cut(w, st).settings = w.settings
  BY DEF Cut, Similar, IsWorld, Fields, Fresh

LEMMA SetUpIs ==
    ASSUME NEW w, IsWorld(w), NEW o \in set_up_state(w)
    PROVE  \/ o.res = "ok" /\ Renewed(o.w, w)
           \/ o.res = "broken" /\ Gone(o.w, w) /\ o.w.stored = w.stored
<1> DEFINE kept == w.settings \ {"PREPARE"}
           u == [w EXCEPT !.conn = "ok", !.settings = kept]
           begun(set) == [u EXCEPT !.session = [Fresh EXCEPT !.set = set, !.lost = kept \ set]]
<1>1. /\ IsWorld(u) /\ u.inhibited = w.inhibited /\ u.trans = w.trans /\ u.sub = w.sub
      /\ u.stored = w.stored /\ u.settings = kept /\ u.conn = "ok"
  BY DEF IsWorld, Fields
<1>2. o \in Restore(u, kept)
  BY DEF set_up_state
<1>3. \/ \E set \in {kept, {}} : o = Outcome(begun(set), "ok")
      \/ o = Outcome(Cut(u, "bad"), "broken")
  BY <1>2 DEF Restore
<1>4. ASSUME NEW set \in {kept, {}}, o = Outcome(begun(set), "ok") PROVE Renewed(o.w, w) /\ o.res = "ok"
  <2>1. o.w = begun(set) /\ o.res = "ok"
    BY <1>4, OutcomeIs
  <2> DEFINE fresh == [Fresh EXCEPT !.set = set, !.lost = kept \ set]
  <2>2. /\ DOMAIN fresh = {"tx", "work", "save", "set", "lost"} /\ fresh.tx = "idle"
        /\ fresh.work = {} /\ fresh.save = {} /\ fresh.set = set /\ fresh.lost = kept \ set
    BY DEF Fresh
  <2>a. begun(set) = [u EXCEPT !.session = fresh]
    OBVIOUS
  <2> HIDE DEF fresh
  <2> HIDE DEF u, kept, begun
  <2>3. set = kept \ (kept \ set) /\ kept \ set \subseteq kept
    <3>1. CASE set = kept
      BY <3>1
    <3>2. CASE set = {}
      BY <3>2
    <3> QED BY <1>4, <3>1, <3>2
  <2>4. /\ IsWorld(o.w) /\ o.w.inhibited = u.inhibited /\ o.w.trans = u.trans /\ o.w.sub = u.sub
        /\ o.w.stored = u.stored /\ o.w.settings = u.settings /\ o.w.conn = u.conn
        /\ o.w.session = fresh
    BY <1>1, <2>1, <2>2, <2>a DEF IsWorld, Fields
  <2>5. o.w.settings = w.settings \ {"PREPARE"}
    BY <1>1, <2>4 DEF kept
  <2>6. o.w.session.set = o.w.settings \ o.w.session.lost /\ o.w.session.lost \subseteq o.w.settings
    BY <1>1, <2>2, <2>3, <2>4
  <2> QED BY <1>1, <2>1, <2>2, <2>4, <2>5, <2>6 DEF Renewed, Similar
<1>5. CASE o = Outcome(Cut(u, "bad"), "broken")
  <2>1. o.w = Cut(u, "bad") /\ o.res = "broken"
    BY <1>5, OutcomeIs
  <2> HIDE DEF u
  <2>2. /\ Similar(o.w, u) /\ o.w.conn = "bad" /\ o.w.session = Fresh
        /\ o.w.stored = u.stored /\ o.w.settings = u.settings
    BY <1>1, <2>1, CutIs
  <2> QED BY <1>1, <2>1, <2>2 DEF Gone, Similar
<1> QED BY <1>3, <1>4, <1>5

\* Sessions
Session(s) == DOMAIN s = {"tx", "work", "save", "set", "lost"}
Idling(s, set) == [Fresh EXCEPT !.set = set, !.lost = s.lost \ set]
Failed(s) == [s EXCEPT !.tx = IF @ = "idle" THEN "idle" ELSE "failed"]
Opened(s) == [s EXCEPT !.tx = "open"]
Marked(s) == [s EXCEPT !.save = {s.work}]
Unmarked(s) == [s EXCEPT !.save = {}]
Returned(s) == [s EXCEPT !.tx = "open", !.work = UNION s.save]
Prepared(s) == [s EXCEPT !.set = @ \cup {"PREPARE"}]
Deaf(s) == [s EXCEPT !.set = @ \ {"LISTEN"}, !.lost = @ \ {"LISTEN"}]
Working(s, c) == [s EXCEPT !.work = @ \cup {c}]

LEMMA SessionIs ==
    ASSUME NEW s, Session(s)
    PROVE  /\ \A t, set : Session(Idling(t, set)) /\ Session(Failed(Idling(t, set)))
           /\ Session(Failed(s)) /\ Session(Opened(s)) /\ Session(Marked(s)) /\ Session(Unmarked(s))
           /\ Session(Returned(s)) /\ Session(Prepared(s)) /\ Session(Deaf(s))
           /\ \A c : Session(Working(s, c))
  BY DEF Session, Fresh, Idling, Failed, Opened, Marked, Unmarked, Returned, Prepared, Deaf, Working

LEMMA WithSession ==
    ASSUME NEW w, IsWorld(w), NEW s, Session(s)
    PROVE  Now([w EXCEPT !.session = s], w, s, w.stored)
  BY DEF Now, Similar, IsWorld, Fields, Session

FailsWith(o, w, s) == o.res = "sql" /\ Now(o.w, w, Failed(s), w.stored)
Runs(o, w, s) == o.res = "ok" /\ Now(o.w, w, s, w.stored)

LEMMA SessionsOf ==
    ASSUME NEW w, IsWorld(w)
    PROVE  LET s == w.session
           IN  /\ Session(s) /\ Session(Failed(s)) /\ Session(Opened(s)) /\ Session(Marked(s))
               /\ Session(Unmarked(s)) /\ Session(Returned(s)) /\ Session(Prepared(s)) /\ Session(Deaf(s))
               /\ Session(Idling(s, s.set)) /\ \A c : Session(Working(s, c))
<1>1. Session(w.session)
  BY DEF IsWorld, Session
<1> QED BY <1>1, SessionIs

LEMMA ItRuns ==
    ASSUME NEW w, IsWorld(w), NEW s, Session(s), NEW o, o = Outcome([w EXCEPT !.session = s], "ok")
    PROVE  Runs(o, w, s)
<1>1. Now([w EXCEPT !.session = s], w, s, w.stored)
  BY WithSession
<1>2. o.w = [w EXCEPT !.session = s] /\ o.res = "ok"
  BY OutcomeIs
<1> QED BY <1>1, <1>2 DEF Runs

LEMMA ItFails ==
    ASSUME NEW w, IsWorld(w), NEW o, o = Outcome([w EXCEPT !.session = Failed(w.session)], "sql")
    PROVE  FailsWith(o, w, w.session)
<1>1. Now([w EXCEPT !.session = Failed(w.session)], w, Failed(w.session), w.stored)
  BY WithSession, SessionsOf
<1>2. o.w = [w EXCEPT !.session = Failed(w.session)] /\ o.res = "sql"
  BY OutcomeIs
<1> QED BY <1>1, <1>2 DEF FailsWith

LEMMA RollbackRuns ==
    ASSUME NEW w, IsWorld(w), NEW o \in Executes(w, Run("ROLLBACK"))
    PROVE  Runs(o, w, Idling(w.session, w.session.set))
<1>1. o = Outcome([w EXCEPT !.session = Idling(w.session, w.session.set)], "ok")
  BY DEF Executes, Run, Idling
<1> QED BY <1>1, ItRuns, SessionsOf

LEMMA BeginRuns ==
    ASSUME NEW w, IsWorld(w), w.session.tx # "failed", NEW o \in Executes(w, Run("BEGIN"))
    PROVE  Runs(o, w, Opened(w.session))
<1>1. o = Outcome([w EXCEPT !.session = Opened(w.session)], "ok")
  BY DEF Executes, Run, Opened
<1> QED BY <1>1, ItRuns, SessionsOf

LEMMA SavepointRuns ==
    ASSUME NEW w, IsWorld(w), NEW o \in Executes(w, Run("SAVEPOINT"))
    PROVE  \/ w.session.tx = "open" /\ Runs(o, w, Marked(w.session))
           \/ w.session.tx # "open" /\ FailsWith(o, w, w.session)
<1>1. CASE w.session.tx = "open"
  <2>1. o = Outcome([w EXCEPT !.session = Marked(w.session)], "ok")
    BY <1>1 DEF Executes, Run, Marked
  <2> QED BY <1>1, <2>1, ItRuns, SessionsOf
<1>2. CASE w.session.tx # "open"
  <2>1. o = Outcome([w EXCEPT !.session = Failed(w.session)], "sql")
    BY <1>2 DEF Executes, Run, Failed
  <2> QED BY <1>2, <2>1, ItFails
<1> QED BY <1>1, <1>2

LEMMA ReleaseRuns ==
    ASSUME NEW w, IsWorld(w), NEW o \in Executes(w, Run("RELEASE"))
    PROVE  \/ w.session.tx = "open" /\ w.session.save # {} /\ Runs(o, w, Unmarked(w.session))
           \/ FailsWith(o, w, w.session)
<1>1. CASE w.session.tx = "open" /\ w.session.save # {}
  <2>1. o = Outcome([w EXCEPT !.session = Unmarked(w.session)], "ok")
    BY <1>1 DEF Executes, Run, Unmarked
  <2> QED BY <1>1, <2>1, ItRuns, SessionsOf
<1>2. CASE ~(w.session.tx = "open" /\ w.session.save # {})
  <2>1. o = Outcome([w EXCEPT !.session = Failed(w.session)], "sql")
    BY <1>2 DEF Executes, Run, Failed
  <2> QED BY <2>1, ItFails
<1> QED BY <1>1, <1>2

LEMMA ReturnRuns ==
    ASSUME NEW w, IsWorld(w), NEW o \in Executes(w, Run("ROLLBACK TO"))
    PROVE  \/ w.session.save # {} /\ Runs(o, w, Returned(w.session))
           \/ w.session.save = {} /\ FailsWith(o, w, w.session)
<1>1. CASE w.session.save # {}
  <2>1. o = Outcome([w EXCEPT !.session = Returned(w.session)], "ok")
    BY <1>1 DEF Executes, Run, Returned
  <2> QED BY <1>1, <2>1, ItRuns, SessionsOf
<1>2. CASE w.session.save = {}
  <2>1. o = Outcome([w EXCEPT !.session = Failed(w.session)], "sql")
    BY <1>2 DEF Executes, Run, Failed
  <2> QED BY <1>2, <2>1, ItFails
<1> QED BY <1>1, <1>2

LEMMA QueryRuns ==
    ASSUME NEW w, IsWorld(w), NEW o \in Executes(w, Run("query"))
    PROVE  \/ w.session.tx # "failed" /\ Runs(o, w, w.session)
           \/ FailsWith(o, w, w.session)
<1>1. \/ w.session.tx # "failed" /\ o = Outcome([w EXCEPT !.session = w.session], "ok")
      \/ o = Outcome([w EXCEPT !.session = Failed(w.session)], "sql")
  BY DEF Executes, Run, Failed
<1> QED BY <1>1, ItRuns, ItFails, SessionsOf

LEMMA PrepareRuns ==
    ASSUME NEW w, IsWorld(w), NEW o \in Executes(w, Run("PREPARE"))
    PROVE  \/ w.session.tx # "failed" /\ Runs(o, w, Prepared(w.session))
           \/ FailsWith(o, w, w.session)
<1>1. \/ w.session.tx # "failed" /\ o = Outcome([w EXCEPT !.session = Prepared(w.session)], "ok")
      \/ o = Outcome([w EXCEPT !.session = Failed(w.session)], "sql")
  BY DEF Executes, Run, Failed, Prepared
<1> QED BY <1>1, ItRuns, ItFails, SessionsOf

LEMMA UnlistenRuns ==
    ASSUME NEW w, IsWorld(w), w.session.tx = "idle", NEW o \in Executes(w, Run("UNLISTEN"))
    PROVE  Runs(o, w, Deaf(w.session))
<1>1. o = Outcome([w EXCEPT !.session = Deaf(w.session)], "ok")
  BY DEF Executes, Run, Deaf
<1> QED BY <1>1, ItRuns, SessionsOf

Alone(s, c) ==
    LET now == InEffect([set |-> s.set, work |-> {c}]) IN [s EXCEPT !.set = now, !.lost = @ \ now]

LEMMA ItemRuns ==
    ASSUME NEW w, IsWorld(w), NEW c, c.op \in {"add", "remove", "SET", "LISTEN"},
           w.session.tx \in {"idle", "open", "failed"}, NEW o \in Executes(w, c)
    PROVE  \/ w.session.tx = "open" /\ Runs(o, w, Working(w.session, c))
           \/ /\ w.session.tx = "idle" /\ o.res = "ok"
              /\ Now(o.w, w, Alone(w.session, c), Applied(w.stored, {c}))
           \/ FailsWith(o, w, w.session)
<1> DEFINE now == InEffect([set |-> w.session.set, work |-> {c}])
           v == [w EXCEPT !.stored = Applied(@, {c}), !.session.set = now, !.session.lost = @ \ now]
<1>1. \/ w.session.tx = "open" /\ o = Outcome([w EXCEPT !.session = Working(w.session, c)], "ok")
      \/ w.session.tx = "idle" /\ o = Outcome(v, "ok")
      \/ o = Outcome([w EXCEPT !.session = Failed(w.session)], "sql")
  BY DEF Executes, Working, Failed
<1>2. CASE o = Outcome(v, "ok")
  <2>1. Now(v, w, Alone(w.session, c), Applied(w.stored, {c}))
    BY DEF Now, Similar, IsWorld, Fields, Alone
  <2>2. o.w = v /\ o.res = "ok"
    BY <1>2, OutcomeIs
  <2> QED BY <1>1, <1>2, <2>1, <2>2, ItFails, ItRuns, SessionsOf
<1> QED BY <1>1, <1>2, ItRuns, ItFails, SessionsOf

\* COMMIT of what the session has done.
LEMMA CommitRuns ==
    ASSUME NEW w, IsWorld(w), w.session.tx = "open", NEW o \in Executes(w, Run("COMMIT"))
    PROVE  \/ o.res = "ok" /\ Now(o.w, w, Idling(w.session, InEffect(w.session)), Applied(w.stored, w.session.work))
           \/ o.res = "sql" /\ Now(o.w, w, Idling(w.session, w.session.set), w.stored)
<1>1. \/ o = Outcome([w EXCEPT !.session = Idling(w.session, InEffect(w.session)), !.stored = Applied(@, w.session.work)], "ok")
      \/ o = Outcome([w EXCEPT !.session = Failed(Idling(w.session, w.session.set))], "sql")
  BY DEF Executes, Run, Idling, Failed
<1>2. Failed(Idling(w.session, w.session.set)) = Idling(w.session, w.session.set)
  BY DEF Failed, Idling, Fresh
<1>3. Session(Idling(w.session, InEffect(w.session))) /\ Session(Idling(w.session, w.session.set))
  BY SessionIs, SessionsOf
<1>4. Now([w EXCEPT !.session = Idling(w.session, w.session.set)], w, Idling(w.session, w.session.set), w.stored)
  BY <1>3, WithSession
<1>5. Now([w EXCEPT !.session = Idling(w.session, InEffect(w.session)), !.stored = Applied(@, w.session.work)],
          w, Idling(w.session, InEffect(w.session)), Applied(w.stored, w.session.work))
  BY <1>3 DEF Now, Similar, IsWorld, Fields, Session
<1> QED BY <1>1, <1>2, <1>4, <1>5, OutcomeIs

-----------------------------------------------------------------------------
(* The connection *)

\* Where a command arrives: in the session, or in a new one.
Arrives(v, w, retry) ==
    /\ IsWorld(v) /\ is_open(v)
    /\ \/ v = w
       \/ Renewed(v, w) /\ (w.conn = "none" \/ (retry /\ is_open(w)))

Breaks(o, w, retry) ==
    o.res = "broken" /\ Gone(o.w, w) /\ (is_open(w) /\ ~retry => o.w.conn = "bad")

Linked(w) ==
    /\ IsWorld(w) /\ w.conn \in {"none", "ok", "bad"}
    /\ w.session.tx \in {"idle", "open", "failed"}
    /\ w.conn # "ok" => w.session = Fresh

LEMMA CutIsGone ==
    ASSUME NEW w, IsWorld(w), NEW st \in {"none", "bad"}
    PROVE  Gone(Cut(w, st), w) /\ Cut(w, st).conn = st
           /\ Cut(w, st).stored = w.stored /\ Cut(w, st).settings = w.settings
  BY CutIs DEF Gone

LEMMA GoneIsLinked == \A v, w : Gone(v, w) => Linked(v) /\ Similar(v, w) /\ ~is_open(v) /\ v.conn # "ok"
  BY FreshIs DEF Gone, Linked, Similar, is_open

LEMMA StaysGone == ASSUME NEW w, Linked(w), ~is_open(w) PROVE Gone(w, w)
  BY DEF Gone, Linked, Similar, is_open

\* The server answers.
Answers(o, w) ==
    /\ o.res \in {"ok", "sql"}
    /\ Similar(o.w, w) /\ o.w.conn = w.conn /\ o.w.settings = w.settings

Commands == {Run(op) : op \in {"ROLLBACK", "BEGIN", "SAVEPOINT", "ROLLBACK TO", "RELEASE", "query",
                               "COMMIT", "PREPARE", "UNLISTEN"}}

Command(c) == c \in Commands \/ c.op \in {"add", "remove", "SET", "LISTEN"}

LEMMA RunningAnswers ==
    \A o, w, s : Runs(o, w, s) \/ FailsWith(o, w, s) => Answers(o, w)
  BY DEF Runs, FailsWith, Answers, Now

LEMMA ServerAnswers ==
    ASSUME NEW w, IsWorld(w), w.session.tx \in {"idle", "open", "failed"},
           NEW c, Command(c), NEW o \in Executes(w, c)
    PROVE  Answers(o, w)
<1> DEFINE s == w.session
<1>0. \A op : Run(op).op = op
  BY DEF Run
<1>1. CASE c.op \in {"add", "remove", "SET", "LISTEN"}
  <2>1. CASE o.res = "ok" /\ Now(o.w, w, Alone(w.session, c), Applied(w.stored, {c}))
    BY <2>1 DEF Now, Answers
  <2> QED BY <1>1, <2>1, ItemRuns, RunningAnswers
<1>2. CASE c = Run("ROLLBACK")
  BY <1>2, RollbackRuns, RunningAnswers
<1>3. CASE c = Run("BEGIN")
  <2>1. CASE s.tx = "failed"
    <3>1. o = Outcome([w EXCEPT !.session = Failed(w.session)], "sql")
      BY <1>3, <2>1, <1>0 DEF Executes, Failed
    <3> QED BY <3>1, ItFails, RunningAnswers
  <2> QED BY <1>3, <2>1, BeginRuns, RunningAnswers
<1>4. CASE c = Run("SAVEPOINT")
  BY <1>4, SavepointRuns, RunningAnswers
<1>5. CASE c = Run("ROLLBACK TO")
  BY <1>5, ReturnRuns, RunningAnswers
<1>6. CASE c = Run("RELEASE")
  BY <1>6, ReleaseRuns, RunningAnswers
<1>7. CASE c = Run("query")
  BY <1>7, QueryRuns, RunningAnswers
<1>8. CASE c = Run("PREPARE")
  BY <1>8, PrepareRuns, RunningAnswers
<1>9. CASE c = Run("UNLISTEN")
  <2>1. CASE s.tx # "idle"
    <3>1. o = Outcome([w EXCEPT !.session = Failed(w.session)], "sql")
      BY <1>9, <2>1, <1>0 DEF Executes, Failed
    <3> QED BY <3>1, ItFails, RunningAnswers
  <2> QED BY <1>9, <2>1, UnlistenRuns, RunningAnswers
<1>10. CASE c = Run("COMMIT")
  <2>1. CASE s.tx # "open"
    <3>1. o = Outcome([w EXCEPT !.session = Idling(w.session, w.session.set)], "ok")
      BY <1>10, <2>1, <1>0 DEF Executes, Idling
    <3> QED BY <3>1, ItRuns, SessionsOf, RunningAnswers
  <2>2. CASE s.tx = "open"
    BY <1>10, <2>2, CommitRuns DEF Answers, Now
  <2> QED BY <2>1, <2>2
<1> QED BY <1>1, <1>2, <1>3, <1>4, <1>5, <1>6, <1>7, <1>8, <1>9, <1>10 DEF Commands, Command

LEMMA AnswersAreLinked ==
    ASSUME NEW w, Linked(w), is_open(w), NEW o, Answers(o, w)
    PROVE  IsWorld(o.w) /\ o.w.conn = "ok" /\ is_open(o.w)
  BY DEF Linked, Answers, Similar, is_open

\* The link breaks before a command is executed, or after.
Lost(o, w, c) ==
    /\ o.res \in {"lost", "broken"} /\ Gone(o.w, w) /\ o.w.conn = "bad"
    /\ o.w.settings = w.settings
    /\ \/ o.w.stored = w.stored
       \/ o.res = "broken" /\ \E e \in Executes(w, c) : o.w.stored = e.w.stored

LEMMA PQexecIs ==
    ASSUME NEW w, Linked(w), NEW c, Command(c), NEW o \in PQexec(w, c)
    PROVE  \/ ~is_open(w) /\ o.w = w /\ o.res = "lost"
           \/ is_open(w) /\ o \in Executes(w, c)
           \/ is_open(w) /\ Lost(o, w, c)
<1>0. IsWorld(w) /\ w.session.tx \in {"idle", "open", "failed"}
  BY DEF Linked
<1>1. CASE ~is_open(w)
  BY <1>1, OutcomeIs DEF PQexec
<1>2. CASE is_open(w)
  <2>1. \/ o \in Executes(w, c)
        \/ o = Outcome(Cut(w, "bad"), "lost") \/ o = Outcome(Cut(w, "bad"), "broken")
        \/ \E e \in Executes(w, c) : o = Outcome(Cut(e.w, "bad"), "broken")
    BY <1>2 DEF PQexec
  <2>2. ASSUME o = Outcome(Cut(w, "bad"), "lost") \/ o = Outcome(Cut(w, "bad"), "broken")
        PROVE  Lost(o, w, c)
    <3>1. o.w = Cut(w, "bad") /\ o.res \in {"lost", "broken"}
      BY <2>2, OutcomeIs
    <3> QED BY <1>0, <3>1, CutIsGone DEF Lost
  <2>3. ASSUME NEW e \in Executes(w, c), o = Outcome(Cut(e.w, "bad"), "broken")
        PROVE  Lost(o, w, c)
    <3>1. Answers(e, w)
      BY <1>0, ServerAnswers
    <3>2. IsWorld(e.w) /\ Similar(e.w, w) /\ e.w.settings = w.settings
      BY <3>1 DEF Answers, Similar
    <3>3. o.w = Cut(e.w, "bad") /\ o.res = "broken"
      BY <2>3, OutcomeIs
    <3>4. Gone(o.w, e.w) /\ o.w.conn = "bad" /\ o.w.stored = e.w.stored /\ o.w.settings = e.w.settings
      BY <3>2, <3>3, CutIsGone
    <3>5. Gone(o.w, w)
      BY <3>2, <3>4 DEF Gone, Similar
    <3> QED BY <3>2, <3>3, <3>4, <3>5 DEF Lost
  <2> QED BY <1>2, <2>1, <2>2, <2>3
<1> QED BY <1>1, <1>2

LEMMA RenewedIsLinked ==
    ASSUME NEW v, NEW w, Renewed(v, w) PROVE Linked(v) /\ is_open(v) /\ Similar(v, w)
  BY DEF Renewed, Linked, Similar, is_open

LEMMA ActivateIs ==
    ASSUME NEW w, Linked(w), NEW o \in activate(w)
    PROVE  \/ o.res = "ok" /\ is_open(o.w) /\ (o.w = w \/ (Renewed(o.w, w) /\ w.conn = "none"))
           \/ ~is_open(w) /\ Breaks(o, w, FALSE) /\ o.w.stored = w.stored
<1>0. IsWorld(w)
  BY DEF Linked
<1>1. CASE is_open(w)
  BY <1>1, OutcomeIs DEF activate
<1>2. CASE ~is_open(w)
  <2>1. \/ o = Outcome(w, "broken")
        \/ o = Outcome(Cut(w, "none"), "broken")
        \/ w.conn = "none" /\ \E p \in set_up_state(w) :
             IF p.res = "ok" THEN o = p ELSE o = Outcome(Cut(p.w, "none"), p.res)
    <3>1. ASSUME NEW disconnected(_), o \in Catch(set_up_state(w), disconnected)
          PROVE  \E p \in set_up_state(w) : IF p.res = "ok" THEN o = p ELSE o \in disconnected(p)
      BY <3>1 DEF Catch, Succeeded, Threw
    <3> QED BY <1>2 DEF activate, connect, Linked, is_open, Catch, Succeeded, Threw
  <2>2. CASE o = Outcome(w, "broken")
    BY <1>2, <2>2, OutcomeIs, StaysGone DEF Breaks
  <2>3. CASE o = Outcome(Cut(w, "none"), "broken")
    <3>1. o.w = Cut(w, "none") /\ o.res = "broken"
      BY <2>3, OutcomeIs
    <3>2. Gone(o.w, w) /\ o.w.stored = w.stored
      BY <1>0, <3>1, CutIsGone
    <3> QED BY <1>2, <3>1, <3>2 DEF Breaks
  <2>4. ASSUME w.conn = "none", NEW p \in set_up_state(w),
               IF p.res = "ok" THEN o = p ELSE o = Outcome(Cut(p.w, "none"), p.res)
        PROVE  \/ o.res = "ok" /\ is_open(o.w) /\ Renewed(o.w, w)
               \/ ~is_open(w) /\ Breaks(o, w, FALSE) /\ o.w.stored = w.stored
    <3>1. CASE p.res = "ok" /\ Renewed(p.w, w)
      BY <2>4, <3>1, RenewedIsLinked
    <3>2. CASE p.res = "broken" /\ Gone(p.w, w) /\ p.w.stored = w.stored
      <4>1. o.w = Cut(p.w, "none") /\ o.res = "broken"
        BY <2>4, <3>2, OutcomeIs
      <4>2. IsWorld(p.w) /\ Similar(p.w, w) /\ p.w.settings \subseteq w.settings
        BY <3>2 DEF Gone, Similar
      <4>3. Gone(o.w, p.w) /\ o.w.stored = p.w.stored /\ o.w.settings = p.w.settings
        BY <4>1, <4>2, CutIsGone
      <4> QED BY <1>2, <3>2, <4>1, <4>2, <4>3 DEF Gone, Similar, Breaks
    <3> QED BY <1>0, <2>4, <3>1, <3>2, SetUpIs
  <2> QED BY <2>1, <2>2, <2>3, <2>4
<1> QED BY <1>1, <1>2

LEMMA ResetIs ==
    ASSUME NEW w, Linked(w), ~is_open(w), NEW o \in reset(w)
    PROVE  \/ o.res = "ok" /\ Renewed(o.w, w)
           \/ o.res = "broken" /\ Gone(o.w, w) /\ o.w.stored = w.stored
<1>0. IsWorld(w)
  BY DEF Linked
<1>1. \/ o = Outcome(w, "broken")
      \/ o = Outcome(Cut(w, "none"), "broken")
      \/ o \in set_up_state(w)
  BY DEF reset
<1> QED BY <1>0, <1>1, OutcomeIs, StaysGone, CutIsGone, SetUpIs

LEMMA CheckedIs ==
    ASSUME NEW outs, NEW o \in checked(outs)
    PROVE  \/ o \in outs /\ o.res # "lost"
           \/ \E p \in outs : p.res = "lost" /\ o = Outcome(p.w, "broken")
  BY DEF checked

\* What becomes of a command.
LEMMA ExecIs ==
    ASSUME NEW w, Linked(w), NEW c, Command(c), NEW retry \in BOOLEAN, NEW o \in exec(w, c, retry)
    PROVE  \/ \E v : Arrives(v, w, retry) /\ Linked(v) /\ o \in Executes(v, c) /\ Answers(o, v)
           \/ Breaks(o, w, retry) /\ o.w.stored = w.stored
           \/ /\ Breaks(o, w, retry)
              /\ \E v : Arrives(v, w, retry) /\ Linked(v) /\ \E e \in Executes(v, c) : o.w.stored = e.w.stored
<1> DEFINE again(q) == IF q.res = "lost" /\ retry THEN Then(reset(q.w), LAMBDA v : PQexec(v, c)) ELSE {q}
           once(u) == Catch(PQexec(u, c), again)
<1>0. \A q : again(q) = IF q.res = "lost" /\ retry THEN Then(reset(q.w), LAMBDA v : PQexec(v, c)) ELSE {q}
  OBVIOUS
<1>1. \/ o \in activate(w) /\ o.res # "ok"
      \/ \E a \in activate(w) : a.res = "ok" /\ o \in checked(once(a.w))
  BY DEF exec, Then, Threw, Succeeded
<1>2. CASE o \in activate(w) /\ o.res # "ok"
  BY <1>2, ActivateIs DEF Breaks
<1>3. ASSUME NEW a \in activate(w), a.res = "ok", o \in checked(once(a.w))
      PROVE  \/ \E v : Arrives(v, w, retry) /\ Linked(v) /\ o \in Executes(v, c) /\ Answers(o, v)
             \/ Breaks(o, w, retry) /\ o.w.stored = w.stored
             \/ /\ Breaks(o, w, retry)
                /\ \E v : Arrives(v, w, retry) /\ Linked(v) /\ \E e \in Executes(v, c) : o.w.stored = e.w.stored
  <2>1. /\ Arrives(a.w, w, retry) /\ Linked(a.w) /\ is_open(a.w)
        /\ a.w = w \/ (Renewed(a.w, w) /\ w.conn = "none")
    BY <1>3, ActivateIs, RenewedIsLinked DEF Arrives, Linked, Breaks
  <2>2. PICK p \in once(a.w) : /\ o.w = p.w /\ (p.res # "lost" => o = p)
                               /\ (p.res = "lost" => o.res = "broken")
    <3>1. \/ o \in once(a.w) /\ o.res # "lost"
          \/ \E p \in once(a.w) : p.res = "lost" /\ o = Outcome(p.w, "broken")
      <4> HIDE DEF once
      <4> QED BY <1>3, CheckedIs
    <3> HIDE DEF once
    <3> QED BY <3>1, OutcomeIs
  <2>3. \/ p \in PQexec(a.w, c) /\ (p.res = "lost" => ~retry)
        \/ /\ retry
           /\ \E q \in PQexec(a.w, c) : q.res = "lost" /\ p \in Then(reset(q.w), LAMBDA v : PQexec(v, c))
    BY <2>2 DEF Catch, Succeeded, Threw
  <2>4. ASSUME NEW v, Arrives(v, w, retry), Linked(v), NEW r \in Executes(v, c), p = r
        PROVE  o \in Executes(v, c) /\ Answers(o, v)
    <3>1. Answers(r, v)
      BY <2>4, ServerAnswers DEF Linked
    <3> QED BY <2>2, <2>4, <3>1 DEF Answers
  <2>5. ASSUME NEW v, Arrives(v, w, retry), Linked(v), Lost(p, v, c), is_open(w) /\ ~retry => v = w
        PROVE  /\ Breaks(o, w, retry)
               /\ \/ o.w.stored = w.stored
                  \/ \E e \in Executes(v, c) : o.w.stored = e.w.stored
    <3>1. /\ Gone(p.w, v) /\ p.w.conn = "bad" /\ p.res \in {"lost", "broken"}
          /\ p.w.stored = v.stored \/ \E e \in Executes(v, c) : p.w.stored = e.w.stored
      BY <2>5 DEF Lost
    <3>2. Similar(v, w) /\ v.stored = w.stored /\ v.settings \subseteq w.settings
      BY <2>5 DEF Arrives, Renewed, Similar
    <3>3. Gone(p.w, w)
      BY <3>1, <3>2 DEF Gone, Similar
    <3>4. o.res = "broken"
      BY <2>2, <3>1
    <3> QED BY <2>2, <3>1, <3>2, <3>3, <3>4 DEF Breaks
  <2>6. CASE p \in PQexec(a.w, c) /\ (p.res = "lost" => ~retry)
    <3>1. p \in Executes(a.w, c) \/ Lost(p, a.w, c)
      BY <2>1, <2>6, PQexecIs
    <3>2. is_open(w) => a.w = w
      BY <2>1 DEF is_open
    <3> QED BY <2>1, <2>4, <2>5, <3>1, <3>2
  <2>7. ASSUME retry, NEW q \in PQexec(a.w, c), q.res = "lost", p \in Then(reset(q.w), LAMBDA v : PQexec(v, c))
        PROVE  \/ \E v : Arrives(v, w, retry) /\ Linked(v) /\ o \in Executes(v, c) /\ Answers(o, v)
               \/ Breaks(o, w, retry) /\ o.w.stored = w.stored
               \/ /\ Breaks(o, w, retry)
                  /\ \E v : Arrives(v, w, retry) /\ Linked(v) /\ \E e \in Executes(v, c) : o.w.stored = e.w.stored
    <3>1. Lost(q, a.w, c)
      <4>1. ASSUME q \in Executes(a.w, c) PROVE FALSE
        BY <2>1, <2>7, <4>1, ServerAnswers DEF Linked, Answers
      <4> QED BY <2>1, <2>7, <4>1, PQexecIs
    <3>2. /\ Gone(q.w, a.w) /\ q.w.settings = a.w.settings /\ q.w.stored = a.w.stored
          /\ Linked(q.w) /\ ~is_open(q.w)
      BY <2>7, <3>1, GoneIsLinked DEF Lost
    <3>3. /\ Similar(a.w, w) /\ a.w.stored = w.stored
          /\ a.w.settings = w.settings \/ a.w.settings = w.settings \ {"PREPARE"}
      BY <2>1 DEF Renewed, Similar, Arrives
    <3>4. Gone(q.w, w) /\ q.w.stored = w.stored
      BY <3>2, <3>3 DEF Gone, Similar
    <3>5. \/ p \in reset(q.w) /\ p.res # "ok"
          \/ \E r \in reset(q.w) : r.res = "ok" /\ p \in PQexec(r.w, c)
      BY <2>7 DEF Then, Threw, Succeeded
    <3>6. CASE p \in reset(q.w) /\ p.res # "ok"
      <4>1. p.res = "broken" /\ Gone(p.w, q.w) /\ p.w.stored = q.w.stored
        BY <3>2, <3>6, ResetIs
      <4>2. Gone(p.w, w)
        BY <3>4, <4>1 DEF Gone, Similar
      <4> QED BY <2>2, <2>7, <3>4, <4>1, <4>2 DEF Breaks
    <3>7. ASSUME NEW r \in reset(q.w), r.res = "ok", p \in PQexec(r.w, c)
          PROVE  \/ \E v : Arrives(v, w, retry) /\ Linked(v) /\ o \in Executes(v, c) /\ Answers(o, v)
                 \/ Breaks(o, w, retry) /\ o.w.stored = w.stored
                 \/ /\ Breaks(o, w, retry)
                    /\ \E v : Arrives(v, w, retry) /\ Linked(v) /\ \E e \in Executes(v, c) : o.w.stored = e.w.stored
      <4>1. Renewed(r.w, q.w)
        BY <3>2, <3>7, ResetIs
      <4>2. Linked(r.w) /\ is_open(r.w)
        BY <4>1, RenewedIsLinked
      <4>3. Renewed(r.w, w)
        BY <3>2, <3>3, <3>4, <4>1 DEF Renewed, Similar, Gone
      <4>4. Arrives(r.w, w, retry)
        BY <2>1, <2>7, <4>2, <4>3 DEF Arrives, Linked
      <4>5. p \in Executes(r.w, c) \/ Lost(p, r.w, c)
        BY <3>7, <4>2, PQexecIs
      <4> QED BY <2>4, <2>5, <2>7, <4>2, <4>4, <4>5
    <3> QED BY <3>5, <3>6, <3>7
  <2> QED BY <2>3, <2>6, <2>7
<1> QED BY <1>1, <1>2, <1>3

Reaches(o, w, c, retry) == \E v : Arrives(v, w, retry) /\ Linked(v) /\ o \in Executes(v, c)
Undone(o, w, c, retry) ==
    /\ Breaks(o, w, retry)
    /\ \/ o.w.stored = w.stored
       \/ \E v : Arrives(v, w, retry) /\ \E e \in Executes(v, c) : o.w.stored = e.w.stored

LEMMA ExecOutcome ==
    ASSUME NEW w, Linked(w), NEW c, Command(c), NEW retry \in BOOLEAN, NEW o \in exec(w, c, retry)
    PROVE  Reaches(o, w, c, retry) \/ Undone(o, w, c, retry)
<1>1. CASE \E v : Arrives(v, w, retry) /\ Linked(v) /\ o \in Executes(v, c) /\ Answers(o, v)
  BY <1>1 DEF Reaches
<1>2. CASE Breaks(o, w, retry) /\ o.w.stored = w.stored
  BY <1>2 DEF Undone
<1>3. CASE /\ Breaks(o, w, retry)
           /\ \E v : Arrives(v, w, retry) /\ Linked(v) /\ \E e \in Executes(v, c) : o.w.stored = e.w.stored
  BY <1>3 DEF Undone
<1> QED BY <1>1, <1>2, <1>3, ExecIs

-----------------------------------------------------------------------------
(* What every operation of a transaction preserves *)

\* What the n-th transaction does in the session.
Own(c, n) ==
    \/ c = Run("SET")
    \/ c = Deleted(Statement(n, 0))
    \/ \E k \in 0 .. MaxStatements : c = Add(Statement(n, k))

Tidy(s, n) ==
    /\ Session(s) /\ s.tx \in {"idle", "open", "failed"}
    /\ s.tx = "idle" => s.work = {} /\ s.save = {}
    /\ \A c \in s.work : Own(c, n)
    /\ \A S \in s.save : \A c \in S : Own(c, n)
    /\ "PREPARE" \notin s.lost /\ s.set \cap s.lost = {}

Basic(w, n) ==
    /\ Linked(w) /\ Tidy(w.session, n)
    /\ w.conn = "ok" => w.session.set = w.settings \ w.session.lost
    /\ LogTable \in w.stored

\* Only the record of the n-th transaction comes and goes before COMMIT.
SameBut(db, old, n) == \A i : i # Statement(n, 0) => (i \in db <=> i \in old)

LEMMA FreshIsTidy ==
    \A n, s, set : Tidy(Fresh, n) /\ ("PREPARE" \notin s.lost => Tidy(Idling(s, set), n))
  BY DEF Tidy, Idling, Fresh, Session

LEMMA TidyStays ==
    ASSUME NEW s, NEW n, Tidy(s, n)
    PROVE  /\ Tidy(Failed(s), n) /\ Tidy(Opened(s), n)
           /\ s.tx # "idle" => Tidy(Marked(s), n) /\ Tidy(Unmarked(s), n)
           /\ Tidy(Returned(s), n) /\ Tidy(Prepared(s), n)
           /\ \A c : Own(c, n) /\ s.tx # "idle" => Tidy(Working(s, c), n)
<1>1. Tidy(Failed(s), n) /\ Tidy(Opened(s), n) /\ Tidy(Prepared(s), n)
  BY DEF Tidy, Session, Failed, Opened, Prepared
<1>2. s.tx # "idle" => Tidy(Marked(s), n) /\ Tidy(Unmarked(s), n)
  BY DEF Tidy, Session, Marked, Unmarked
<1>3. Tidy(Returned(s), n)
  <2>1. \A c \in UNION s.save : Own(c, n)
    BY DEF Tidy
  <2>2. /\ Session(Returned(s)) /\ Returned(s).tx = "open" /\ Returned(s).work = UNION s.save
        /\ Returned(s).save = s.save /\ Returned(s).set = s.set /\ Returned(s).lost = s.lost
    BY DEF Tidy, Session, Returned
  <2> QED BY <2>1, <2>2 DEF Tidy
<1>4. ASSUME NEW c, Own(c, n), s.tx # "idle" PROVE Tidy(Working(s, c), n)
  <2>1. /\ Session(Working(s, c)) /\ Working(s, c).tx = s.tx /\ Working(s, c).work = s.work \cup {c}
        /\ Working(s, c).save = s.save /\ Working(s, c).set = s.set /\ Working(s, c).lost = s.lost
    BY DEF Tidy, Session, Working
  <2> QED BY <1>4, <2>1 DEF Tidy
<1> QED BY <1>1, <1>2, <1>3, <1>4

\* The same settings.
SameSets(s, t) == s.set = t.set /\ s.lost = t.lost

LEMMA SetsStay ==
    ASSUME NEW s, Session(s)
    PROVE  /\ SameSets(Failed(s), s) /\ SameSets(Opened(s), s) /\ SameSets(Marked(s), s)
           /\ SameSets(Unmarked(s), s) /\ SameSets(Returned(s), s) /\ SameSets(s, s)
           /\ \A c : SameSets(Working(s, c), s)
           /\ s.set \cap s.lost = {} => SameSets(Idling(s, s.set), s)
           /\ \A set : /\ Idling(s, set).set = set /\ Idling(s, set).lost = s.lost \ set
                       /\ Idling(s, set).tx = "idle"
<1>1. s.set \cap s.lost = {} => s.lost \ s.set = s.lost
  OBVIOUS
<1> QED BY <1>1 DEF SameSets, Session, Failed, Opened, Marked, Unmarked, Returned, Working, Idling, Fresh

LEMMA SessionIsTidy ==
    ASSUME NEW v, NEW w, NEW n, Basic(w, n), is_open(w), NEW s, Tidy(s, n), SameSets(s, w.session),
           Now(v, w, s, w.stored)
    PROVE  Basic(v, n) /\ SameBut(v.stored, w.stored, n)
  BY DEF Basic, Tidy, Now, Similar, Linked, is_open, SameBut, SameSets

LEMMA RunIsTidy ==
    ASSUME NEW o, NEW w, NEW n, Basic(w, n), is_open(w), NEW s, Tidy(s, n), SameSets(s, w.session), Runs(o, w, s)
    PROVE  Basic(o.w, n) /\ SameBut(o.w.stored, w.stored, n)
  BY SessionIsTidy DEF Runs

LEMMA FailIsTidy ==
    ASSUME NEW o, NEW w, NEW n, Basic(w, n), is_open(w), FailsWith(o, w, w.session)
    PROVE  Basic(o.w, n) /\ SameBut(o.w.stored, w.stored, n)
<1>1. Tidy(Failed(w.session), n) /\ SameSets(Failed(w.session), w.session)
  BY TidyStays, SetsStay DEF Basic, Tidy
<1> QED BY <1>1, SessionIsTidy DEF FailsWith

\* The commands of a transaction, and when they are given.
Fits(c, w, n) ==
    \/ c \in {Run(op) : op \in {"ROLLBACK", "BEGIN", "SAVEPOINT", "ROLLBACK TO", "RELEASE", "query"}}
    \/ Own(c, n) /\ w.session.tx # "idle"
    \/ c \in {Deleted(Statement(n, 0)), Add(Statement(n, 0))}
    \/ c = Add(LogTable) /\ w.session.tx # "open"

LEMMA OpIs ==
    /\ \A op : Run(op).op = op
    /\ \A i : Add(i).op = "add" /\ Add(i).item = i /\ Deleted(i).op = "remove" /\ Deleted(i).item = i
  BY DEF Run, Add, Deleted

LEMMA OwnIs == \A c, n : Own(c, n) => c.op \in {"SET", "add", "remove"}
  BY OpIs DEF Own

LEMMA FitsIsCommand == \A c, w, n : Fits(c, w, n) => Command(c)
  BY OpIs, OwnIs, ZenonT(60) DEF Fits, Command, Commands

\* A command on its own.
LEMMA AloneIs ==
    ASSUME NEW c, NEW n, c \in {Deleted(Statement(n, 0)), Add(Statement(n, 0)), Add(LogTable)},
           NEW db, LogTable \in db, LogTable # Statement(n, 0), NEW s, Session(s), s.set \cap s.lost = {}
    PROVE  /\ SameBut(Applied(db, {c}), db, n) /\ LogTable \in Applied(db, {c})
           /\ Tidy(s, n) => Tidy(Alone(s, c), n) /\ SameSets(Alone(s, c), s) /\ Alone(s, c).tx = s.tx
<1>1. Items({c}, "add") = (IF c.op = "add" THEN {c.item} ELSE {})
  BY DEF Items
<1>2. Items({c}, "remove") = (IF c.op = "remove" THEN {c.item} ELSE {})
  BY DEF Items
<1>3. SameBut(Applied(db, {c}), db, n) /\ LogTable \in Applied(db, {c})
  BY <1>1, <1>2, OpIs DEF SameBut, Applied
<1>4. InEffect([set |-> s.set, work |-> {c}]) = s.set
  BY OpIs DEF InEffect
<1>5. /\ Session(Alone(s, c)) /\ SameSets(Alone(s, c), s) /\ Alone(s, c).tx = s.tx
      /\ Alone(s, c).work = s.work /\ Alone(s, c).save = s.save
  <2>1. s.lost \ s.set = s.lost
    OBVIOUS
  <2> QED BY <1>4, <2>1 DEF Alone, Session, SameSets
<1> QED BY <1>3, <1>5 DEF Tidy, SameSets

LEMMA ServerKeeps ==
    ASSUME NEW w, NEW n, Basic(w, n), is_open(w), LogTable # Statement(n, 0),
           NEW c, Fits(c, w, n), NEW o \in Executes(w, c)
    PROVE  Basic(o.w, n) /\ SameBut(o.w.stored, w.stored, n)
<1> DEFINE s == w.session
           Done == Basic(o.w, n) /\ SameBut(o.w.stored, w.stored, n)
<1>0. /\ IsWorld(w) /\ s.tx \in {"idle", "open", "failed"} /\ Tidy(s, n) /\ Session(s)
      /\ Linked(w) /\ LogTable \in w.stored /\ "PREPARE" \notin s.lost /\ s.set \cap s.lost = {}
  BY DEF Basic, Linked, Tidy
<1>a. ASSUME NEW t, Tidy(t, n), SameSets(t, s), Runs(o, w, t) PROVE Done
  BY <1>a, RunIsTidy
<1>b. ASSUME FailsWith(o, w, s) PROVE Done
  BY <1>b, FailIsTidy
<1>c. ASSUME c.op \in {"add", "remove", "SET", "LISTEN"}
      PROVE  \/ s.tx = "open" /\ Runs(o, w, Working(s, c))
             \/ s.tx = "idle" /\ o.res = "ok" /\ Now(o.w, w, Alone(s, c), Applied(w.stored, {c}))
             \/ FailsWith(o, w, s)
  <2>1. IsWorld(w) /\ w.session.tx \in {"idle", "open", "failed"}
    BY <1>0
  <2> HIDE DEF Done
  <2> QED BY ONLY <1>c, <2>1, ItemRuns, o \in Executes(w, c)
<1>1. CASE c = Run("ROLLBACK")
  <2>1. SameSets(Idling(s, s.set), s)
    BY <1>0, SetsStay
  <2> QED BY <1>0, <1>1, <1>a, <2>1, RollbackRuns, FreshIsTidy
<1>2. CASE c = Run("BEGIN")
  <2>1. CASE s.tx = "failed"
    <3>1. o = Outcome([w EXCEPT !.session = Failed(w.session)], "sql")
      BY <1>2, <2>1, OpIs DEF Executes, Failed
    <3> QED BY <1>0, <1>b, <3>1, ItFails
  <2> QED BY <1>0, <1>2, <1>a, <2>1, BeginRuns, TidyStays, SetsStay
<1>3. CASE c = Run("SAVEPOINT")
  BY <1>0, <1>3, <1>a, <1>b, SavepointRuns, TidyStays, SetsStay
<1>4. CASE c = Run("ROLLBACK TO")
  BY <1>0, <1>4, <1>a, <1>b, ReturnRuns, TidyStays, SetsStay, ZenonT(60)
<1>5. CASE c = Run("RELEASE")
  BY <1>0, <1>5, <1>a, <1>b, ReleaseRuns, TidyStays, SetsStay
<1>6. CASE c = Run("query")
  BY <1>0, <1>6, <1>a, <1>b, QueryRuns, SetsStay
<1>7. CASE Own(c, n) /\ s.tx # "idle"
  <2>1. c.op \in {"SET", "add", "remove"}
    BY <1>7, OwnIs
  <2>2. Tidy(Working(s, c), n) /\ SameSets(Working(s, c), s)
    BY <1>0, <1>7, TidyStays, SetsStay
  <2> QED BY <1>7, <1>a, <1>b, <1>c, <2>1, <2>2
<1>8. CASE /\ ~(Own(c, n) /\ s.tx # "idle")
           /\ \/ c \in {Deleted(Statement(n, 0)), Add(Statement(n, 0))}
              \/ c = Add(LogTable) /\ s.tx # "open"
  <2>1. c \in {Deleted(Statement(n, 0)), Add(Statement(n, 0)), Add(LogTable)} /\ s.tx # "open"
    BY <1>8, BoundsAssumption DEF Own
  <2>2. c.op \in {"add", "remove"}
    BY <2>1, OpIs
  <2>3. \/ Now(o.w, w, Alone(s, c), Applied(w.stored, {c}))
        \/ FailsWith(o, w, s)
    BY <1>c, <2>1, <2>2
  <2>4. CASE Now(o.w, w, Alone(s, c), Applied(w.stored, {c}))
    <3>1. /\ SameBut(Applied(w.stored, {c}), w.stored, n) /\ LogTable \in Applied(w.stored, {c})
          /\ Tidy(Alone(s, c), n) /\ SameSets(Alone(s, c), s)
      BY <1>0, <2>1, AloneIs
    <3> QED BY <1>0, <2>4, <3>1 DEF Basic, Tidy, Now, Similar, Linked, is_open, SameSets
  <2> QED BY <1>b, <2>3, <2>4
<1> QED BY <1>1, <1>2, <1>3, <1>4, <1>5, <1>6, <1>7, <1>8 DEF Fits

LEMMA ArrivesBasic ==
    ASSUME NEW w, NEW n, Basic(w, n), NEW retry \in BOOLEAN, NEW v, Arrives(v, w, retry)
    PROVE  Basic(v, n) /\ v.stored = w.stored /\ is_open(v) /\ Similar(v, w)
<1>1. CASE v = w
  BY <1>1 DEF Arrives, Basic, Linked, Similar
<1>2. CASE Renewed(v, w)
  <2>1. Linked(v) /\ is_open(v) /\ Similar(v, w)
    BY <1>2, RenewedIsLinked
  <2>2. v.stored = w.stored /\ v.session.set = v.settings \ v.session.lost
    BY <1>2 DEF Renewed
  <2>3. Tidy(v.session, n)
    BY <1>2 DEF Renewed, Similar, IsWorld, Session, Tidy
  <2> QED BY <2>1, <2>2, <2>3 DEF Basic
<1> QED BY <1>1, <1>2 DEF Arrives

LEMMA GoneBasic ==
    ASSUME NEW w, NEW n, Basic(w, n), NEW v, Gone(v, w), LogTable \in v.stored
    PROVE  Basic(v, n)
<1>1. Linked(v) /\ v.conn # "ok"
  BY GoneIsLinked
<1>2. v.session = Fresh
  BY DEF Gone
<1> QED BY <1>1, <1>2, FreshIsTidy DEF Basic

\* The commands that need the session of their transaction.
Fitting(c, w, n, retry) ==
    /\ Fits(c, w, n)
    /\ w.conn = "none" \/ retry => Fits(c, [session |-> Fresh], n)

LEMMA ExecKeeps ==
    ASSUME NEW w, NEW n, Basic(w, n), LogTable # Statement(n, 0), NEW retry \in BOOLEAN,
           NEW c, Fitting(c, w, n, retry), NEW o \in exec(w, c, retry)
    PROVE  /\ Basic(o.w, n) /\ SameBut(o.w.stored, w.stored, n) /\ Similar(o.w, w)
           /\ o.res \in {"ok", "sql", "broken"} /\ (o.res = "broken" <=> ~is_open(o.w))
<1>0. Command(c) /\ Linked(w)
  BY FitsIsCommand DEF Fitting, Basic
<1>1. ASSUME NEW v, Arrives(v, w, retry), NEW e \in Executes(v, c)
      PROVE  Basic(e.w, n) /\ SameBut(e.w.stored, w.stored, n)
  <2>1. Basic(v, n) /\ v.stored = w.stored /\ is_open(v)
    BY <1>1, ArrivesBasic
  <2>2. Fits(c, v, n)
    <3>1. CASE v = w
      BY <3>1 DEF Fitting
    <3>2. CASE Renewed(v, w) /\ (w.conn = "none" \/ retry)
      <4>1. v.session.tx = "idle" /\ Fits(c, [session |-> Fresh], n)
        BY <3>2 DEF Renewed, Fitting
      <4> QED BY <4>1, FreshIs DEF Fits
    <3> QED BY <1>1, <3>1, <3>2 DEF Arrives
  <2> QED BY <1>1, <2>1, <2>2, ServerKeeps
<1>2. ASSUME Breaks(o, w, retry), SameBut(o.w.stored, w.stored, n), LogTable \in o.w.stored
      PROVE  /\ Basic(o.w, n) /\ Similar(o.w, w) /\ ~is_open(o.w) /\ o.res = "broken"
  BY <1>2, GoneBasic, GoneIsLinked DEF Breaks
<1>3. CASE \E v : Arrives(v, w, retry) /\ Linked(v) /\ o \in Executes(v, c) /\ Answers(o, v)
  <2>1. PICK v : Arrives(v, w, retry) /\ Linked(v) /\ o \in Executes(v, c) /\ Answers(o, v)
    BY <1>3
  <2>2. Basic(o.w, n) /\ SameBut(o.w.stored, w.stored, n)
    BY <1>1, <2>1
  <2>3. is_open(o.w) /\ o.res \in {"ok", "sql"} /\ Similar(o.w, w)
    BY <2>1, AnswersAreLinked, ArrivesBasic DEF Answers, Similar
  <2> QED BY <2>2, <2>3
<1>4. CASE Breaks(o, w, retry) /\ o.w.stored = w.stored
  BY <1>2, <1>4 DEF SameBut, Basic
<1>5. CASE /\ Breaks(o, w, retry)
           /\ \E v : Arrives(v, w, retry) /\ Linked(v) /\ \E e \in Executes(v, c) : o.w.stored = e.w.stored
  <2>1. SameBut(o.w.stored, w.stored, n) /\ LogTable \in o.w.stored
    BY <1>1, <1>5 DEF Basic
  <2> QED BY <1>2, <1>5, <2>1
<1> QED BY <1>0, <1>3, <1>4, <1>5, ExecIs

-----------------------------------------------------------------------------
(* Transactions: what leaves their objects alone *)

Number(n) == n \in Nat \ {0}

LEMMA RecordIsNotLogTable == \A n : Number(n) => LogTable # Statement(n, 0)
  BY DEF Number, LogTable, Statement

Keeps(v, w, n) == Basic(v, n) /\ SameBut(v.stored, w.stored, n) /\ Similar(v, w)

LEMMA KeepsItself == \A w, n : Basic(w, n) => Keeps(w, w, n)
  BY DEF Keeps, SameBut, Basic, Linked, Similar

LEMMA KeepsOn == \A u, v, w, n : Keeps(v, w, n) /\ Keeps(u, v, n) => Keeps(u, w, n)
  BY DEF Keeps, SameBut, Similar

LEMMA DirectIs ==
    ASSUME NEW w, w.trans.pending = FALSE, NEW c, NEW retry, NEW o \in direct_exec(w, c, retry)
    PROVE  o \in exec(w, c, retry)
<1>1. CheckPendingError(w) = {Outcome(w, "ok")}
  BY DEF CheckPendingError
<1>2. \A p \in {Outcome(w, "ok")} : p.w = w /\ p.res = "ok"
  BY OutcomeIs
<1> QED BY <1>1, <1>2 DEF direct_exec, Then, Threw, Succeeded

LEMMA DirectKeeps ==
    ASSUME NEW w, NEW n, Basic(w, n), Number(n), w.trans.pending = FALSE, NEW retry \in BOOLEAN,
           NEW c, Fitting(c, w, n, retry), NEW o \in direct_exec(w, c, retry)
    PROVE  /\ Keeps(o.w, w, n) /\ o.res \in {"ok", "sql", "broken"}
           /\ o.res = "broken" <=> ~is_open(o.w)
<1>1. o \in exec(w, c, retry) /\ LogTable # Statement(n, 0)
  BY DirectIs, RecordIsNotLogTable
<1>2. /\ Basic(o.w, n) /\ SameBut(o.w.stored, w.stored, n) /\ Similar(o.w, w)
      /\ o.res \in {"ok", "sql", "broken"} /\ (o.res = "broken" <=> ~is_open(o.w))
  BY <1>1, ExecKeeps
<1> QED BY <1>2 DEF Keeps

\* After ROLLBACK, or any failure of it, nothing is open.
LEMMA RollbackIs ==
    ASSUME NEW w, NEW n, Basic(w, n), Number(n), w.trans.pending = FALSE, NEW o \in rollback(w)
    PROVE  /\ Keeps(o.w, w, n) /\ o.w.session.tx = "idle"
           /\ o.res \in {"ok", "broken"} /\ (o.res = "broken" <=> ~is_open(o.w))
<1>1. o \in exec(w, Run("ROLLBACK"), FALSE)
  BY DirectIs DEF rollback
<1>2. Fitting(Run("ROLLBACK"), w, n, FALSE) /\ Command(Run("ROLLBACK"))
  BY FitsIsCommand DEF Fitting, Fits
<1>3. Keeps(o.w, w, n) /\ o.res \in {"ok", "sql", "broken"} /\ (o.res = "broken" <=> ~is_open(o.w))
  BY <1>2, DirectKeeps DEF rollback
<1>4. \/ \E v : Linked(v) /\ o \in Executes(v, Run("ROLLBACK"))
      \/ Breaks(o, w, FALSE)
  BY <1>1, <1>2, ExecIs DEF Basic
<1>5. CASE \E v : Linked(v) /\ o \in Executes(v, Run("ROLLBACK"))
  <2>1. PICK v : Linked(v) /\ o \in Executes(v, Run("ROLLBACK"))
    BY <1>5
  <2>2. Runs(o, v, Idling(v.session, v.session.set))
    BY <2>1, RollbackRuns DEF Linked
  <2> QED BY <1>3, <2>2 DEF Runs, Now, Idling, Fresh
<1>6. CASE Breaks(o, w, FALSE)
  BY <1>3, <1>6, FreshIs DEF Breaks, Gone
<1> QED BY <1>4, <1>5, <1>6

\* The commands of a robust transaction on the log, outside of the transaction.
Recording(c, n) == c \in {Run("query"), Deleted(Statement(n, 0)), Add(Statement(n, 0)), Add(LogTable)}

LEMMA RecordingIs ==
    \A n : /\ Recording(Run("query"), n) /\ Recording(Deleted(Statement(n, 0)), n)
           /\ Recording(Add(Statement(n, 0)), n) /\ Recording(Add(LogTable), n)
  BY DEF Recording

\* Commands outside of a transaction leave none open.
LEMMA IdleStays ==
    ASSUME NEW w, NEW n, Basic(w, n), Number(n), w.session.tx = "idle", w.trans.pending = FALSE,
           NEW retry \in BOOLEAN,
           NEW c, Recording(c, n), NEW o \in direct_exec(w, c, retry)
    PROVE  /\ Keeps(o.w, w, n) /\ o.w.session.tx = "idle"
           /\ o.res \in {"ok", "sql", "broken"} /\ (o.res = "broken" <=> ~is_open(o.w))
<1>1. o \in exec(w, c, retry)
  BY DirectIs
<1>2. Fitting(c, w, n, retry) /\ Command(c)
  <2>1. Fresh.tx = "idle"
    BY FreshIs
  <2> QED BY <2>1, FitsIsCommand DEF Fitting, Fits, Recording
<1>3. Keeps(o.w, w, n) /\ o.res \in {"ok", "sql", "broken"} /\ (o.res = "broken" <=> ~is_open(o.w))
  BY <1>2, DirectKeeps
<1>4. \/ \E v : Arrives(v, w, retry) /\ Linked(v) /\ o \in Executes(v, c)
      \/ Breaks(o, w, retry)
  BY <1>1, <1>2, ExecIs DEF Basic
<1>5. CASE \E v : Arrives(v, w, retry) /\ Linked(v) /\ o \in Executes(v, c)
  <2>1. PICK v : Arrives(v, w, retry) /\ Linked(v) /\ o \in Executes(v, c)
    BY <1>5
  <2>2. v.session.tx = "idle" /\ IsWorld(v) /\ Session(v.session)
    BY <2>1, SessionsOf DEF Arrives, Renewed
  <2>3. Failed(v.session).tx = "idle" /\ Alone(v.session, c).tx = "idle"
    BY <2>2 DEF Failed, Alone, Session
  <2>4. c.op \in {"add", "remove"} \/ c = Run("query")
    BY OpIs DEF Recording
  <2>5. \/ Runs(o, v, v.session)
        \/ FailsWith(o, v, v.session)
        \/ Now(o.w, v, Alone(v.session, c), Applied(v.stored, {c}))
    <3>1. CASE c = Run("query")
      BY <2>1, <2>2, <3>1, QueryRuns
    <3>2. CASE c.op \in {"add", "remove", "SET", "LISTEN"}
      <4>1. IsWorld(v) /\ v.session.tx \in {"idle", "open", "failed"} /\ o \in Executes(v, c)
        BY <2>1, <2>2
      <4>2. \/ v.session.tx = "open" /\ Runs(o, v, Working(v.session, c))
            \/ v.session.tx = "idle" /\ o.res = "ok" /\ Now(o.w, v, Alone(v.session, c), Applied(v.stored, {c}))
            \/ FailsWith(o, v, v.session)
        BY ONLY <3>2, <4>1, ItemRuns
      <4> QED BY <2>2, <4>2
    <3> QED BY <2>4, <3>1, <3>2
  <2> QED BY <1>3, <2>2, <2>3, <2>5 DEF Runs, FailsWith, Now
<1>6. CASE Breaks(o, w, retry)
  BY <1>3, <1>6, FreshIs DEF Breaks, Gone
<1> QED BY <1>4, <1>5, <1>6

LEMMA AppliedIs ==
    ASSUME NEW n, NEW db, NEW work, \A c \in work : Own(c, n)
    PROVE  /\ \A k \in 1 .. MaxStatements :
                 Statement(n, k) \in Applied(db, work) <=> Statement(n, k) \in db \/ Add(Statement(n, k)) \in work
           /\ \A i : (\A k : i # Statement(n, k)) => (i \in Applied(db, work) <=> i \in db)
           /\ Deleted(Statement(n, 0)) \in work => Statement(n, 0) \notin Applied(db, work)
           /\ work = {} => (Statement(n, 0) \in Applied(db, work) => Statement(n, 0) \in db)
<1>1. \A i : i \in Applied(db, work) <=>
                /\ i \in db \/ \E c \in work : c.op = "add" /\ c.item = i
                /\ ~ \E c \in work : c.op = "remove" /\ c.item = i
  BY DEF Applied, Items
<1>2. \A c \in work : \/ c.op = "SET"
                      \/ c.op = "remove" /\ c.item = Statement(n, 0)
                      \/ \E k \in 0 .. MaxStatements : c.op = "add" /\ c.item = Statement(n, k) /\ c = Add(Statement(n, k))
  BY OpIs DEF Own
<1>3. \A j, k : Statement(n, j) = Statement(n, k) => j = k
  BY DEF Statement
<1>4. ASSUME NEW k \in 1 .. MaxStatements
      PROVE  Statement(n, k) \in Applied(db, work) <=> Statement(n, k) \in db \/ Add(Statement(n, k)) \in work
  <2>1. Statement(n, k) # Statement(n, 0)
    BY <1>3, BoundsAssumption
  <2>2. ~ \E c \in work : c.op = "remove" /\ c.item = Statement(n, k)
    BY <1>2, <2>1
  <2>3. (\E c \in work : c.op = "add" /\ c.item = Statement(n, k)) <=> Add(Statement(n, k)) \in work
    BY <1>2, OpIs
  <2> QED BY <1>1, <2>2, <2>3
<1>5. ASSUME NEW i, \A k : i # Statement(n, k) PROVE i \in Applied(db, work) <=> i \in db
  BY <1>1, <1>2, <1>5
<1>6. Deleted(Statement(n, 0)) \in work => Statement(n, 0) \notin Applied(db, work)
  BY <1>1, OpIs
<1>7. work = {} => (Statement(n, 0) \in Applied(db, work) => Statement(n, 0) \in db)
  BY <1>1
<1> QED BY <1>4, <1>5, <1>6, <1>7

\* BEGIN, outside of a transaction.
LEMMA StartIs ==
    ASSUME NEW w, NEW n, Basic(w, n), Number(n), w.session.tx = "idle", w.trans.pending = FALSE,
           NEW o \in start(w)
    PROVE  /\ Keeps(o.w, w, n) /\ o.w.stored = w.stored
           /\ \/ o.res = "ok" /\ is_open(o.w) /\ o.w.session.tx = "open"
                 /\ o.w.session.work = {} /\ o.w.session.save = {}
              \/ o.res = "broken" /\ ~is_open(o.w) /\ o.w.session.tx = "idle"
<1>1. o \in exec(w, Run("BEGIN"), TRUE)
  BY DirectIs DEF start
<1>2. Fitting(Run("BEGIN"), w, n, TRUE) /\ Command(Run("BEGIN"))
  BY FitsIsCommand DEF Fitting, Fits
<1>3. Keeps(o.w, w, n) /\ (o.res = "broken" <=> ~is_open(o.w))
  BY <1>2, DirectKeeps DEF start
<1>4. ASSUME NEW v, Arrives(v, w, TRUE), NEW e \in Executes(v, Run("BEGIN"))
      PROVE  /\ e.w.stored = w.stored /\ e.res = "ok"
             /\ e.w.session.tx = "open" /\ e.w.session.work = {} /\ e.w.session.save = {}
  <2>1. Basic(v, n) /\ v.stored = w.stored
    BY <1>4, ArrivesBasic
  <2>2. v.session.tx = "idle" /\ IsWorld(v)
    BY <1>4 DEF Arrives, Renewed
  <2>3. v.session.work = {} /\ v.session.save = {} /\ Session(v.session)
    BY <2>1, <2>2 DEF Basic, Tidy
  <2>4. Runs(e, v, Opened(v.session))
    BY <1>4, <2>2, BeginRuns
  <2> QED BY <2>1, <2>3, <2>4 DEF Runs, Now, Opened, Session
<1>5. Linked(w)
  BY DEF Basic
<1>6. CASE Reaches(o, w, Run("BEGIN"), TRUE)
  BY <1>3, <1>4, <1>6 DEF Reaches
<1>7. CASE Undone(o, w, Run("BEGIN"), TRUE)
  <2>1. o.res = "broken" /\ o.w.session.tx = "idle"
    BY <1>7, FreshIs DEF Undone, Breaks, Gone
  <2>2. o.w.stored = w.stored
    BY <1>4, <1>7 DEF Undone
  <2> QED BY <1>3, <2>1, <2>2
<1> QED BY <1>1, <1>2, <1>5, <1>6, <1>7, ExecOutcome

\* With a log table, and no error on it, only the link can fail.
LEMMA OnLogIs ==
    ASSUME Mishaps = {}, NEW w, NEW n, Basic(w, n), Number(n), NEW c, NEW o \in OnLog(w, c)
    PROVE  o \in direct_exec(w, c, FALSE) /\ o.res # "sql"
<1>1. \A i \in w.session.work : Own(i, n)
  BY DEF Basic, Tidy
<1>2. \A k : LogTable # Statement(n, k)
  BY DEF Number, LogTable, Statement
<1>3. LogTable \in Applied(w.stored, w.session.work)
  <2>1. \A i : (\A k : i # Statement(n, k)) =>
              (i \in Applied(w.stored, w.session.work) <=> i \in w.stored)
    BY <1>1, AppliedIs
  <2> QED BY <1>2, <2>1 DEF Basic
<1> QED BY <1>3 DEF OnLog

-----------------------------------------------------------------------------
(* Beginning a transaction *)

\* Outside of a transaction, with nothing to report.
Quiet(w, n) == Basic(w, n) /\ w.session.tx = "idle" /\ w.trans.pending = FALSE

LEMMA QuietStays ==
    \A v, w, n : Keeps(v, w, n) /\ w.trans.pending = FALSE /\ v.session.tx = "idle" => Quiet(v, n)
  BY DEF Keeps, Similar, Quiet

LEMMA CreateTransactionRecordIs ==
    ASSUME Mishaps = {}, NEW w, NEW n, n = number, Number(n), Quiet(w, n),
           NEW o \in CreateTransactionRecord(w)
    PROVE  /\ Keeps(o.w, w, n) /\ Quiet(o.w, n) /\ o.res \in {"ok", "broken"}
           /\ o.res = "broken" <=> ~is_open(o.w)
<1>1. \/ o \in OnLog(w, Run("query"))
      \/ \E p \in OnLog(w, Run("query")) : p.res = "ok" /\ o \in OnLog(p.w, Add(Record))
  BY DEF CreateTransactionRecord, Then, Threw, Succeeded
<1>2. ASSUME NEW v, Quiet(v, n), NEW c \in {Run("query"), Add(Statement(n, 0))}, NEW p \in OnLog(v, c)
      PROVE  /\ Keeps(p.w, v, n) /\ Quiet(p.w, n) /\ p.res \in {"ok", "broken"}
             /\ p.res = "broken" <=> ~is_open(p.w)
  <2>1. p \in direct_exec(v, c, FALSE) /\ p.res # "sql"
    BY <1>2, OnLogIs DEF Quiet
  <2>2. /\ Keeps(p.w, v, n) /\ p.w.session.tx = "idle"
        /\ p.res \in {"ok", "sql", "broken"} /\ (p.res = "broken" <=> ~is_open(p.w))
    <3>1. Basic(v, n) /\ v.session.tx = "idle" /\ v.trans.pending = FALSE
      BY <1>2 DEF Quiet
    <3>2. Recording(c, n)
      BY RecordingIs
    <3> QED BY <2>1, <3>1, <3>2, IdleStays
  <2> QED BY <1>2, <2>1, <2>2, QuietStays DEF Quiet
<1>3. CASE o \in OnLog(w, Run("query"))
  BY <1>2, <1>3
<1>4. ASSUME NEW p \in OnLog(w, Run("query")), o \in OnLog(p.w, Add(Record))
      PROVE  /\ Keeps(o.w, w, n) /\ Quiet(o.w, n) /\ o.res \in {"ok", "broken"}
             /\ o.res = "broken" <=> ~is_open(o.w)
  <2>1. Keeps(p.w, w, n) /\ Quiet(p.w, n)
    BY <1>2
  <2>2. /\ Keeps(o.w, p.w, n) /\ Quiet(o.w, n) /\ o.res \in {"ok", "broken"}
        /\ o.res = "broken" <=> ~is_open(o.w)
    BY <1>2, <1>4, <2>1 DEF Record
  <2> QED BY <2>1, <2>2, KeepsOn
<1> QED BY <1>1, <1>3, <1>4

LEMMA CreateLogTableIs ==
    ASSUME NEW w, NEW n, Number(n), Quiet(w, n), NEW o \in CreateLogTable(w)
    PROVE  Keeps(o.w, w, n) /\ Quiet(o.w, n) /\ o.res = "ok"
<1>1. PICK p \in direct_exec(w, Add(LogTable), TRUE) : o = Outcome(p.w, "ok")
  BY DEF CreateLogTable, Quietly
<1>2. Keeps(p.w, w, n) /\ p.w.session.tx = "idle"
  BY <1>1, RecordingIs, IdleStays DEF Quiet
<1> QED BY <1>1, <1>2, OutcomeIs, QuietStays DEF Quiet

LEMMA StartingIs ==
    ASSUME NEW w, NEW n, Number(n), Quiet(w, n), NEW o \in start(w)
    PROVE  /\ Keeps(o.w, w, n) /\ o.w.stored = w.stored
           /\ \/ o.res = "ok" /\ is_open(o.w) /\ o.w.session.tx = "open"
                 /\ o.w.session.work = {} /\ o.w.session.save = {}
              \/ o.res = "broken" /\ ~is_open(o.w) /\ Quiet(o.w, n)
<1>1. /\ Keeps(o.w, w, n) /\ o.w.stored = w.stored
      /\ \/ o.res = "ok" /\ is_open(o.w) /\ o.w.session.tx = "open"
            /\ o.w.session.work = {} /\ o.w.session.save = {}
         \/ o.res = "broken" /\ ~is_open(o.w) /\ o.w.session.tx = "idle"
  BY StartIs DEF Quiet
<1> QED BY <1>1, QuietStays DEF Quiet

\* In a transaction that is about to begin, with its record written or deleted.
Opening(w, n) ==
    /\ Basic(w, n) /\ w.trans.pending = FALSE
    /\ is_open(w) /\ w.session.tx = "open" /\ w.session.save = {}
    /\ w.session.work \subseteq {Add(Statement(n, 0)), Deleted(Statement(n, 0))}

LEMMA StartOpens ==
    ASSUME NEW w, NEW n, Number(n), Quiet(w, n), NEW o \in start(w)
    PROVE  /\ Keeps(o.w, w, n) /\ o.w.stored = w.stored
           /\ \/ o.res = "ok" /\ Opening(o.w, n) /\ o.w.session.work = {}
              \/ o.res = "broken" /\ ~is_open(o.w) /\ Quiet(o.w, n)
  BY StartingIs DEF Opening, Keeps, Similar, Quiet

\* BEGIN once more.
LEMMA StartAgain ==
    ASSUME NEW w, NEW n, Number(n), Opening(w, n), NEW o \in start(w)
    PROVE  /\ Keeps(o.w, w, n)
           /\ \/ o.res = "ok" /\ Opening(o.w, n)
              \/ o.res = "broken" /\ ~is_open(o.w) /\ Quiet(o.w, n)
<1>1. o \in exec(w, Run("BEGIN"), TRUE)
  BY DirectIs DEF start, Opening
<1>2. Fitting(Run("BEGIN"), w, n, TRUE) /\ Command(Run("BEGIN"))
  BY FitsIsCommand DEF Fitting, Fits
<1>3. Keeps(o.w, w, n) /\ (o.res = "broken" <=> ~is_open(o.w))
  BY <1>2, DirectKeeps DEF start, Opening
<1>4. Linked(w)
  BY DEF Opening, Basic
<1>5. CASE Reaches(o, w, Run("BEGIN"), TRUE)
  <2>1. PICK v : Arrives(v, w, TRUE) /\ Linked(v) /\ o \in Executes(v, Run("BEGIN"))
    BY <1>5 DEF Reaches
  <2>2. /\ v.session.tx \in {"idle", "open"} /\ v.session.save = {} /\ Session(v.session)
        /\ v.session.work \subseteq {Add(Statement(n, 0)), Deleted(Statement(n, 0))}
        /\ v.trans.pending = FALSE /\ IsWorld(v)
    BY <2>1, SessionsOf DEF Arrives, Renewed, Similar, Opening
  <2>3. Runs(o, v, Opened(v.session))
    BY <2>1, <2>2, BeginRuns
  <2>4. /\ o.res = "ok" /\ o.w.session.tx = "open" /\ o.w.session.save = {}
        /\ o.w.session.work = v.session.work
    BY <2>2, <2>3 DEF Runs, Now, Opened, Session
  <2> QED BY <1>3, <2>2, <2>4 DEF Opening, Keeps, Similar
<1>6. CASE Undone(o, w, Run("BEGIN"), TRUE)
  <2>1. o.res = "broken" /\ o.w.session.tx = "idle"
    BY <1>6, FreshIs DEF Undone, Breaks, Gone
  <2> QED BY <1>3, <2>1, QuietStays DEF Opening
<1> QED BY <1>1, <1>2, <1>4, <1>5, <1>6, ExecOutcome

-----------------------------------------------------------------------------
(* Commands inside of a transaction *)

Fails(o, w) == o.res = "sql" /\ o.w.session = Failed(w.session)

\* What a command does that is no COMMIT and meets an open transaction.
Obeys(o, w, c) ==
    \/ Fails(o, w)
    \/ /\ o.res = "ok"
       /\ c = Run("query") => w.session.tx # "failed" /\ o.w.session = w.session
       /\ c = Run("SAVEPOINT") => w.session.tx = "open" /\ o.w.session = Marked(w.session)
       /\ c = Run("RELEASE") => w.session.tx = "open" /\ o.w.session = Unmarked(w.session)
       /\ c = Run("ROLLBACK TO") => w.session.save # {} /\ o.w.session = Returned(w.session)
       /\ c.op \in {"SET", "add", "remove"} => w.session.tx = "open" /\ o.w.session = Working(w.session, c)

LEMMA RunsDiffer ==
    LET ops == {"query", "SAVEPOINT", "RELEASE", "ROLLBACK TO"}
    IN  \A a, b \in ops : (Run(a) = Run(b) => a = b) /\ Run(a).op = a
  BY DEF Run

Inside(c, n) == c \in {Run(op) : op \in {"query", "SAVEPOINT", "RELEASE", "ROLLBACK TO"}} \/ Own(c, n)

LEMMA NowIs ==
    \A o, w, s : /\ Runs(o, w, s) => o.res = "ok" /\ o.w.session = s /\ o.w.stored = w.stored
                 /\ FailsWith(o, w, s) => o.res = "sql" /\ o.w.session = Failed(s) /\ o.w.stored = w.stored
  BY DEF Runs, FailsWith, Now

LEMMA ServerInside ==
    ASSUME NEW w, NEW n, Basic(w, n), w.session.tx # "idle", NEW c, Inside(c, n), NEW o \in Executes(w, c)
    PROVE  o.w.stored = w.stored /\ Obeys(o, w, c)
<1>1. IsWorld(w) /\ w.session.tx \in {"open", "failed"} /\ w.session.tx \in {"idle", "open", "failed"}
  BY DEF Basic, Linked
<1>a. /\ c = Run("query") => /\ c # Run("SAVEPOINT") /\ c # Run("RELEASE") /\ c # Run("ROLLBACK TO")
                             /\ c.op = "query"
      /\ c = Run("SAVEPOINT") => /\ c # Run("query") /\ c # Run("RELEASE") /\ c # Run("ROLLBACK TO")
                                 /\ c.op = "SAVEPOINT"
      /\ c = Run("RELEASE") => /\ c # Run("SAVEPOINT") /\ c # Run("query") /\ c # Run("ROLLBACK TO")
                               /\ c.op = "RELEASE"
      /\ c = Run("ROLLBACK TO") => /\ c # Run("SAVEPOINT") /\ c # Run("RELEASE") /\ c # Run("query")
                                   /\ c.op = "ROLLBACK TO"
  BY RunsDiffer
<1>2. CASE c = Run("query")
  <2>1. \/ w.session.tx # "failed" /\ Runs(o, w, w.session)
        \/ FailsWith(o, w, w.session)
    BY <1>1, <1>2, QueryRuns
  <2> QED BY <1>2, <1>a, <2>1, NowIs DEF Obeys, Fails
<1>3. CASE c = Run("SAVEPOINT")
  <2>1. \/ w.session.tx = "open" /\ Runs(o, w, Marked(w.session))
        \/ FailsWith(o, w, w.session)
    BY <1>1, <1>3, SavepointRuns
  <2> QED BY <1>3, <1>a, <2>1, NowIs DEF Obeys, Fails
<1>4. CASE c = Run("RELEASE")
  <2>1. \/ w.session.tx = "open" /\ Runs(o, w, Unmarked(w.session))
        \/ FailsWith(o, w, w.session)
    BY <1>1, <1>4, ReleaseRuns
  <2> QED BY <1>4, <1>a, <2>1, NowIs DEF Obeys, Fails
<1>5. CASE c = Run("ROLLBACK TO")
  <2>1. \/ w.session.save # {} /\ Runs(o, w, Returned(w.session))
        \/ w.session.save = {} /\ FailsWith(o, w, w.session)
    BY <1>1, <1>5, ReturnRuns
  <2> QED BY <1>5, <1>a, <2>1, NowIs DEF Obeys, Fails
<1>6. CASE Own(c, n)
  <2>1. c.op \in {"add", "remove", "SET", "LISTEN"} /\ c.op \in {"SET", "add", "remove"}
    BY <1>6, OwnIs
  <2>2. \/ w.session.tx = "open" /\ Runs(o, w, Working(w.session, c))
        \/ w.session.tx = "idle" /\ o.res = "ok" /\ Now(o.w, w, Alone(w.session, c), Applied(w.stored, {c}))
        \/ FailsWith(o, w, w.session)
    BY ONLY <1>1, <2>1, o \in Executes(w, c), ItemRuns
  <2>3. /\ c # Run("query") /\ c # Run("SAVEPOINT") /\ c # Run("RELEASE") /\ c # Run("ROLLBACK TO")
    BY <2>1, OpIs
  <2> QED BY <1>1, <2>2, <2>3, NowIs DEF Obeys, Fails
<1> QED BY <1>2, <1>3, <1>4, <1>5, <1>6 DEF Inside

InTransaction(w) == w.conn # "none" /\ (is_open(w) => w.session.tx # "idle")

LEMMA InsideFits ==
    ASSUME NEW w, NEW n, Basic(w, n), InTransaction(w), NEW c, Inside(c, n)
    PROVE  /\ Command(c)
           /\ is_open(w) => Fitting(c, w, n, FALSE)
<1>1. Command(c)
  BY OpIs, OwnIs, ZenonT(60) DEF Inside, Command, Commands
<1>2. is_open(w) => Fits(c, w, n)
  BY DEF Inside, Fits, InTransaction
<1> QED BY <1>1, <1>2 DEF Fitting, InTransaction

LEMMA BrokenKeeps ==
    ASSUME NEW w, NEW n, Basic(w, n), NEW v, Gone(v, w), v.stored = w.stored
    PROVE  Keeps(v, w, n) /\ ~is_open(v) /\ v.session = Fresh /\ v.session.tx = "idle"
<1>1. Basic(v, n)
  BY GoneBasic DEF Basic
<1>2. Similar(v, w) /\ ~is_open(v)
  BY GoneIsLinked
<1> QED BY <1>1, <1>2, FreshIs DEF Keeps, SameBut, Gone

LEMMA ExecInside ==
    ASSUME NEW w, NEW n, Basic(w, n), Number(n), InTransaction(w), NEW c, Inside(c, n),
           NEW o \in exec(w, c, FALSE)
    PROVE  /\ Keeps(o.w, w, n) /\ o.w.stored = w.stored
           /\ \/ is_open(w) /\ is_open(o.w) /\ Obeys(o, w, c) /\ o.w.settings = w.settings
              \/ /\ o.res = "broken" /\ ~is_open(o.w) /\ o.w.session = Fresh
                 /\ is_open(w) => o.w.conn = "bad"
<1>1. Command(c) /\ (is_open(w) => Fitting(c, w, n, FALSE)) /\ Linked(w)
  BY InsideFits DEF Basic
<1>2. ASSUME NEW v, Arrives(v, w, FALSE) PROVE v = w /\ is_open(w) /\ w.session.tx # "idle"
  BY <1>2 DEF Arrives, InTransaction
<1>3. CASE Reaches(o, w, c, FALSE)
  <2>1. o \in Executes(w, c) /\ is_open(w) /\ w.session.tx # "idle"
    BY <1>2, <1>3 DEF Reaches
  <2>2. LogTable # Statement(n, 0) /\ Fits(c, w, n) /\ IsWorld(w) /\ w.session.tx \in {"idle", "open", "failed"}
    BY <1>1, <2>1, RecordIsNotLogTable DEF Fitting, Linked
  <2>3. Basic(o.w, n) /\ SameBut(o.w.stored, w.stored, n) /\ Answers(o, w)
    BY <1>1, <2>1, <2>2, ServerKeeps, ServerAnswers
  <2>4. o.w.stored = w.stored /\ Obeys(o, w, c)
    BY <2>1, ServerInside
  <2> QED BY <1>1, <2>1, <2>3, <2>4, AnswersAreLinked DEF Keeps, Answers
<1>4. CASE Undone(o, w, c, FALSE)
  <2>1. o.w.stored = w.stored
    BY <1>2, <1>4, ServerInside DEF Undone
  <2> QED BY <1>4, <2>1, BrokenKeeps DEF Undone, Breaks
<1> QED BY <1>1, <1>3, <1>4, ExecOutcome

LEMMA PQexecInside ==
    ASSUME NEW w, NEW n, Basic(w, n), Number(n), InTransaction(w), NEW c, Inside(c, n),
           NEW o \in exec_params(w, c)
    PROVE  /\ Keeps(o.w, w, n) /\ o.w.stored = w.stored
           /\ \/ is_open(w) /\ is_open(o.w) /\ Obeys(o, w, c)
              \/ o.res = "broken" /\ ~is_open(o.w) /\ o.w.conn = "bad" /\ o.w.session = Fresh
<1>1. Command(c) /\ (is_open(w) => Fitting(c, w, n, FALSE)) /\ Linked(w)
  BY InsideFits DEF Basic
<1>2. PICK p \in PQexec(w, c) : /\ o.w = p.w /\ (p.res # "lost" => o = p)
                               /\ (p.res = "lost" => o.res = "broken")
  <2>1. \/ o \in PQexec(w, c) /\ o.res # "lost"
        \/ \E p \in PQexec(w, c) : p.res = "lost" /\ o = Outcome(p.w, "broken")
    BY CheckedIs DEF exec_params
  <2> QED BY <2>1, OutcomeIs
<1>3. CASE ~is_open(w) /\ p.w = w /\ p.res = "lost"
  <2>1. Gone(w, w) /\ w.conn = "bad"
    BY <1>1, <1>3, StaysGone DEF Linked, is_open, InTransaction
  <2> QED BY <1>2, <1>3, <2>1, BrokenKeeps
<1>4. CASE is_open(w) /\ p \in Executes(w, c)
  <2>1. p \in Executes(w, c) /\ is_open(w) /\ w.session.tx # "idle"
    BY <1>4 DEF InTransaction
  <2>2. LogTable # Statement(n, 0) /\ Fits(c, w, n) /\ IsWorld(w) /\ w.session.tx \in {"idle", "open", "failed"}
    BY <1>1, <2>1, RecordIsNotLogTable DEF Fitting, Linked
  <2>3. Basic(p.w, n) /\ SameBut(p.w.stored, w.stored, n) /\ Answers(p, w)
    BY <1>1, <2>1, <2>2, ServerKeeps, ServerAnswers
  <2>4. p.w.stored = w.stored /\ Obeys(p, w, c)
    BY <2>1, ServerInside
  <2>5. o = p /\ is_open(p.w)
    BY <1>1, <1>2, <2>1, <2>3, AnswersAreLinked DEF Answers
  <2> QED BY <2>1, <2>3, <2>4, <2>5 DEF Keeps, Answers
<1>5. CASE is_open(w) /\ Lost(p, w, c)
  <2>1. p.w.stored = w.stored
    BY <1>5, ServerInside DEF Lost, InTransaction
  <2>2. Gone(p.w, w) /\ p.w.conn = "bad" /\ o.res = "broken"
    BY <1>2, <1>5 DEF Lost
  <2> QED BY <1>2, <2>1, <2>2, BrokenKeeps
<1> QED BY <1>1, <1>3, <1>4, <1>5, PQexecIs

LEMMA OwnRecord ==
    \A n : /\ Own(Add(Statement(n, 0)), n) /\ Own(Deleted(Statement(n, 0)), n)
           /\ Own(Run("SET"), n) /\ Inside(Run("query"), n)
           /\ \A k \in 1 .. MaxStatements : Own(Add(Statement(n, k)), n)
<1>1. 0 \in 0 .. MaxStatements /\ \A k \in 1 .. MaxStatements : k \in 0 .. MaxStatements
  BY BoundsAssumption
<1> QED BY <1>1 DEF Own, Inside

LEMMA OpsDiffer ==
    \A i : /\ Run("query") # Add(i) /\ Run("query") # Deleted(i)
           /\ Add(i).op = "add" /\ Deleted(i).op = "remove"
<1>1. \A i : Run("query").op = "query" /\ Add(i).op = "add" /\ Deleted(i).op = "remove"
  BY OpIs
<1> QED BY <1>1

LEMMA OnLogOpens ==
    ASSUME Mishaps = {}, NEW w, NEW n, Number(n), Opening(w, n),
           NEW c \in {Run("query"), Add(Statement(n, 0)), Deleted(Statement(n, 0))}, NEW o \in OnLog(w, c)
    PROVE  /\ Keeps(o.w, w, n)
           /\ \/ /\ o.res = "ok" /\ Opening(o.w, n) /\ w.session.work \subseteq o.w.session.work
                 /\ c = Deleted(Statement(n, 0)) => c \in o.w.session.work
              \/ o.res = "broken" /\ ~is_open(o.w) /\ Quiet(o.w, n)
<1>1. o \in exec(w, c, FALSE) /\ o.res # "sql" /\ Basic(w, n)
  BY OnLogIs, DirectIs DEF Opening
<1>2. Inside(c, n) /\ InTransaction(w)
  <2>1. Inside(c, n)
    BY OwnRecord DEF Inside
  <2> QED BY <2>1 DEF Opening, InTransaction, is_open
<1>3. /\ Keeps(o.w, w, n)
      /\ \/ is_open(w) /\ is_open(o.w) /\ Obeys(o, w, c)
         \/ o.res = "broken" /\ ~is_open(o.w) /\ o.w.session = Fresh
  BY <1>1, <1>2, ExecInside
<1>4. CASE is_open(o.w) /\ Obeys(o, w, c)
  <2>1. Session(w.session) /\ w.trans.pending = FALSE /\ o.w.trans = w.trans
    BY <1>1, <1>3 DEF Opening, Basic, Tidy, Keeps, Similar
  <2>2. CASE c = Run("query")
    <3>1. o.res = "ok" /\ o.w.session = w.session /\ c # Deleted(Statement(n, 0))
      BY <1>1, <1>4, <2>2, OpsDiffer DEF Obeys, Fails
    <3> QED BY <1>3, <1>4, <2>1, <3>1 DEF Opening, Keeps
  <2>3. CASE c \in {Add(Statement(n, 0)), Deleted(Statement(n, 0))}
    <3>1. o.res = "ok" /\ o.w.session = Working(w.session, c)
      BY <1>1, <1>4, <2>3, OpsDiffer DEF Obeys, Fails
    <3>2. /\ o.w.session.tx = w.session.tx /\ o.w.session.save = w.session.save
          /\ o.w.session.work = w.session.work \cup {c}
      BY <2>1, <3>1 DEF Working, Session
    <3> QED BY <1>3, <1>4, <2>1, <2>3, <3>1, <3>2 DEF Opening, Keeps
  <2> QED BY <2>2, <2>3
<1>5. CASE o.res = "broken" /\ ~is_open(o.w) /\ o.w.session = Fresh
  BY <1>3, <1>5, FreshIs, QuietStays DEF Opening
<1> QED BY <1>3, <1>4, <1>5

\* The record written inside of the transaction.
LEMMA RecordOpens ==
    ASSUME Mishaps = {}, NEW w, NEW n, n = number, Number(n), Opening(w, n),
           NEW o \in CreateTransactionRecord(w)
    PROVE  /\ Keeps(o.w, w, n)
           /\ \/ o.res = "ok" /\ Opening(o.w, n)
              \/ o.res = "broken" /\ ~is_open(o.w) /\ Quiet(o.w, n)
<1>1. \/ o \in OnLog(w, Run("query")) /\ o.res # "ok"
      \/ \E p \in OnLog(w, Run("query")) : p.res = "ok" /\ o \in OnLog(p.w, Add(Statement(n, 0)))
  BY DEF CreateTransactionRecord, Then, Threw, Succeeded, Record
<1>2. CASE o \in OnLog(w, Run("query")) /\ o.res # "ok"
  BY <1>2, OnLogOpens
<1>3. ASSUME NEW p \in OnLog(w, Run("query")), p.res = "ok", o \in OnLog(p.w, Add(Statement(n, 0)))
      PROVE  /\ Keeps(o.w, w, n)
             /\ \/ o.res = "ok" /\ Opening(o.w, n)
                \/ o.res = "broken" /\ ~is_open(o.w) /\ Quiet(o.w, n)
  <2>1. Keeps(p.w, w, n) /\ Opening(p.w, n)
    BY <1>3, OnLogOpens
  <2>2. /\ Keeps(o.w, p.w, n)
        /\ \/ o.res = "ok" /\ Opening(o.w, n)
           \/ o.res = "broken" /\ ~is_open(o.w) /\ Quiet(o.w, n)
    BY <1>3, <2>1, OnLogOpens
  <2> QED BY <2>1, <2>2, KeepsOn
<1> QED BY <1>1, <1>2, <1>3

Begun(o, w, n) ==
    /\ Keeps(o.w, w, n)
    /\ \/ o.res = "ok" /\ Opening(o.w, n)
       \/ o.res = "broken" /\ ~is_open(o.w) /\ Quiet(o.w, n)

Readied(o, w, n) ==
    /\ Keeps(o.w, w, n)
    /\ \/ o.res = "ok" /\ (Opening(o.w, n) \/ Quiet(o.w, n))
       \/ o.res = "broken" /\ ~is_open(o.w) /\ Quiet(o.w, n)

LEMMA BegunOn ==
    \A o, v, w, n : Keeps(v, w, n) /\ Begun(o, v, n) => Begun(o, w, n)
  BY KeepsOn DEF Begun

LEMMA FirstUseIs ==
    ASSUME Mishaps = {}, NEW w, NEW n, n = number, Number(n), Quiet(w, n),
           NEW o \in Quietly(rollback(w), LAMBDA v :
                     Then(CreateLogTable(v), LAMBDA u :
                     Then(start(u), CreateTransactionRecord)))
    PROVE  Begun(o, w, n)
<1>1. PICK r \in rollback(w) : o \in Then(CreateLogTable(r.w), LAMBDA u : Then(start(u), CreateTransactionRecord))
  BY DEF Quietly
<1>2. Keeps(r.w, w, n) /\ Quiet(r.w, n)
  BY RollbackIs, QuietStays DEF Quiet
<1>3. \A p \in CreateLogTable(r.w) : Keeps(p.w, r.w, n) /\ Quiet(p.w, n) /\ p.res = "ok"
  BY <1>2, CreateLogTableIs
<1>4. PICK p \in CreateLogTable(r.w) : o \in Then(start(p.w), CreateTransactionRecord)
  BY <1>1, <1>3 DEF Then, Threw, Succeeded
<1>5. \/ o \in start(p.w) /\ o.res # "ok"
      \/ \E s \in start(p.w) : s.res = "ok" /\ o \in CreateTransactionRecord(s.w)
  BY <1>4 DEF Then, Threw, Succeeded
<1>6. CASE o \in start(p.w) /\ o.res # "ok"
  <2>1. Begun(o, p.w, n)
    BY <1>3, <1>6, StartOpens DEF Begun
  <2> QED BY <1>2, <1>3, <2>1, BegunOn
<1>7. ASSUME NEW s \in start(p.w), s.res = "ok", o \in CreateTransactionRecord(s.w)
      PROVE  Begun(o, w, n)
  <2>1. Keeps(s.w, p.w, n) /\ Opening(s.w, n)
    BY <1>3, <1>7, StartOpens
  <2>2. Begun(o, s.w, n)
    BY <1>7, <2>1, RecordOpens DEF Begun
  <2> QED BY <1>2, <1>3, <2>1, <2>2, BegunOn
<1> QED BY <1>5, <1>6, <1>7

LEMMA RobustBegins ==
    ASSUME Mishaps = {}, NEW w, NEW n, n = number, Number(n), Quiet(w, n), NEW o \in robust_begin(w)
    PROVE  Begun(o, w, n) /\ (o.res = "ok" => Deleted(Statement(n, 0)) \in o.w.session.work)
<1> DEFINE Done(p, v) == Begun(p, v, n) /\ (p.res = "ok" => Deleted(Statement(n, 0)) \in p.w.session.work)
           firstUse(p) == Quietly(rollback(p.w), LAMBDA v :
                          Then(CreateLogTable(v), LAMBDA u : Then(start(u), CreateTransactionRecord)))
           readied == Catch(CreateTransactionRecord(w), firstUse)
           deleting(u) == Then(OnLog(u, Deleted(Record)), LAMBDA t : OnLog(t, Run("query")))
           beginning(v) == Then(start(v), deleting)
<1>1. ASSUME NEW p \in readied PROVE Readied(p, w, n)
  <2>1. \/ p \in CreateTransactionRecord(w) /\ p.res = "ok"
        \/ \E r \in CreateTransactionRecord(w) : p \in firstUse(r)
    BY <1>1 DEF Catch, Threw, Succeeded
  <2>2. CASE p \in CreateTransactionRecord(w) /\ p.res = "ok"
    BY <2>2, CreateTransactionRecordIs DEF Readied
  <2>3. ASSUME NEW r \in CreateTransactionRecord(w), p \in firstUse(r) PROVE Readied(p, w, n)
    <3>1. Keeps(r.w, w, n) /\ Quiet(r.w, n)
      BY CreateTransactionRecordIs
    <3>2. Begun(p, r.w, n)
      BY <2>3, <3>1, FirstUseIs
    <3> QED BY <3>1, <3>2, KeepsOn DEF Begun, Readied
  <2> QED BY <2>1, <2>2, <2>3
<1>2. ASSUME NEW v, Opening(v, n), NEW p \in deleting(v) PROVE Done(p, v)
  <2>1. \/ p \in OnLog(v, Deleted(Statement(n, 0))) /\ p.res # "ok"
        \/ \E r \in OnLog(v, Deleted(Statement(n, 0))) : r.res = "ok" /\ p \in OnLog(r.w, Run("query"))
    BY <1>2 DEF Then, Threw, Succeeded, Record
  <2>2. CASE p \in OnLog(v, Deleted(Statement(n, 0))) /\ p.res # "ok"
    BY <1>2, <2>2, OnLogOpens DEF Begun
  <2>3. ASSUME NEW r \in OnLog(v, Deleted(Statement(n, 0))), r.res = "ok", p \in OnLog(r.w, Run("query"))
        PROVE  Done(p, v)
    <3>1. Keeps(r.w, v, n) /\ Opening(r.w, n) /\ Deleted(Statement(n, 0)) \in r.w.session.work
      BY <1>2, <2>3, OnLogOpens
    <3>2. Done(p, r.w)
      BY <2>3, <3>1, OnLogOpens DEF Begun
    <3> QED BY <3>1, <3>2, BegunOn
  <2> QED BY <2>1, <2>2, <2>3
<1>3. ASSUME NEW v, Opening(v, n) \/ Quiet(v, n), NEW p \in beginning(v) PROVE Done(p, v)
  <2> HIDE DEF deleting
  <2>1. \/ p \in start(v) /\ p.res # "ok"
        \/ \E r \in start(v) : r.res = "ok" /\ p \in deleting(r.w)
    BY <1>3 DEF Then, Threw, Succeeded
  <2>2. \A r \in start(v) : Begun(r, v, n)
    BY <1>3, StartOpens, StartAgain DEF Begun
  <2>3. CASE p \in start(v) /\ p.res # "ok"
    BY <2>2, <2>3
  <2>4. ASSUME NEW r \in start(v), r.res = "ok", p \in deleting(r.w) PROVE Done(p, v)
    <3>1. Keeps(r.w, v, n) /\ Opening(r.w, n)
      BY <2>2, <2>4 DEF Begun
    <3>2. Done(p, r.w)
      BY <1>2, <2>4, <3>1
    <3> QED BY <3>1, <3>2, BegunOn
  <2> QED BY <2>1, <2>3, <2>4
<1>4. robust_begin(w) = Then(readied, beginning)
  BY DEF robust_begin
<1> HIDE DEF readied, beginning, deleting
<1>5. \/ o \in readied /\ o.res # "ok"
      \/ \E r \in readied : r.res = "ok" /\ o \in beginning(r.w)
  BY <1>4 DEF Then, Threw, Succeeded
<1>6. CASE o \in readied /\ o.res # "ok"
  BY <1>1, <1>6 DEF Readied, Begun
<1>7. ASSUME NEW r \in readied, r.res = "ok", o \in beginning(r.w) PROVE Done(o, w)
  <2>1. Keeps(r.w, w, n) /\ (Opening(r.w, n) \/ Quiet(r.w, n))
    BY <1>1, <1>7 DEF Readied
  <2>2. Done(o, r.w)
    BY <1>3, <1>7, <2>1
  <2> QED BY <2>1, <2>2, BegunOn
<1> QED BY <1>5, <1>6, <1>7

-----------------------------------------------------------------------------
(* Transaction objects *)

\* Only the objects of the client differ.
Same(v, w) ==
    /\ IsWorld(v) /\ v.conn = w.conn /\ v.settings = w.settings /\ v.session = w.session
    /\ v.stored = w.stored /\ v.inhibited = w.inhibited

LEMMA BasicSame == \A v, w, n : Same(v, w) /\ Basic(w, n) => Basic(v, n)
  BY DEF Same, Basic, Linked, IsWorld

LEMMA SameOn == \A u, v, w : Same(v, w) /\ Same(u, v) => Same(u, w)
  BY DEF Same

LEMMA WithTrans ==
    ASSUME NEW w, IsWorld(w), NEW t
    PROVE  LET v == [w EXCEPT !.trans = t] IN Same(v, w) /\ v.trans = t /\ v.sub = w.sub
  BY DEF Same, IsWorld, Fields

LEMMA WithSub ==
    ASSUME NEW w, IsWorld(w), NEW s
    PROVE  LET v == [w EXCEPT !.sub = s] IN Same(v, w) /\ v.sub = s /\ v.trans = w.trans
  BY DEF Same, IsWorld, Fields

TransFields == {"status", "kind", "focus", "pending", "vars", "sent", "acked", "logged"}
IsTrans(t) ==
    /\ DOMAIN t = TransFields
    /\ t.focus \in BOOLEAN /\ t.pending \in BOOLEAN /\ t.sent \in Nat /\ t.vars \in {{}, {"SET"}}
    /\ t.logged \in BOOLEAN

\* One field of the transaction object is written.
Wrote(v, w, field) ==
    /\ Same(v, w) /\ v.sub = w.sub /\ DOMAIN v.trans = TransFields
    /\ \A f \in TransFields \ {field} : v.trans[f] = w.trans[f]

LEMMA Writing ==
    ASSUME NEW w, IsWorld(w), DOMAIN w.trans = TransFields, NEW v
    PROVE  /\ v = [w EXCEPT !.trans.pending = FALSE] => Wrote(v, w, "pending") /\ v.trans.pending = FALSE
           /\ v = [w EXCEPT !.trans.pending = TRUE] => Wrote(v, w, "pending") /\ v.trans.pending = TRUE
           /\ v = [w EXCEPT !.trans.focus = FALSE] => Wrote(v, w, "focus") /\ v.trans.focus = FALSE
           /\ v = [w EXCEPT !.trans.focus = TRUE] => Wrote(v, w, "focus") /\ v.trans.focus = TRUE
  BY DEF Wrote, Same, IsWorld, Fields, TransFields

WithVars(w, x) == [w EXCEPT !.trans.vars = x]
WithAcked(w, x) == [w EXCEPT !.trans.acked = x]
WithSent(w, x) == [w EXCEPT !.trans.sent = x]

LEMMA WritingValues ==
    ASSUME NEW w, IsWorld(w), DOMAIN w.trans = TransFields, NEW x
    PROVE  /\ Wrote(WithStatus(w, x), w, "status") /\ WithStatus(w, x).trans.status = x
           /\ Wrote(WithVars(w, x), w, "vars") /\ WithVars(w, x).trans.vars = x
           /\ Wrote(WithAcked(w, x), w, "acked") /\ WithAcked(w, x).trans.acked = x
           /\ Wrote(WithSent(w, x), w, "sent") /\ WithSent(w, x).trans.sent = x
  BY DEF Wrote, Same, IsWorld, Fields, TransFields, WithStatus, WithVars, WithAcked, WithSent

LEMMA StatusWritten ==
    \A v, w : Wrote(v, w, "status") =>
        /\ Same(v, w) /\ v.sub = w.sub /\ IsWorld(v) /\ DOMAIN v.trans = TransFields
        /\ v.trans.kind = w.trans.kind /\ v.trans.focus = w.trans.focus /\ v.trans.pending = w.trans.pending
        /\ v.trans.vars = w.trans.vars /\ v.trans.sent = w.trans.sent /\ v.trans.acked = w.trans.acked
        /\ v.trans.logged = w.trans.logged
  BY DEF Wrote, Same, TransFields

LEMMA PendingWritten ==
    \A v, w : Wrote(v, w, "pending") =>
        /\ Same(v, w) /\ v.sub = w.sub /\ IsWorld(v) /\ DOMAIN v.trans = TransFields
        /\ v.trans.status = w.trans.status /\ v.trans.kind = w.trans.kind /\ v.trans.focus = w.trans.focus
        /\ v.trans.vars = w.trans.vars /\ v.trans.sent = w.trans.sent /\ v.trans.acked = w.trans.acked
        /\ v.trans.logged = w.trans.logged
  BY DEF Wrote, Same, TransFields

LEMMA VarsWritten ==
    \A v, w : Wrote(v, w, "vars") =>
        /\ Same(v, w) /\ v.sub = w.sub /\ IsWorld(v) /\ DOMAIN v.trans = TransFields
        /\ v.trans.status = w.trans.status /\ v.trans.kind = w.trans.kind /\ v.trans.focus = w.trans.focus /\ v.trans.pending = w.trans.pending
        /\ v.trans.sent = w.trans.sent /\ v.trans.acked = w.trans.acked
        /\ v.trans.logged = w.trans.logged
  BY DEF Wrote, Same, TransFields

LEMMA FocusWritten ==
    \A v, w : Wrote(v, w, "focus") =>
        /\ Same(v, w) /\ v.sub = w.sub /\ IsWorld(v) /\ DOMAIN v.trans = TransFields
        /\ v.trans.status = w.trans.status /\ v.trans.kind = w.trans.kind /\ v.trans.pending = w.trans.pending
        /\ v.trans.vars = w.trans.vars /\ v.trans.sent = w.trans.sent /\ v.trans.acked = w.trans.acked
        /\ v.trans.logged = w.trans.logged
  BY DEF Wrote, Same, TransFields

LEMMA AckedWritten ==
    \A v, w : Wrote(v, w, "acked") =>
        /\ Same(v, w) /\ v.sub = w.sub /\ IsWorld(v) /\ DOMAIN v.trans = TransFields
        /\ v.trans.status = w.trans.status /\ v.trans.kind = w.trans.kind /\ v.trans.focus = w.trans.focus /\ v.trans.pending = w.trans.pending
        /\ v.trans.vars = w.trans.vars /\ v.trans.sent = w.trans.sent
        /\ v.trans.logged = w.trans.logged
  BY DEF Wrote, Same, TransFields

LEMMA SentWritten ==
    \A v, w : Wrote(v, w, "sent") =>
        /\ Same(v, w) /\ v.sub = w.sub /\ IsWorld(v) /\ DOMAIN v.trans = TransFields
        /\ v.trans.status = w.trans.status /\ v.trans.kind = w.trans.kind /\ v.trans.focus = w.trans.focus /\ v.trans.pending = w.trans.pending
        /\ v.trans.vars = w.trans.vars /\ v.trans.acked = w.trans.acked
        /\ v.trans.logged = w.trans.logged
  BY DEF Wrote, Same, TransFields

LEMMA LoggedWritten ==
    ASSUME NEW w, IsWorld(w), DOMAIN w.trans = TransFields, NEW v, v = Logged(w)
    PROVE  /\ Same(v, w) /\ v.sub = w.sub /\ IsWorld(v) /\ DOMAIN v.trans = TransFields
           /\ v.trans.status = w.trans.status /\ v.trans.kind = w.trans.kind /\ v.trans.focus = w.trans.focus
           /\ v.trans.pending = w.trans.pending /\ v.trans.vars = w.trans.vars
           /\ v.trans.sent = w.trans.sent /\ v.trans.acked = w.trans.acked
           /\ v.trans.logged \in BOOLEAN /\ (v.trans.logged = TRUE => Record \in w.stored)
<1> DEFINE b == Record \in w.stored
<1>1. b \in BOOLEAN /\ (b = TRUE => Record \in w.stored)
  OBVIOUS
<1>2. v = [w EXCEPT !.trans.logged = b]
  BY DEF Logged
<1> HIDE DEF b
<1>3. Wrote(v, w, "logged") /\ v.trans.logged = b
  BY <1>2 DEF Wrote, Same, IsWorld, Fields, TransFields
<1> QED BY <1>1, <1>3 DEF Wrote, Same, TransFields

LEMMA GetNotifsIs ==
    ASSUME NEW w, NEW n, Basic(w, n), NEW o \in get_notifs(w)
    PROVE  /\ Keeps(o.w, w, n) /\ o.w.stored = w.stored
           /\ \/ o.res = "ok" /\ o.w = w
              \/ o.res = "broken" /\ is_open(w) /\ ~is_open(o.w) /\ o.w.conn = "bad" /\ o.w.session.tx = "idle"
<1>1. \/ o = Outcome(w, "ok")
      \/ is_open(w) /\ o = Outcome(Cut(w, "bad"), "broken")
  BY DEF get_notifs
<1>2. CASE o = Outcome(w, "ok")
  BY <1>2, OutcomeIs, KeepsItself
<1>3. CASE is_open(w) /\ o = Outcome(Cut(w, "bad"), "broken")
  <2>1. o.w = Cut(w, "bad") /\ o.res = "broken" /\ IsWorld(w)
    BY <1>3, OutcomeIs DEF Basic, Linked
  <2>2. Gone(o.w, w) /\ o.w.stored = w.stored /\ o.w.conn = "bad"
    BY <2>1, CutIsGone
  <2> QED BY <1>3, <2>1, <2>2, BrokenKeeps
<1> QED BY <1>1, <1>2, <1>3

\* What is known when a transaction has begun.
Started(w, n) ==
    /\ is_open(w) /\ w.session.tx = "open" /\ w.session.save = {}
    /\ w.session.work \subseteq {Add(Statement(n, 0)), Deleted(Statement(n, 0))}
    /\ Statement(n, 0) \notin Applied(w.stored, w.session.work)

LEMMA DoBeginIs ==
    ASSUME Mishaps = {}, NEW w, NEW n, n = number, Number(n), Quiet(w, n),
           Statement(n, 0) \notin w.stored, NEW o \in do_begin(w)
    PROVE  /\ Keeps(o.w, w, n)
           /\ \/ o.res = "ok" /\ Started(o.w, n)
              \/ o.res = "broken" /\ ~is_open(o.w) /\ Quiet(o.w, n)
<1>1. \A v : Opening(v, n) => \A c \in v.session.work : Own(c, n)
  BY OwnRecord DEF Opening
<1>2. CASE w.trans.kind = "robust"
  <2>1. Begun(o, w, n) /\ (o.res = "ok" => Deleted(Statement(n, 0)) \in o.w.session.work)
    BY <1>2, RobustBegins DEF do_begin
  <2>2. o.res = "ok" => Statement(n, 0) \notin Applied(o.w.stored, o.w.session.work)
    BY <1>1, <2>1, AppliedIs DEF Begun, Quiet
  <2> QED BY <2>1, <2>2 DEF Begun, Started, Opening
<1>3. CASE w.trans.kind # "robust"
  <2>1. /\ Keeps(o.w, w, n) /\ o.w.stored = w.stored
        /\ \/ o.res = "ok" /\ Opening(o.w, n) /\ o.w.session.work = {}
           \/ o.res = "broken" /\ ~is_open(o.w) /\ Quiet(o.w, n)
    BY <1>3, StartOpens DEF do_begin
  <2>2. o.res = "ok" => Statement(n, 0) \notin Applied(o.w.stored, o.w.session.work)
    BY <1>1, <2>1, AppliedIs
  <2> QED BY <2>1, <2>2 DEF Started, Opening
<1> QED BY <1>2, <1>3

NewTrans(kind) ==
    [status |-> "nascent", kind |-> kind, focus |-> FALSE, pending |-> FALSE, vars |-> {}, sent |-> 0, acked |-> {},
     logged |-> FALSE]

LEMMA EndedAlready ==
    ASSUME NEW w, IsWorld(w), DOMAIN w.trans = TransFields, w.trans.status # "active", NEW o \in End(w)
    PROVE  /\ o.res = "ok" /\ Same(o.w, w) /\ o.w.sub = w.sub /\ DOMAIN o.w.trans = TransFields
           /\ o.w.trans.status = w.trans.status /\ o.w.trans.kind = w.trans.kind
           /\ o.w.trans.acked = w.trans.acked
<1>1. o = Outcome(DropError(w), "ok")
  BY DEF End
<1>2. o.w = [w EXCEPT !.trans.pending = FALSE] /\ o.res = "ok"
  BY <1>1, OutcomeIs DEF DropError
<1>3. Wrote(o.w, w, "pending")
  BY <1>2, Writing
<1> QED BY <1>2, <1>3, PendingWritten, ZenonT(60)

LEMMA ConstructIs ==
    ASSUME Mishaps = {}, NEW w, NEW n, n = number, Number(n), Basic(w, n), w.session.tx = "idle",
           Statement(n, 0) \notin w.stored, NEW kind, NEW o \in construct(w, kind)
    PROVE  /\ Basic(o.w, n) /\ SameBut(o.w.stored, w.stored, n) /\ o.w.sub = w.sub
           /\ \/ /\ o.res = "ok" /\ Started(o.w, n)
                 /\ IsTrans(o.w.trans) /\ o.w.trans.status = "active" /\ o.w.trans.kind = kind
                 /\ o.w.trans.focus = FALSE /\ o.w.trans.pending = FALSE /\ o.w.trans.vars = {}
                 /\ o.w.trans.acked = {} /\ (o.w.trans.logged = TRUE => Statement(n, 0) \in o.w.stored)
              \/ o.res # "ok" /\ o.w.session.tx = "idle"
<1> DEFINE w0 == [w EXCEPT !.trans = NewTrans(kind)]
           endAnd(p) == {Outcome(q.w, p.res) : q \in End(p.w)}
           begins == Then(get_notifs(w0), do_begin)
           activated(v) == {Outcome(Logged(WithStatus(v, "active")), "ok")}
<1>0. construct(w, kind) = Then(Catch(begins, endAnd), activated)
  BY DEF construct, Begin, NewTrans
<1>1. Same(w0, w) /\ w0.trans = NewTrans(kind) /\ w0.sub = w.sub
  BY WithTrans DEF Basic, Linked
<1>2. Quiet(w0, n) /\ w0.stored = w.stored
  <2>1. Basic(w0, n)
    BY <1>1, BasicSame
  <2> QED BY <1>1, <2>1 DEF Quiet, Same, NewTrans
<1> HIDE DEF w0
<1>3. ASSUME NEW p \in begins
      PROVE  /\ Keeps(p.w, w0, n)
             /\ \/ p.res = "ok" /\ Started(p.w, n)
                \/ p.res = "broken" /\ p.w.session.tx = "idle"
  <2>1. \/ p \in get_notifs(w0) /\ p.res # "ok"
        \/ \E q \in get_notifs(w0) : q.res = "ok" /\ p \in do_begin(q.w)
    BY <1>3 DEF Then, Threw, Succeeded
  <2>2. Basic(w0, n) /\ Statement(n, 0) \notin w0.stored
    BY <1>2 DEF Quiet
  <2>3. CASE p \in get_notifs(w0) /\ p.res # "ok"
    BY <2>2, <2>3, GetNotifsIs
  <2>4. ASSUME NEW q \in get_notifs(w0), q.res = "ok", p \in do_begin(q.w)
        PROVE  /\ Keeps(p.w, w0, n)
               /\ \/ p.res = "ok" /\ Started(p.w, n)
                  \/ p.res = "broken" /\ p.w.session.tx = "idle"
    <3>1. q.w = w0
      BY <2>2, <2>4, GetNotifsIs
    <3> QED BY <1>2, <2>2, <2>4, <3>1, DoBeginIs DEF Quiet
  <2> QED BY <2>1, <2>3, <2>4
<1>4. ASSUME NEW p \in begins
      PROVE  /\ IsWorld(p.w) /\ p.w.trans = NewTrans(kind) /\ p.w.sub = w.sub
             /\ DOMAIN p.w.trans = TransFields /\ p.w.trans.status # "active"
  <2>1. IsWorld(p.w) /\ p.w.trans = NewTrans(kind) /\ p.w.sub = w.sub
    BY <1>1, <1>3 DEF Keeps, Similar
  <2>2. DOMAIN NewTrans(kind) = TransFields /\ NewTrans(kind).status # "active"
    BY DEF NewTrans, TransFields
  <2> QED BY <2>1, <2>2
<1> HIDE DEF begins
<1>5. \/ \E p \in begins : p.res # "ok" /\ o \in endAnd(p) /\ o.res # "ok"
      \/ \E p \in begins : p.res = "ok" /\ o \in activated(p.w)
      \/ \E p \in begins : p.res # "ok" /\ \E q \in endAnd(p) : q.res = "ok" /\ o \in activated(q.w)
  BY <1>0 DEF Then, Catch, Threw, Succeeded
<1>6. ASSUME NEW p \in begins, p.res # "ok", NEW q \in endAnd(p)
      PROVE  /\ q.res = p.res /\ Basic(q.w, n) /\ SameBut(q.w.stored, w.stored, n) /\ q.w.sub = w.sub
             /\ q.w.session.tx = "idle"
  <2>1. PICK e \in End(p.w) : q = Outcome(e.w, p.res)
    BY <1>6
  <2>2. q.w = e.w /\ q.res = p.res
    BY <2>1, OutcomeIs
  <2>3. Same(e.w, p.w) /\ e.w.sub = p.w.sub
    BY <1>4, <2>1, EndedAlready
  <2>4. Basic(p.w, n) /\ SameBut(p.w.stored, w.stored, n) /\ p.w.session.tx = "idle"
    BY <1>2, <1>3, <1>6 DEF Keeps
  <2>5. Basic(e.w, n)
    BY <2>3, <2>4, BasicSame
  <2> QED BY <1>4, <2>2, <2>3, <2>4, <2>5 DEF Same
<1>7. ASSUME NEW p \in begins, p.res = "ok", o \in activated(p.w)
      PROVE  /\ Basic(o.w, n) /\ SameBut(o.w.stored, w.stored, n) /\ o.w.sub = w.sub
             /\ o.res = "ok" /\ Started(o.w, n)
             /\ IsTrans(o.w.trans) /\ o.w.trans.status = "active" /\ o.w.trans.kind = kind
             /\ o.w.trans.focus = FALSE /\ o.w.trans.pending = FALSE /\ o.w.trans.vars = {}
             /\ o.w.trans.acked = {} /\ (o.w.trans.logged = TRUE => Statement(n, 0) \in o.w.stored)
  <2> DEFINE u == WithStatus(p.w, "active")
  <2>1. o.w = Logged(u) /\ o.res = "ok"
    BY <1>7, OutcomeIs
  <2>2. Wrote(u, p.w, "status") /\ u.trans.status = "active"
    BY <1>4, WritingValues
  <2> HIDE DEF u
  <2>a. /\ Same(u, p.w) /\ u.sub = p.w.sub /\ DOMAIN u.trans = TransFields /\ IsWorld(u)
        /\ u.trans.focus = FALSE /\ u.trans.pending = FALSE /\ u.trans.vars = {}
        /\ u.trans.sent = 0 /\ u.trans.acked = {} /\ u.trans.kind = kind
    BY <1>4, <2>2, StatusWritten DEF NewTrans
  <2>d. IsWorld(u) /\ DOMAIN u.trans = TransFields /\ o.w = Logged(u)
    BY <2>1, <2>a
  <2>b. /\ Same(o.w, u) /\ o.w.sub = u.sub /\ DOMAIN o.w.trans = TransFields
        /\ o.w.trans.status = u.trans.status /\ o.w.trans.kind = u.trans.kind /\ o.w.trans.focus = u.trans.focus
        /\ o.w.trans.pending = u.trans.pending /\ o.w.trans.vars = u.trans.vars
        /\ o.w.trans.sent = u.trans.sent /\ o.w.trans.acked = u.trans.acked
        /\ o.w.trans.logged \in BOOLEAN /\ (o.w.trans.logged = TRUE => Record \in u.stored)
    BY ONLY <2>d, LoggedWritten
  <2>3. /\ Same(o.w, p.w) /\ o.w.sub = p.w.sub /\ DOMAIN o.w.trans = TransFields
        /\ o.w.trans.focus = FALSE /\ o.w.trans.pending = FALSE /\ o.w.trans.vars = {}
        /\ o.w.trans.sent = 0 /\ o.w.trans.acked = {} /\ o.w.trans.status = "active" /\ o.w.trans.kind = kind
    BY <2>2, <2>a, <2>b, SameOn
  <2>c. o.w.trans.logged \in BOOLEAN /\ (o.w.trans.logged = TRUE => Statement(n, 0) \in o.w.stored)
    BY <2>b DEF Same, Record
  <2>4. Basic(p.w, n) /\ SameBut(p.w.stored, w.stored, n) /\ Started(p.w, n)
    BY <1>2, <1>3, <1>7 DEF Keeps
  <2>5. Basic(o.w, n) /\ Started(o.w, n)
    BY <2>3, <2>4, BasicSame DEF Same, Started, is_open
  <2>6. IsTrans(o.w.trans)
    <3>1. o.w.trans.focus \in BOOLEAN /\ o.w.trans.pending \in BOOLEAN
      BY <2>3
    <3>2. o.w.trans.sent \in Nat /\ o.w.trans.vars \in {{}, {"SET"}}
      BY <2>3
    <3> QED BY <2>3, <2>c, <3>1, <3>2 DEF IsTrans
  <2>7. SameBut(o.w.stored, w.stored, n) /\ o.w.sub = w.sub
    BY <1>4, <2>3, <2>4 DEF Same
  <2> QED BY <2>1, <2>3, <2>5, <2>6, <2>7, <2>c
<1>8. CASE \E p \in begins : p.res # "ok" /\ o \in endAnd(p) /\ o.res # "ok"
  BY <1>6, <1>8
<1>9. ASSUME NEW p \in begins, p.res # "ok", NEW q \in endAnd(p), q.res = "ok" PROVE FALSE
  BY <1>6, <1>9
<1> QED BY <1>5, <1>7, <1>8, <1>9

-----------------------------------------------------------------------------
(* Aborting a transaction *)

LEMMA DeletesRecord ==
    ASSUME NEW w, NEW n, Number(n), Basic(w, n), w.session.tx = "idle", w.trans.pending = FALSE,
           NEW o \in direct_exec(w, Deleted(Statement(n, 0)), TRUE)
    PROVE  Keeps(o.w, w, n) /\ o.w.session.tx = "idle"
  BY RecordingIs, IdleStays

LEMMA DoAbortIs ==
    ASSUME NEW w, NEW n, n = number, Number(n), Basic(w, n), w.trans.pending = FALSE, NEW o \in do_abort(w)
    PROVE  Keeps(o.w, w, n) /\ o.w.session.tx = "idle" /\ o.res \in {"ok", "broken"}
<1>1. \A r \in rollback(w) : Keeps(r.w, w, n) /\ r.w.session.tx = "idle" /\ r.res \in {"ok", "broken"}
  BY RollbackIs
<1>2. CASE w.trans.kind # "robust"
  BY <1>1, <1>2 DEF do_abort
<1>3. CASE w.trans.kind = "robust"
  <2>1. \/ o \in rollback(w)
        \/ \E r \in rollback(w) : o \in DeleteTransactionRecord(r.w)
    BY <1>3 DEF do_abort, robust_abort, Then, Threw, Succeeded
  <2>2. ASSUME NEW r \in rollback(w), o \in DeleteTransactionRecord(r.w)
        PROVE  Keeps(o.w, w, n) /\ o.w.session.tx = "idle" /\ o.res \in {"ok", "broken"}
    <3>1. PICK d \in direct_exec(r.w, Deleted(Statement(n, 0)), TRUE) : o = Outcome(d.w, "ok")
      BY <2>2 DEF DeleteTransactionRecord, Quietly, Record
    <3>2. Basic(r.w, n) /\ r.w.session.tx = "idle" /\ r.w.trans.pending = FALSE
      BY <1>1 DEF Keeps, Similar
    <3>3. Keeps(d.w, r.w, n) /\ d.w.session.tx = "idle"
      BY <3>1, <3>2, DeletesRecord
    <3> QED BY <1>1, <3>1, <3>3, OutcomeIs, KeepsOn
  <2> QED BY <1>1, <2>1, <2>2
<1> QED BY <1>2, <1>3

\* Only the status and the pending error of the transaction object have changed.
Settled(v, w, status) ==
    /\ v.sub = w.sub /\ DOMAIN v.trans = TransFields
    /\ v.trans.status = status /\ v.trans.pending = FALSE
    /\ v.trans.kind = w.trans.kind /\ v.trans.focus = w.trans.focus /\ v.trans.vars = w.trans.vars
    /\ v.trans.sent = w.trans.sent /\ v.trans.acked = w.trans.acked /\ v.trans.logged = w.trans.logged

Closed(v, w, n) ==
    /\ Basic(v, n) /\ SameBut(v.stored, w.stored, n) /\ v.session.tx = "idle"

LEMMA AbortIs ==
    ASSUME NEW w, NEW n, n = number, Number(n), Basic(w, n), DOMAIN w.trans = TransFields,
           w.trans.status = "active", w.trans.pending = FALSE, NEW o \in abort(w)
    PROVE  o.res = "ok" /\ Closed(o.w, w, n) /\ Settled(o.w, w, "aborted")
<1>1. abort(w) = Quietly(do_abort(w), LAMBDA v : {Outcome(DropError(WithStatus(v, "aborted")), "ok")})
  BY DEF abort
<1>2. PICK d \in do_abort(w) : o = Outcome(DropError(WithStatus(d.w, "aborted")), "ok")
  BY <1>1 DEF Quietly
<1>3. Keeps(d.w, w, n) /\ d.w.session.tx = "idle"
  BY DoAbortIs
<1>4. IsWorld(d.w) /\ d.w.trans = w.trans /\ d.w.sub = w.sub
  BY <1>3 DEF Keeps, Similar
<1> DEFINE a == WithStatus(d.w, "aborted")
<1>5. Wrote(a, d.w, "status") /\ a.trans.status = "aborted"
  BY <1>4, WritingValues
<1>6. o.w = [a EXCEPT !.trans.pending = FALSE] /\ o.res = "ok"
  BY <1>2, OutcomeIs DEF DropError
<1> HIDE DEF a
<1>7. /\ Same(a, d.w) /\ a.sub = w.sub /\ IsWorld(a) /\ DOMAIN a.trans = TransFields
      /\ a.trans.kind = w.trans.kind /\ a.trans.focus = w.trans.focus /\ a.trans.vars = w.trans.vars
      /\ a.trans.sent = w.trans.sent /\ a.trans.acked = w.trans.acked /\ a.trans.logged = w.trans.logged
  BY <1>4, <1>5, StatusWritten
<1>8. Wrote(o.w, a, "pending") /\ o.w.trans.pending = FALSE
  BY <1>6, <1>7, Writing
<1>9. Same(o.w, a) /\ Settled(o.w, w, "aborted")
  BY <1>5, <1>7, <1>8, PendingWritten DEF Settled
<1>10. Same(o.w, d.w) /\ Basic(o.w, n)
  BY <1>3, <1>7, <1>9, SameOn, BasicSame DEF Keeps
<1> QED BY <1>3, <1>6, <1>9, <1>10 DEF Closed, Keeps, Same

LEMMA DropErrorIs ==
    ASSUME NEW w, IsWorld(w), DOMAIN w.trans = TransFields
    PROVE  Same(DropError(w), w) /\ Settled(DropError(w), w, w.trans.status)
<1>1. Wrote(DropError(w), w, "pending") /\ DropError(w).trans.pending = FALSE
  BY Writing DEF DropError
<1> QED BY <1>1, PendingWritten DEF Settled

\* The destructor.
LEMMA EndIs ==
    ASSUME NEW w, NEW n, n = number, Number(n), Basic(w, n), DOMAIN w.trans = TransFields, NEW o \in End(w)
    PROVE  /\ Basic(o.w, n) /\ SameBut(o.w.stored, w.stored, n) /\ o.w.sub = w.sub
           /\ w.trans.status = "active" =>
                 o.w.session.tx = "idle" /\ o.w.trans.status = "aborted"
           /\ w.trans.status # "active" =>
                 Same(o.w, w) /\ o.w.trans.status = w.trans.status
<1>0. IsWorld(w)
  BY DEF Basic, Linked
<1>1. Same(DropError(w), w) /\ Settled(DropError(w), w, w.trans.status) /\ Basic(DropError(w), n)
  BY <1>0, DropErrorIs, BasicSame
<1>2. CASE w.trans.status = "active"
  <2>1. o \in abort(DropError(w))
    BY <1>2 DEF End
  <2>2. Closed(o.w, DropError(w), n) /\ Settled(o.w, DropError(w), "aborted")
    BY <1>1, <1>2, <2>1, AbortIs, ZenonT(60) DEF Settled
  <2> QED BY <1>1, <1>2, <2>2 DEF Closed, Settled, Same
<1>3. CASE w.trans.status # "active"
  <2>1. o.w = DropError(w)
    BY <1>3, OutcomeIs DEF End
  <2> QED BY <1>1, <1>3, <2>1 DEF Settled, Same, SameBut
<1> QED BY <1>2, <1>3

-----------------------------------------------------------------------------
(* COMMIT *)

\* Ready for COMMIT.
Ripe(w, n) == Basic(w, n) /\ is_open(w) /\ w.session.tx = "open" /\ w.trans.pending = FALSE

Executed(w) == Applied(w.stored, w.session.work)

\* The three ways that COMMIT can end.
Stores(o, w) ==
    /\ o.res = "ok" /\ Similar(o.w, w) /\ o.w.conn = "ok" /\ o.w.settings = w.settings
    /\ o.w.session = Idling(w.session, InEffect(w.session)) /\ o.w.stored = Executed(w)

Refuses(o, w, n) == o.res \notin {"ok", "in_doubt"} /\ Keeps(o.w, w, n) /\ o.w.session.tx = "idle"

Doubts(o, w) == o.res = "in_doubt" /\ Gone(o.w, w) /\ o.w.stored \in {w.stored, Executed(w)}

LEMMA CommitAnswers ==
    ASSUME NEW w, NEW n, Ripe(w, n), Number(n), NEW o \in direct_exec(w, Run("COMMIT"), FALSE)
    PROVE  \/ Stores(o, w)
           \/ o.res = "sql" /\ is_open(o.w) /\ Keeps(o.w, w, n) /\ o.w.session.tx = "idle"
           \/ /\ o.res = "broken" /\ ~is_open(o.w) /\ Gone(o.w, w) /\ o.w.conn = "bad"
              /\ o.w.stored \in {w.stored, Executed(w)}
<1>0. Basic(w, n) /\ is_open(w) /\ w.session.tx = "open" /\ Linked(w) /\ IsWorld(w)
  BY DEF Ripe, Basic, Linked
<1>1. o \in exec(w, Run("COMMIT"), FALSE)
  BY DirectIs DEF Ripe
<1>2. Command(Run("COMMIT"))
  BY DEF Command, Commands
<1>3. ASSUME NEW v, Arrives(v, w, FALSE) PROVE v = w
  BY <1>0, <1>3 DEF Arrives, is_open
<1>4. ASSUME NEW e \in Executes(w, Run("COMMIT"))
      PROVE  \/ e.res = "ok" /\ Now(e.w, w, Idling(w.session, InEffect(w.session)), Executed(w))
             \/ e.res = "sql" /\ Now(e.w, w, Idling(w.session, w.session.set), w.stored)
  BY <1>0, <1>4, CommitRuns DEF Executed
<1>5. CASE Reaches(o, w, Run("COMMIT"), FALSE)
  <2>1. o \in Executes(w, Run("COMMIT"))
    BY <1>3, <1>5 DEF Reaches
  <2>2. CASE o.res = "ok" /\ Now(o.w, w, Idling(w.session, InEffect(w.session)), Executed(w))
    BY <1>0, <2>2 DEF Now, Stores, is_open
  <2>3. CASE o.res = "sql" /\ Now(o.w, w, Idling(w.session, w.session.set), w.stored)
    <3>1. Session(w.session)
      BY <1>0 DEF IsWorld, Session
    <3>2. /\ Tidy(Idling(w.session, w.session.set), n)
          /\ SameSets(Idling(w.session, w.session.set), w.session)
          /\ Idling(w.session, w.session.set).tx = "idle"
      <4>1. "PREPARE" \notin w.session.lost /\ w.session.set \cap w.session.lost = {}
        BY <1>0 DEF Basic, Tidy
      <4> QED BY <3>1, <4>1, FreshIsTidy, SetsStay
    <3>3. Basic(o.w, n) /\ SameBut(o.w.stored, w.stored, n)
      BY <1>0, <2>3, <3>2, SessionIsTidy
    <3> QED BY <1>0, <2>3, <3>2, <3>3 DEF Now, Keeps, is_open
  <2> QED BY <1>4, <2>1, <2>2, <2>3
<1>6. CASE Undone(o, w, Run("COMMIT"), FALSE)
  <2>1. o.w.stored \in {w.stored, Executed(w)}
    BY <1>3, <1>4, <1>6 DEF Undone, Now
  <2>2. o.res = "broken" /\ Gone(o.w, w) /\ o.w.conn = "bad"
    BY <1>0, <1>6 DEF Undone, Breaks
  <2> QED BY <2>1, <2>2 DEF is_open
<1> QED BY <1>0, <1>1, <1>2, <1>5, <1>6, ExecOutcome

LEMMA WorkCommits ==
    ASSUME NEW w, NEW n, Ripe(w, n), Number(n), NEW o \in work_commit(w)
    PROVE  Stores(o, w) \/ Refuses(o, w, n) \/ Doubts(o, w)
<1>1. PICK p \in direct_exec(w, Run("COMMIT"), FALSE) :
          \/ p.res = "ok" /\ o = p
          \/ p.res # "ok" /\ o = IF is_open(p.w) THEN p ELSE Outcome(p.w, "in_doubt")
  BY DEF work_commit, Catch, Succeeded, Threw
<1>2. \/ Stores(p, w)
      \/ p.res = "sql" /\ is_open(p.w) /\ Keeps(p.w, w, n) /\ p.w.session.tx = "idle"
      \/ p.res = "broken" /\ ~is_open(p.w) /\ Gone(p.w, w) /\ p.w.stored \in {w.stored, Executed(w)}
  BY CommitAnswers
<1>3. CASE Stores(p, w)
  BY <1>1, <1>3 DEF Stores
<1>4. CASE p.res = "sql" /\ is_open(p.w) /\ Keeps(p.w, w, n) /\ p.w.session.tx = "idle"
  BY <1>1, <1>4 DEF Refuses
<1>5. CASE p.res = "broken" /\ ~is_open(p.w) /\ Gone(p.w, w) /\ p.w.stored \in {w.stored, Executed(w)}
  <2>1. o.w = p.w /\ o.res = "in_doubt"
    BY <1>1, <1>5, OutcomeIs
  <2> QED BY <1>5, <2>1 DEF Doubts
<1> QED BY <1>2, <1>3, <1>4, <1>5

\* The record cannot be looked up on a connection just lost.
LEMMA CheckTransactionRecordIs ==
    ASSUME NEW w, Linked(w), w.conn = "bad", w.trans.pending = FALSE, NEW o \in CheckTransactionRecord(w)
    PROVE  o.res = "broken" /\ Gone(o.w, w) /\ o.w.stored = w.stored
<1>1. o \in exec(w, Run("query"), FALSE) /\ Command(Run("query"))
  BY DirectIs DEF CheckTransactionRecord, Command, Commands
<1>2. ASSUME NEW v, Arrives(v, w, FALSE) PROVE FALSE
  BY <1>2 DEF Arrives, is_open
<1> QED BY <1>1, <1>2, ExecOutcome DEF Reaches, Undone, Breaks

LEMMA RobustAborts ==
    ASSUME NEW w, NEW n, n = number, Number(n), Basic(w, n), w.trans.pending = FALSE,
           w.trans.kind = "robust", NEW o \in robust_abort(w)
    PROVE  Keeps(o.w, w, n) /\ o.w.session.tx = "idle" /\ o.res \in {"ok", "broken"}
  BY DoAbortIs DEF do_abort

LEMMA QueryInside ==
    ASSUME NEW w, NEW n, Basic(w, n), Number(n), InTransaction(w), NEW o \in exec(w, Run("query"), FALSE)
    PROVE  /\ Keeps(o.w, w, n) /\ o.w.stored = w.stored
           /\ \/ is_open(o.w) /\ Obeys(o, w, Run("query")) /\ o.w.settings = w.settings
              \/ o.res = "broken"
<1>1. Inside(Run("query"), n)
  BY OwnRecord
<1> QED BY <1>1, ExecInside, ZenonT(60)

LEMMA RobustCommits ==
    ASSUME NEW w, NEW n, n = number, Number(n), Ripe(w, n), w.trans.kind = "robust", NEW o \in robust_commit(w)
    PROVE  Stores(o, w) \/ Refuses(o, w, n) \/ Doubts(o, w)
<1> DEFINE abortAnd(p) == Then(robust_abort(p.w), LAMBDA v : {Outcome(v, p.res)})
           lost(p) == Then({Outcome(q.w, IF q.res = "ok" THEN "ok" ELSE "in_doubt") :
                               q \in CheckTransactionRecord(p.w)},
                           LAMBDA v : {Outcome(v, "ok")} \cup abortAnd(Outcome(v, "broken")))
           failed(p) == IF is_open(p.w) THEN abortAnd(p) ELSE lost(p)
           asks == direct_exec(w, Run("query"), FALSE)
<1>1. Basic(w, n) /\ is_open(w) /\ w.session.tx = "open" /\ w.trans.pending = FALSE
  BY DEF Ripe
<1> DEFINE commits(v) == Catch(direct_exec(v, Run("COMMIT"), FALSE), failed)
<1>2. o \in Then(Catch(asks, abortAnd), commits)
  BY DEF robust_commit
<1> HIDE DEF asks, abortAnd, lost, failed, commits
\* Whoever aborts keeps the failure that made it abort.
<1>3. ASSUME NEW p, Keeps(p.w, w, n), p.res \notin {"ok", "in_doubt"}, NEW q \in abortAnd(p)
      PROVE  Refuses(q, w, n)
  <2>1. p.w.trans.kind = "robust" /\ p.w.trans.pending = FALSE /\ Basic(p.w, n)
    BY <1>1, <1>3 DEF Keeps, Similar
  <2>2. \A r \in robust_abort(p.w) : Keeps(r.w, p.w, n) /\ r.w.session.tx = "idle" /\ r.res \in {"ok", "broken"}
    BY <2>1, RobustAborts
  <2>3. PICK r \in robust_abort(p.w) : q.w = r.w /\ q.res \in {r.res, p.res} /\ q.res # "ok"
    BY <1>3, OutcomeIs DEF Then, Threw, Succeeded, abortAnd
  <2> QED BY <1>3, <2>2, <2>3, KeepsOn DEF Refuses
<1>4. ASSUME NEW p \in asks
      PROVE  /\ Keeps(p.w, w, n) /\ p.res # "in_doubt"
             /\ p.res = "ok" => Ripe(p.w, n) /\ p.w.session = w.session /\ p.w.stored = w.stored
                                /\ p.w.settings = w.settings /\ p.w.conn = "ok"
  <2>1. p \in exec(w, Run("query"), FALSE) /\ Inside(Run("query"), n) /\ InTransaction(w)
    BY <1>1, <1>4, DirectIs, OwnRecord DEF InTransaction, is_open, asks
  <2>2. /\ Keeps(p.w, w, n) /\ p.w.stored = w.stored
        /\ \/ is_open(p.w) /\ Obeys(p, w, Run("query")) /\ p.w.settings = w.settings
           \/ p.res = "broken"
    BY <1>1, <2>1, QueryInside
  <2>3. p.res = "ok" => is_open(p.w) /\ p.w.session = w.session /\ p.w.settings = w.settings
    BY <2>2 DEF Obeys, Fails
  <2>4. p.res # "in_doubt"
    BY <2>2 DEF Obeys, Fails
  <2> QED BY <1>1, <2>2, <2>3, <2>4 DEF Keeps, Similar, Basic, Ripe, is_open
<1>5. ASSUME NEW p \in asks, p.res = "ok", NEW c \in direct_exec(p.w, Run("COMMIT"), FALSE)
      PROVE  \/ c.res = "ok" /\ Stores(c, w)
             \/ c.res = "sql" /\ is_open(c.w) /\ Keeps(c.w, w, n)
             \/ /\ c.res = "broken" /\ ~is_open(c.w) /\ Gone(c.w, w) /\ c.w.conn = "bad"
                /\ c.w.stored \in {w.stored, Executed(w)}
  <2>1. Executed(p.w) = Executed(w)
    BY <1>4, <1>5 DEF Executed
  <2>2. Similar(p.w, w)
    BY <1>4 DEF Keeps
  <2>3. CASE Stores(c, p.w)
    BY <1>4, <1>5, <2>1, <2>2, <2>3 DEF Stores, Similar
  <2>4. CASE c.res = "sql" /\ is_open(c.w) /\ Keeps(c.w, p.w, n)
    BY <1>4, <2>4, KeepsOn
  <2>5. CASE /\ c.res = "broken" /\ ~is_open(c.w) /\ Gone(c.w, p.w) /\ c.w.conn = "bad"
             /\ c.w.stored \in {p.w.stored, Executed(p.w)}
    BY <1>4, <1>5, <2>1, <2>2, <2>5 DEF Gone, Similar
  <2> QED BY <1>4, <1>5, <2>3, <2>4, <2>5, CommitAnswers
<1>6. ASSUME NEW c, ~is_open(c.w), Gone(c.w, w), c.w.conn = "bad", c.w.stored \in {w.stored, Executed(w)},
             NEW q \in lost(c)
      PROVE  Doubts(q, w)
  <2>1. Linked(c.w) /\ c.w.trans.pending = FALSE
    BY <1>1, <1>6, GoneIsLinked DEF Gone, Similar
  <2>2. \A k \in CheckTransactionRecord(c.w) : k.res = "broken" /\ Gone(k.w, c.w) /\ k.w.stored = c.w.stored
    BY <1>6, <2>1, CheckTransactionRecordIs
  <2>3. PICK k \in CheckTransactionRecord(c.w) : q = Outcome(k.w, "in_doubt")
    BY <1>6, <2>2, OutcomeIs DEF Then, Threw, Succeeded, lost
  <2>4. q.w = k.w /\ q.res = "in_doubt"
    BY <2>3, OutcomeIs
  <2>5. Gone(k.w, c.w) /\ k.w.stored = c.w.stored
    BY <2>2
  <2>6. Gone(k.w, w)
    BY <1>6, <2>5 DEF Gone, Similar
  <2> QED BY <1>6, <2>4, <2>5, <2>6 DEF Doubts
<1>7. ASSUME NEW p \in asks, p.res = "ok", o \in commits(p.w)
      PROVE  Stores(o, w) \/ Refuses(o, w, n) \/ Doubts(o, w)
  <2>1. PICK c \in direct_exec(p.w, Run("COMMIT"), FALSE) :
            (c.res = "ok" /\ o = c) \/ (c.res # "ok" /\ o \in failed(c))
    BY <1>7 DEF Catch, Succeeded, Threw, commits
  <2>2. CASE c.res = "ok" /\ o = c
    BY <1>5, <1>7, <2>2
  <2>3. CASE c.res = "sql" /\ is_open(c.w) /\ Keeps(c.w, w, n)
    BY <1>3, <2>1, <2>3 DEF failed
  <2>4. CASE /\ c.res = "broken" /\ ~is_open(c.w) /\ Gone(c.w, w) /\ c.w.conn = "bad"
             /\ c.w.stored \in {w.stored, Executed(w)}
    BY <1>6, <2>1, <2>4 DEF failed
  <2> QED BY <1>5, <1>7, <2>1, <2>2, <2>3, <2>4
<1>8. \/ \E p \in asks : p.res = "ok" /\ o \in commits(p.w)
      \/ \E p \in asks : p.res # "ok" /\ \E q \in abortAnd(p) :
             (q.res # "ok" /\ o = q) \/ (q.res = "ok" /\ o \in commits(q.w))
  BY <1>2 DEF Then, Catch, Threw, Succeeded
<1>9. ASSUME NEW p \in asks, p.res # "ok", NEW q \in abortAnd(p) PROVE Refuses(q, w, n) /\ q.res # "ok"
  <2>1. Refuses(q, w, n)
    BY <1>3, <1>4, <1>9
  <2> QED BY <2>1 DEF Refuses
<1> QED BY <1>7, <1>8, <1>9

LEMMA DoCommitIs ==
    ASSUME NEW w, NEW n, n = number, Number(n), Ripe(w, n), NEW o \in do_commit(w)
    PROVE  Stores(o, w) \/ Refuses(o, w, n) \/ Doubts(o, w)
<1>1. CASE w.trans.kind = "robust"
  BY <1>1, RobustCommits DEF do_commit
<1>2. CASE w.trans.kind # "robust"
  BY <1>2, WorkCommits DEF do_commit
<1> QED BY <1>1, <1>2

-----------------------------------------------------------------------------
(* The invariant *)

In(n, db) == {k \in 1 .. MaxStatements : Statement(n, k) \in db}
Sent(n, work) == {k \in 1 .. MaxStatements : Add(Statement(n, k)) \in work}

\* No statement of a transaction to come is stored, and those of others stay.
NothingFrom(db, n) == \A m \in Nat : m >= n => \A k : Statement(m, k) \notin db
Elsewhere(db, old, n) == \A i : (\A k : i # Statement(n, k)) => (i \in db <=> i \in old)

\* The work of a session is what its client takes for acknowledged.
Holds(w, n, work, acked) ==
    /\ Sent(n, work) = acked
    /\ Run("SET") \in work <=> w.trans.vars = {"SET"}
    /\ Statement(n, 0) \notin Applied(w.stored, work)

InSubtransaction(w) == w.sub.status = "active"

Returnable(w, n) ==
    \E S : /\ w.session.save = {S} /\ Holds(w, n, S, w.trans.acked)
           /\ Holds(w, n, w.session.work, w.trans.acked \cup w.sub.acked)

\* What the client may rely on while no exception is on its way.
Sound(w, n) ==
    /\ w.trans.pending = TRUE => ~InSubtransaction(w) /\ (is_open(w) => w.session.tx = "failed")
    /\ w.trans.pending = FALSE /\ is_open(w) =>
          /\ w.session.tx = "open"
          /\ ~InSubtransaction(w) => Holds(w, n, w.session.work, w.trans.acked)
          /\ InSubtransaction(w) => Returnable(w, n)
    /\ InSubtransaction(w) => is_open(w)

IsSub(s) ==
    \/ s = NoSub
    \/ /\ DOMAIN s = {"status", "vars", "acked"} /\ s.vars = {} /\ s.acked \subseteq Nat
       /\ s.status \in {"nascent", "active", "aborted", "committed"}
       /\ s.status = "nascent" => s.acked = {}

Objects(w) ==
    /\ IsTrans(w.trans) /\ w.trans.kind \in Kinds /\ w.trans.acked \subseteq Nat
    /\ w.trans.status \in {"active", "aborted", "committed", "in_doubt"}
    /\ IsSub(w.sub)
    /\ w.sub # NoSub => w.trans.status = "active" /\ w.trans.focus = FALSE
    /\ w.trans.focus = TRUE => w.trans.status = "active" /\ w.trans.sent \in 1 .. MaxStatements

\* What the end of a transaction says of its statements.
Verdict(status, acked, logged, db, n) ==
    /\ status = "aborted" => In(n, db) = {}
    /\ status = "committed" => In(n, db) = acked
    /\ status = "in_doubt" => In(n, db) \in {{}, acked}
    /\ Statement(n, 0) \in db => In(n, db) = {}
    /\ status = "in_doubt" /\ logged = TRUE /\ Statement(n, 0) \notin db => In(n, db) = acked

Over(w, n) == w.session.tx = "idle" /\ Verdict(w.trans.status, w.trans.acked, w.trans.logged, w.stored, n)

\* With a transaction object, the n-th.
Whole(w, n) ==
    /\ Basic(w, n) /\ Objects(w) /\ NothingFrom(w.stored, n + 1)
    /\ w.trans.status = "active" => /\ In(n, w.stored) = {}
                                    /\ w.trans.logged = TRUE => Statement(n, 0) \in w.stored
    /\ w.trans.status # "active" => Over(w, n)
    /\ w.trans.focus = TRUE => InTransaction(w)

\* And with no exception on its way.
Calm(w, n) == w.trans.status = "active" => InTransaction(w) /\ Sound(w, n)

\* How a call of the client ends.
Ends(o, w, n) ==
    Whole(o.w, n) /\ Elsewhere(o.w.stored, w.stored, n) /\ (o.res = "ok" => Calm(o.w, n))

-----------------------------------------------------------------------------
(* Databases *)

LEMMA StatementIs ==
    /\ \A m, n, j, k : Statement(m, j) = Statement(n, k) <=> m = n /\ j = k
    /\ LogTable = Statement(0, 0)
  BY DEF Statement, LogTable

LEMMA SameButIs ==
    ASSUME NEW db, NEW old, NEW n, SameBut(db, old, n)
    PROVE  In(n, db) = In(n, old) /\ Elsewhere(db, old, n)
<1>1. \A k \in 1 .. MaxStatements : Statement(n, k) # Statement(n, 0)
  BY StatementIs
<1> QED BY <1>1 DEF SameBut, In, Elsewhere

LEMMA NothingStays ==
    ASSUME NEW db, NEW old, NEW n, Number(n), Elsewhere(db, old, n), NothingFrom(old, n + 1)
    PROVE  NothingFrom(db, n + 1)
<1>1. ASSUME NEW m \in Nat, m >= n + 1, NEW k PROVE Statement(m, k) \notin db
  <2>1. \A j : Statement(m, k) # Statement(n, j)
    BY <1>1, StatementIs DEF Number
  <2> QED BY <1>1, <2>1 DEF Elsewhere, NothingFrom
<1> QED BY <1>1 DEF NothingFrom

LEMMA ElsewhereOn ==
    \A a, b, c, n : Elsewhere(a, b, n) /\ Elsewhere(b, c, n) => Elsewhere(a, c, n)
  BY DEF Elsewhere

LEMMA ElsewhereItself == \A a, n : Elsewhere(a, a, n)
  BY DEF Elsewhere

AllOwn(work, n) == \A c \in work : Own(c, n)
Extends(db, old, work, n) ==
    /\ \A k \in 1 .. MaxStatements :
           Statement(n, k) \in db <=> Statement(n, k) \in old \/ Add(Statement(n, k)) \in work
    /\ \A i : (\A k : i # Statement(n, k)) => (i \in db <=> i \in old)

LEMMA AppliedExtends ==
    ASSUME NEW n, NEW db, NEW work, AllOwn(work, n)
    PROVE  Extends(Applied(db, work), db, work, n)
  BY AppliedIs DEF AllOwn, Extends

\* What COMMIT stores.
LEMMA ExecutedIs ==
    ASSUME NEW w, NEW n, Number(n), Basic(w, n), NEW acked, Holds(w, n, w.session.work, acked),
           In(n, w.stored) = {}
    PROVE  /\ In(n, Executed(w)) = acked /\ Statement(n, 0) \notin Executed(w)
           /\ Elsewhere(Executed(w), w.stored, n) /\ LogTable \in Executed(w)
<1>1. AllOwn(w.session.work, n)
  BY DEF Basic, Tidy, AllOwn
<1>2. Extends(Executed(w), w.stored, w.session.work, n)
  BY <1>1, AppliedExtends DEF Executed
<1>3. In(n, Executed(w)) = acked
  BY <1>2 DEF In, Holds, Sent, Extends
<1>4. \A k : LogTable # Statement(n, k)
  BY StatementIs DEF Number
<1> QED BY <1>2, <1>3, <1>4 DEF Elsewhere, Holds, Basic, Executed, Extends

LEMMA InEffectIs ==
    ASSUME NEW w, NEW n, Basic(w, n), w.trans.vars \in {{}, {"SET"}}, NEW acked,
           Holds(w, n, w.session.work, acked)
    PROVE  InEffect(w.session) = w.session.set \cup w.trans.vars
<1>1. Run("LISTEN") \notin w.session.work
  BY OwnIs, OpIs DEF Basic, Tidy
<1>2. Run("SET") \in w.session.work <=> "SET" \in w.trans.vars
  BY DEF Holds
<1> QED BY <1>1, <1>2 DEF InEffect

-----------------------------------------------------------------------------
(* Calls of the client: commit *)

\* Two worlds with the same transaction of the same status.
Alike(v, w) ==
    /\ v.sub = w.sub /\ DOMAIN v.trans = TransFields
    /\ v.trans.kind = w.trans.kind /\ v.trans.focus = w.trans.focus /\ v.trans.vars = w.trans.vars
    /\ v.trans.sent = w.trans.sent /\ v.trans.acked = w.trans.acked /\ v.trans.logged = w.trans.logged

LEMMA AlikeObjects ==
    ASSUME NEW v, NEW w, Objects(w), Alike(v, w), v.trans.pending \in BOOLEAN, v.trans.status = w.trans.status
    PROVE  Objects(v)
  BY DEF Objects, Alike, IsTrans

LEMMA OverObjects ==
    ASSUME NEW v, NEW w, Objects(w), Alike(v, w), v.trans.pending \in BOOLEAN, w.sub = NoSub,
           w.trans.focus = FALSE, v.trans.status \in {"active", "aborted", "committed", "in_doubt"}
    PROVE  Objects(v)
  BY DEF Objects, Alike, IsTrans

\* An error is told, or dropped.
LEMMA ToldIs ==
    ASSUME NEW v, NEW w, NEW n, Number(n), Whole(w, n), Wrote(v, w, "pending"), v.trans.pending \in BOOLEAN
    PROVE  Whole(v, n) /\ Elsewhere(v.stored, w.stored, n)
<1>1. Same(v, w) /\ Alike(v, w) /\ v.trans.status = w.trans.status
  BY PendingWritten DEF Alike
<1>2. Objects(v)
  BY <1>1, AlikeObjects DEF Whole
<1>3. Basic(v, n)
  BY <1>1, BasicSame DEF Whole
<1> QED BY <1>1, <1>2, <1>3, ElsewhereItself DEF Whole, Same, Alike, Over, InTransaction, is_open

\* What settles the status of a transaction: nothing is open.
LEMMA SettledIs ==
    ASSUME NEW v, NEW w, NEW n, Number(n), Whole(w, n), w.sub = NoSub, w.trans.focus = FALSE,
           Basic(v, n), v.session.tx = "idle", Elsewhere(v.stored, w.stored, n),
           Alike(v, w), v.trans.pending = FALSE, v.trans.status \in {"aborted", "committed", "in_doubt"},
           Verdict(v.trans.status, w.trans.acked, w.trans.logged, v.stored, n)
    PROVE  Whole(v, n) /\ Calm(v, n)
<1>1. Objects(v)
  <2>1. v.trans.pending \in BOOLEAN
    OBVIOUS
  <2> QED BY <2>1, OverObjects DEF Whole
<1>2. NothingFrom(v.stored, n + 1)
  BY NothingStays DEF Whole
<1>3. /\ v.trans.acked = w.trans.acked /\ v.trans.logged = w.trans.logged
      /\ v.trans.focus = FALSE /\ v.trans.status # "active"
  BY DEF Alike
<1>4. Over(v, n)
  BY <1>3 DEF Over
<1> QED BY <1>1, <1>2, <1>3, <1>4 DEF Whole, Calm

LEMMA AddVariablesIs ==
    ASSUME NEW w, IsWorld(w), NEW vars
    PROVE  LET v == add_variables(w, vars)
           IN  /\ Similar(v, w) /\ v.conn = w.conn /\ v.session = w.session /\ v.stored = w.stored
               /\ v.settings = w.settings \cup vars
  BY DEF add_variables, IsWorld, Fields, Similar

LEMMA StatusThenError ==
    ASSUME NEW w, IsWorld(w), DOMAIN w.trans = TransFields, NEW x
    PROVE  LET v == DropError(WithStatus(w, x))
           IN  Same(v, w) /\ Alike(v, w) /\ v.trans.pending = FALSE /\ v.trans.status = x
<1> DEFINE u == WithStatus(w, x)
<1>1. Wrote(u, w, "status") /\ u.trans.status = x
  BY WritingValues
<1> HIDE DEF u
<1>2. Same(u, w) /\ Alike(u, w) /\ IsWorld(u) /\ DOMAIN u.trans = TransFields
  BY <1>1, StatusWritten DEF Alike
<1>3. Same(DropError(u), u) /\ Settled(DropError(u), u, u.trans.status)
  BY <1>2, DropErrorIs
<1>4. DropError(u).trans.pending = FALSE
  BY <1>3 DEF Settled
<1>5. Alike(DropError(u), w) /\ Same(DropError(u), w)
  BY <1>2, <1>3, SameOn DEF Alike, Settled
<1> QED BY <1>1, <1>3, <1>4, <1>5 DEF u, Settled

\* A transaction that COMMIT may be sent for.
Final(w, n) ==
    /\ Whole(w, n) /\ Ripe(w, n) /\ w.sub = NoSub /\ w.trans.focus = FALSE /\ w.trans.status = "active"
    /\ Holds(w, n, w.session.work, w.trans.acked)

LEMMA ObjectsFields ==
    ASSUME NEW w, NEW n, Whole(w, n)
    PROVE  /\ DOMAIN w.trans = TransFields /\ IsWorld(w) /\ w.trans.vars \in {{}, {"SET"}}
           /\ w.trans.pending \in BOOLEAN /\ w.trans.focus \in BOOLEAN /\ IsTrans(w.trans)
           /\ Basic(w, n) /\ Linked(w)
  BY DEF Whole, Objects, IsTrans, Basic, Linked

LEMMA CommittedIs ==
    ASSUME NEW w, NEW n, Number(n), Final(w, n), NEW c, Stores(c, w),
           NEW v, v = DropError(WithStatus(add_variables(c.w, c.w.trans.vars), "committed"))
    PROVE  Whole(v, n) /\ Calm(v, n) /\ Elsewhere(v.stored, w.stored, n)
<1> DEFINE a == add_variables(c.w, c.w.trans.vars)
<1>1. IsWorld(c.w) /\ c.w.trans = w.trans /\ c.w.sub = w.sub
  BY DEF Stores, Similar
<1>2. /\ Similar(a, c.w) /\ a.conn = c.w.conn /\ a.session = c.w.session /\ a.stored = c.w.stored
      /\ a.settings = c.w.settings \cup c.w.trans.vars
  BY <1>1, AddVariablesIs
<1> HIDE DEF a
<1>3. DOMAIN w.trans = TransFields /\ Basic(w, n) /\ w.trans.vars \in {{}, {"SET"}} /\ is_open(w)
  BY ObjectsFields DEF Final, Ripe
<1>4. IsWorld(a) /\ a.trans = w.trans /\ a.sub = w.sub /\ DOMAIN a.trans = TransFields
  BY <1>1, <1>2, <1>3 DEF Similar
<1>5. Same(v, a) /\ Alike(v, a) /\ v.trans.pending = FALSE /\ v.trans.status = "committed"
  BY <1>4, StatusThenError, ZenonT(60) DEF a
<1>6. Holds(w, n, w.session.work, w.trans.acked) /\ In(n, w.stored) = {}
  BY DEF Final, Whole
<1>7. /\ In(n, Executed(w)) = w.trans.acked /\ Statement(n, 0) \notin Executed(w)
      /\ Elsewhere(Executed(w), w.stored, n) /\ LogTable \in Executed(w)
  BY <1>3, <1>6, ExecutedIs
<1>8. /\ InEffect(w.session) = (w.settings \ w.session.lost) \cup w.trans.vars
      /\ "PREPARE" \notin w.session.lost
  BY <1>3, <1>6, InEffectIs DEF Basic, is_open, Tidy
<1>9. v.conn = "ok" /\ v.stored = Executed(w) /\ v.session = Idling(w.session, InEffect(w.session))
      /\ v.settings = w.settings \cup w.trans.vars
  BY <1>1, <1>2, <1>5 DEF Stores, Same
<1>10. Basic(v, n)
  <2>1. Tidy(v.session, n)
    BY <1>8, <1>9, FreshIsTidy
  <2>2. /\ Idling(w.session, InEffect(w.session)).set = InEffect(w.session)
        /\ Idling(w.session, InEffect(w.session)).lost = w.session.lost \ InEffect(w.session)
    BY DEF Idling, Fresh
  <2>3. v.session.set = v.settings \ v.session.lost
    BY <1>8, <1>9, <2>2
  <2>4. IsWorld(v)
    BY <1>5 DEF Same
  <2>5. Linked(v)
    BY <1>9, <2>1, <2>4 DEF Linked, Tidy
  <2> QED BY <1>7, <1>9, <2>1, <2>3, <2>5 DEF Basic
<1>11. v.session.tx = "idle"
  BY <1>9 DEF Idling, Fresh
<1>12. Verdict("committed", w.trans.acked, w.trans.logged, v.stored, n)
  BY <1>7, <1>9 DEF Verdict
<1>13. Alike(v, w)
  BY <1>4, <1>5 DEF Alike
<1>14. Whole(w, n) /\ w.sub = NoSub /\ w.trans.focus = FALSE
  BY DEF Final
<1> QED BY <1>5, <1>7, <1>9, <1>10, <1>11, <1>12, <1>13, <1>14, SettledIs

LEMMA UndecidedIs ==
    ASSUME NEW w, NEW n, Number(n), Final(w, n), NEW c, Doubts(c, w), NEW v, v = WithStatus(c.w, "in_doubt")
    PROVE  Whole(v, n) /\ Calm(v, n) /\ Elsewhere(v.stored, w.stored, n)
<1>1. IsWorld(c.w) /\ c.w.trans = w.trans /\ c.w.sub = w.sub /\ Gone(c.w, w)
  BY DEF Doubts, Gone, Similar
<1>2. DOMAIN w.trans = TransFields /\ Basic(w, n)
  BY ObjectsFields DEF Final
<1>3. Wrote(v, c.w, "status") /\ v.trans.status = "in_doubt"
  BY <1>1, <1>2, WritingValues
<1>4. Same(v, c.w) /\ Alike(v, w) /\ v.trans.pending = FALSE
  BY <1>1, <1>3, StatusWritten DEF Alike, Final, Ripe
<1>5. /\ In(n, w.stored) = {} /\ (w.trans.logged = TRUE => Statement(n, 0) \in w.stored)
      /\ Whole(w, n) /\ w.sub = NoSub /\ w.trans.focus = FALSE
  BY DEF Final, Whole
<1>6. /\ In(n, Executed(w)) = w.trans.acked /\ Statement(n, 0) \notin Executed(w)
      /\ Elsewhere(Executed(w), w.stored, n) /\ LogTable \in Executed(w)
  BY <1>2, <1>5, ExecutedIs DEF Final
<1>7. c.w.stored \in {w.stored, Executed(w)}
  BY DEF Doubts
<1>8. Elsewhere(v.stored, w.stored, n) /\ LogTable \in c.w.stored /\ Verdict("in_doubt", w.trans.acked, w.trans.logged, v.stored, n)
  BY <1>2, <1>4, <1>5, <1>6, <1>7, ElsewhereItself DEF Same, Basic, Verdict
<1>9. Basic(v, n) /\ v.session.tx = "idle"
  <2>1. Basic(c.w, n)
    BY <1>1, <1>2, <1>8, GoneBasic
  <2> QED BY <1>1, <1>4, <2>1, BasicSame, FreshIs DEF Same, Gone
<1> QED BY <1>3, <1>4, <1>5, <1>8, <1>9, SettledIs

LEMMA RefusedIs ==
    ASSUME NEW w, NEW n, Number(n), Whole(w, n), w.trans.status = "active", w.trans.pending = FALSE,
           w.sub = NoSub, w.trans.focus = FALSE,
           NEW c, Keeps(c.w, w, n), c.w.session.tx = "idle", NEW v, v = WithStatus(c.w, "aborted")
    PROVE  Whole(v, n) /\ Calm(v, n) /\ Elsewhere(v.stored, w.stored, n)
<1>1. IsWorld(c.w) /\ c.w.trans = w.trans /\ c.w.sub = w.sub /\ Basic(c.w, n)
  BY DEF Keeps, Similar
<1>2. DOMAIN w.trans = TransFields
  BY ObjectsFields
<1>3. Wrote(v, c.w, "status") /\ v.trans.status = "aborted"
  BY <1>1, <1>2, WritingValues
<1>4. Same(v, c.w) /\ Alike(v, w) /\ v.trans.pending = FALSE
  BY <1>1, <1>3, StatusWritten DEF Alike
<1>5. In(n, v.stored) = {} /\ Elsewhere(v.stored, w.stored, n)
  BY <1>4, SameButIs DEF Keeps, Same, Whole
<1>6. Verdict("aborted", w.trans.acked, w.trans.logged, v.stored, n)
  BY <1>5 DEF Verdict
<1>7. Basic(v, n) /\ v.session.tx = "idle"
  BY <1>1, <1>4, BasicSame DEF Same
<1> QED BY <1>3, <1>4, <1>5, <1>6, <1>7, SettledIs

LEMMA EndsSame ==
    ASSUME NEW o, NEW w, NEW n, Whole(w, n), o.w = w, o.res = "ok" => Calm(w, n)
    PROVE  Ends(o, w, n)
  BY ElsewhereItself DEF Ends

\* A pending error comes first.
LEMMA PendingFirst ==
    ASSUME NEW w, NEW n, Number(n), Whole(w, n), NEW o \in CheckPendingError(w)
    PROVE  /\ o.res \in {"ok", "failure"}
           /\ o.res = "ok" => o = Outcome(w, "ok") /\ w.trans.pending = FALSE
           /\ o.res = "failure" => Ends(o, w, n)
<1>1. CASE w.trans.pending = FALSE
  BY <1>1, OutcomeIs DEF CheckPendingError
<1>2. CASE w.trans.pending = TRUE
  <2>1. o.w = [w EXCEPT !.trans.pending = FALSE] /\ o.res = "failure"
    BY <1>2, OutcomeIs DEF CheckPendingError
  <2>2. Wrote(o.w, w, "pending") /\ o.w.trans.pending = FALSE
    BY <2>1, ObjectsFields, Writing
  <2>3. o.w.trans.pending \in BOOLEAN
    BY <2>2
  <2> QED BY <1>2, <2>1, <2>2, <2>3, ToldIs DEF Ends
<1> QED BY <1>1, <1>2, ObjectsFields

LEMMA CommitIs ==
    ASSUME NEW w, NEW n, n = number, Number(n), Whole(w, n), Calm(w, n), w.sub = NoSub, NEW o \in commit(w)
    PROVE  Ends(o, w, n)
<1> DEFINE settle(p) == {Outcome(WithStatus(p.w, IF p.res = "in_doubt" THEN "in_doubt" ELSE "aborted"), p.res)}
           committed(v) == {Outcome(DropError(WithStatus(add_variables(v, v.trans.vars), "committed")), "ok")}
           settling == Then(Catch(do_commit(w), settle), committed)
<1>0. w.trans.status \in {"active", "aborted", "committed", "in_doubt"}
  BY DEF Whole, Objects
<1>p. ASSUME NEW p \in CheckPendingError(w)
      PROVE  /\ p.res \in {"ok", "failure"}
             /\ p.res = "ok" => p = Outcome(w, "ok") /\ w.trans.pending = FALSE
             /\ p.res = "failure" => Ends(p, w, n)
  BY <1>p, PendingFirst
<1>1. \/ o \in CheckPendingError(w) /\ o.res # "ok"
      \/ /\ Outcome(w, "ok") \in CheckPendingError(w)
         /\ \/ w.trans.status = "committed" /\ o = Outcome(w, "ok")
            \/ w.trans.status = "aborted" /\ o = Outcome(w, "usage")
            \/ w.trans.status = "in_doubt" /\ o = Outcome(w, "in_doubt")
            \/ w.trans.status = "active" /\ w.trans.focus = TRUE /\ o = Outcome(w, "failure")
            \/ w.trans.status = "active" /\ w.trans.focus = FALSE /\ ~is_open(w) /\ o = Outcome(w, "broken")
            \/ w.trans.status = "active" /\ w.trans.focus = FALSE /\ is_open(w) /\ o \in settling
  <2> DEFINE proceed(v) ==
          CASE v.trans.status = "committed" -> {Outcome(v, "ok")}
            [] v.trans.status = "aborted" -> {Outcome(v, "usage")}
            [] v.trans.status = "in_doubt" -> {Outcome(v, "in_doubt")}
            [] v.trans.status = "active" ->
                  IF v.trans.focus THEN {Outcome(v, "failure")}
                  ELSE IF ~is_open(v) THEN {Outcome(v, "broken")}
                  ELSE Then(Catch(do_commit(v), settle), committed)
  <2>1. commit(w) = Then(CheckPendingError(w), proceed)
    BY DEF commit
  <2> HIDE DEF proceed
  <2>2. \/ o \in CheckPendingError(w) /\ o.res # "ok"
        \/ \E p \in CheckPendingError(w) : p.res = "ok" /\ o \in proceed(p.w)
    BY <2>1 DEF Then, Threw, Succeeded
  <2>3. ASSUME NEW p \in CheckPendingError(w), p.res = "ok" PROVE p = Outcome(w, "ok") /\ p.w = w
    BY <1>p, <2>3, OutcomeIs, ZenonT(60)
  <2>4. ASSUME o \in proceed(w)
        PROVE  \/ w.trans.status = "committed" /\ o = Outcome(w, "ok")
               \/ w.trans.status = "aborted" /\ o = Outcome(w, "usage")
               \/ w.trans.status = "in_doubt" /\ o = Outcome(w, "in_doubt")
               \/ w.trans.status = "active" /\ w.trans.focus = TRUE /\ o = Outcome(w, "failure")
               \/ w.trans.status = "active" /\ w.trans.focus = FALSE /\ ~is_open(w) /\ o = Outcome(w, "broken")
               \/ w.trans.status = "active" /\ w.trans.focus = FALSE /\ is_open(w) /\ o \in settling
    <3>1. w.trans.focus \in BOOLEAN
      BY ObjectsFields
    <3> QED BY <1>0, <2>4, <3>1 DEF proceed
  <2> QED BY <2>2, <2>3, <2>4
<1> HIDE DEF settling, settle, committed
<1>2. CASE o \in CheckPendingError(w) /\ o.res # "ok"
  BY <1>2, <1>p
<1>3. CASE \E res \in {"ok", "usage", "in_doubt", "failure", "broken"} : o = Outcome(w, res)
  <2>1. o.w = w
    BY <1>3, OutcomeIs
  <2> QED BY <2>1, EndsSame
<1>4. CASE /\ w.trans.status = "active" /\ w.trans.focus = FALSE /\ is_open(w) /\ o \in settling
           /\ w.trans.pending = FALSE
  <2>1. Final(w, n)
    <3>1. ~InSubtransaction(w)
      BY DEF InSubtransaction, NoSub
    <3> QED BY <1>4, <3>1 DEF Final, Calm, Sound, Ripe, Whole
  <2>2. \/ \E c \in do_commit(w) : c.res = "ok" /\ o \in committed(c.w)
        \/ \E c \in do_commit(w) : c.res # "ok" /\ o \in settle(c)
    <3>1. \A c \in do_commit(w) : \A q \in settle(c) : q.res = c.res
      BY OutcomeIs DEF settle
    <3>2. \/ \E c \in do_commit(w) : c.res = "ok" /\ o \in committed(c.w)
          \/ \E c \in do_commit(w) : c.res # "ok" /\ \E q \in settle(c) :
                 (q.res # "ok" /\ o = q) \/ (q.res = "ok" /\ o \in committed(q.w))
      BY <1>4 DEF settling, Then, Catch, Threw, Succeeded
    <3> QED BY <3>1, <3>2
  <2>3. ASSUME NEW c \in do_commit(w), c.res = "ok", o \in committed(c.w) PROVE Ends(o, w, n)
    <3>1. Stores(c, w)
      BY <2>1, <2>3, DoCommitIs DEF Final, Refuses, Doubts
    <3>2. o.w = DropError(WithStatus(add_variables(c.w, c.w.trans.vars), "committed"))
      BY <2>3, OutcomeIs DEF committed
    <3> QED BY <2>1, <3>1, <3>2, CommittedIs DEF Ends
  <2>4. ASSUME NEW c \in do_commit(w), c.res # "ok", o \in settle(c) PROVE Ends(o, w, n)
    <3>1. CASE Doubts(c, w)
      <4>1. o.w = WithStatus(c.w, "in_doubt")
        BY <2>4, <3>1, OutcomeIs DEF Doubts, settle
      <4> QED BY <2>1, <3>1, <4>1, UndecidedIs DEF Ends
    <3>2. CASE Refuses(c, w, n)
      <4>1. o.w = WithStatus(c.w, "aborted")
        BY <2>4, <3>2, OutcomeIs DEF Refuses, settle
      <4> QED BY <2>1, <3>2, <4>1, RefusedIs DEF Ends, Refuses, Final, Ripe
    <3> QED BY <2>1, <2>4, <3>1, <3>2, DoCommitIs DEF Final, Stores
  <2> QED BY <2>2, <2>3, <2>4
<1>5. Outcome(w, "ok") \in CheckPendingError(w) => w.trans.pending = FALSE
  <2>1. Outcome(w, "ok").res = "ok"
    BY OutcomeIs
  <2> QED BY <1>p, <2>1
<1> QED BY <1>1, <1>2, <1>3, <1>4, <1>5

-----------------------------------------------------------------------------
(* Calls of the client: statements *)

LEMMA AbortEnds ==
    ASSUME NEW w, NEW n, n = number, Number(n), Whole(w, n), w.trans.pending = FALSE, w.trans.focus = FALSE,
           w.sub = NoSub, NEW o \in abort(w)
    PROVE  Whole(o.w, n) /\ Calm(o.w, n) /\ Elsewhere(o.w.stored, w.stored, n)
<1>1. CASE w.trans.status = "active"
  <2>1. Closed(o.w, w, n) /\ Settled(o.w, w, "aborted")
    BY <1>1, ObjectsFields, AbortIs
  <2>2. In(n, o.w.stored) = {} /\ Elsewhere(o.w.stored, w.stored, n)
    BY <1>1, <2>1, SameButIs DEF Closed, Whole
  <2>3. Verdict("aborted", w.trans.acked, w.trans.logged, o.w.stored, n)
    BY <2>2 DEF Verdict
  <2>4. Alike(o.w, w) /\ o.w.trans.pending = FALSE /\ o.w.trans.status = "aborted"
    BY <2>1 DEF Settled, Alike
  <2> QED BY <2>1, <2>2, <2>3, <2>4, SettledIs DEF Closed
<1>2. CASE w.trans.status # "active"
  <2>1. o.w = w
    BY <1>2, OutcomeIs, ZenonT(60) DEF abort, Whole, Objects
  <2> QED BY <1>2, <2>1, ElsewhereItself DEF Calm
<1> QED BY <1>1, <1>2

\* In the session nothing has been done but c, and that only on success.
Did(v, w, c) ==
    /\ is_open(w) /\ is_open(v) /\ w.session.tx = "open" /\ v.session.tx = "open"
    /\ v.session.work = w.session.work \cup {c} /\ v.session.save = w.session.save

Answered(o, w, c, n) ==
    /\ Keeps(o.w, w, n) /\ o.w.stored = w.stored
    /\ o.res = "ok" => Did(o.w, w, c)

LEMMA WorkingIs ==
    ASSUME NEW s, Session(s), NEW c
    PROVE  /\ Working(s, c).tx = s.tx /\ Working(s, c).work = s.work \cup {c} /\ Working(s, c).save = s.save
  BY DEF Working, Session

LEMMA ObeysDid ==
    ASSUME NEW o, NEW w, NEW n, Basic(w, n), NEW c, Own(c, n), Obeys(o, w, c), is_open(w), is_open(o.w), o.res = "ok"
    PROVE  Did(o.w, w, c)
<1>1. c.op \in {"SET", "add", "remove"} /\ Session(w.session)
  BY OwnIs DEF Basic, Tidy
<1>2. w.session.tx = "open" /\ o.w.session = Working(w.session, c)
  BY <1>1 DEF Obeys, Fails
<1> QED BY <1>1, <1>2, WorkingIs DEF Did

LEMMA ExecDid ==
    ASSUME NEW w, NEW n, Basic(w, n), Number(n), InTransaction(w), NEW c, Own(c, n), NEW o \in exec(w, c, FALSE)
    PROVE  Answered(o, w, c, n)
<1>1. Inside(c, n)
  BY DEF Inside
<1>2. /\ Keeps(o.w, w, n) /\ o.w.stored = w.stored
      /\ \/ is_open(w) /\ is_open(o.w) /\ Obeys(o, w, c)
         \/ /\ o.res = "broken" /\ ~is_open(o.w) /\ o.w.session = Fresh
            /\ is_open(w) => o.w.conn = "bad"
  BY <1>1, ExecInside
<1> QED BY <1>2, ObeysDid DEF Answered

LEMMA ParamsDid ==
    ASSUME NEW w, NEW n, Basic(w, n), Number(n), InTransaction(w), NEW c, Own(c, n), NEW o \in exec_params(w, c)
    PROVE  /\ Answered(o, w, c, n) /\ InTransaction(o.w)
           /\ o.res # "ok" /\ is_open(o.w) => o.w.session.tx = "failed"
<1>1. Inside(c, n)
  BY DEF Inside
<1>2. /\ Keeps(o.w, w, n) /\ o.w.stored = w.stored
      /\ \/ is_open(w) /\ is_open(o.w) /\ Obeys(o, w, c)
         \/ o.res = "broken" /\ ~is_open(o.w) /\ o.w.conn = "bad" /\ o.w.session = Fresh
  BY <1>1, PQexecInside
<1>3. CASE is_open(w) /\ is_open(o.w) /\ Obeys(o, w, c)
  <2>1. c.op \in {"SET", "add", "remove"} /\ Session(w.session) /\ w.session.tx \in {"open", "failed"}
    BY <1>3, OwnIs DEF Basic, Tidy, InTransaction
  <2>2. o.w.session \in {Failed(w.session), Working(w.session, c)}
    BY <1>3, <2>1 DEF Obeys, Fails
  <2>3. o.w.session.tx # "idle"
    BY <2>1, <2>2, WorkingIs DEF Failed, Session
  <2>4. o.res # "ok" => o.w.session.tx = "failed"
    BY <1>3, <2>1 DEF Obeys, Fails, Failed, Session
  <2> QED BY <1>2, <1>3, <2>3, <2>4, ObeysDid DEF Answered, InTransaction, is_open
<1>4. CASE o.res = "broken" /\ ~is_open(o.w) /\ o.w.conn = "bad"
  BY <1>2, <1>4 DEF Answered, InTransaction
<1> QED BY <1>2, <1>3, <1>4

LEMMA CopyDid ==
    ASSUME NEW w, NEW n, Basic(w, n), Number(n), InTransaction(w), NEW c, Own(c, n), NEW o \in end_copy_write(w, c)
    PROVE  /\ Answered(o, w, c, n) /\ InTransaction(o.w)
           /\ o.res # "ok" /\ is_open(o.w) => o.w.session.tx = "failed"
<1>1. CASE is_open(w)
  BY <1>1, ParamsDid DEF end_copy_write, exec_params
<1>2. CASE ~is_open(w)
  BY <1>2, OutcomeIs, KeepsItself DEF end_copy_write, Answered
<1> QED BY <1>1, <1>2

\* PREPARE changes the settings of the session only.
LEMMA PreparedIs ==
    ASSUME NEW s, Session(s)
    PROVE  /\ Prepared(s).tx = s.tx /\ Prepared(s).work = s.work /\ Prepared(s).save = s.save
           /\ Prepared(s).set = s.set \cup {"PREPARE"} /\ Prepared(s).lost = s.lost
           /\ Session(Prepared(s))
  BY DEF Prepared, Session

LEMMA ActivatedIs ==
    ASSUME NEW w, NEW n, Basic(w, n), Number(n), w.conn # "none", NEW o \in activate(w)
    PROVE  \/ o.res = "ok" /\ is_open(w) /\ o.w = w
           \/ o.res = "broken" /\ ~is_open(o.w) /\ Keeps(o.w, w, n) /\ o.w.stored = w.stored
<1>1. Linked(w)
  BY DEF Basic
<1> QED BY <1>1, ActivateIs, BrokenKeeps DEF Breaks

WithSettings(w, set) == [w EXCEPT !.settings = set]

LEMMA WithSettingsIs ==
    ASSUME NEW w, IsWorld(w), NEW set
    PROVE  LET v == WithSettings(w, set)
           IN  /\ Similar(v, w) /\ v.conn = w.conn /\ v.session = w.session /\ v.stored = w.stored
               /\ v.settings = set
  BY DEF WithSettings, IsWorld, Fields, Similar

\* The same session, but for what it has set.
Equipped(o, w, n) ==
    /\ Keeps(o.w, w, n) /\ o.w.stored = w.stored
    /\ o.res = "ok" => /\ is_open(w) /\ is_open(o.w)
                       /\ o.w.session.tx = w.session.tx /\ o.w.session.work = w.session.work
                       /\ o.w.session.save = w.session.save

LEMMA PrepareIs ==
    ASSUME NEW w, NEW n, Basic(w, n), Number(n), is_open(w), w.session.tx # "idle",
           NEW p \in PQexec(w, Run("PREPARE"))
    PROVE  \/ p.res = "ok" /\ Now(p.w, w, Prepared(w.session), w.stored)
           \/ p.res = "sql" /\ Keeps(p.w, w, n) /\ p.w.stored = w.stored
           \/ p.res \in {"lost", "broken"} /\ Keeps(p.w, w, n) /\ p.w.stored = w.stored
<1>0. Linked(w) /\ IsWorld(w) /\ Tidy(w.session, n) /\ Session(w.session)
  BY DEF Basic, Linked, Tidy
<1>1. Command(Run("PREPARE"))
  BY DEF Command, Commands
<1>2. ASSUME NEW e \in Executes(w, Run("PREPARE"))
      PROVE  /\ e.w.stored = w.stored
             /\ Runs(e, w, Prepared(w.session)) \/ FailsWith(e, w, w.session)
  BY <1>0, <1>2, PrepareRuns, NowIs
<1>3. CASE p \in Executes(w, Run("PREPARE"))
  <2>1. CASE Runs(p, w, Prepared(w.session))
    BY <2>1 DEF Runs
  <2>2. CASE FailsWith(p, w, w.session)
    <3>1. Basic(p.w, n) /\ SameBut(p.w.stored, w.stored, n)
      BY <2>2, FailIsTidy
    <3> QED BY <2>2, <3>1 DEF FailsWith, Now, Keeps
  <2> QED BY <1>2, <1>3, <2>1, <2>2
<1>4. CASE Lost(p, w, Run("PREPARE"))
  <2>1. p.w.stored = w.stored
    BY <1>2, <1>4 DEF Lost
  <2> QED BY <1>4, <2>1, BrokenKeeps DEF Lost
<1> QED BY <1>0, <1>1, <1>3, <1>4, PQexecIs

LEMMA RegisterIs ==
    ASSUME NEW w, NEW n, Basic(w, n), Number(n), InTransaction(w), NEW o \in register_prepared(w)
    PROVE  Equipped(o, w, n)
<1> DEFINE prepared(v) == {Outcome([v EXCEPT !.settings = @ \cup {"PREPARE"}], "ok")}
           registers(v) == IF "PREPARE" \in v.settings THEN {Outcome(v, "ok")}
                           ELSE Then(checked(PQexec(v, Run("PREPARE"))), prepared)
<1>1. o \in Then(activate(w), registers)
  BY DEF register_prepared
<1> HIDE DEF registers
<1>2. \/ \E a \in activate(w) : a.res # "ok" /\ o = a
      \/ \E a \in activate(w) : a.res = "ok" /\ o \in registers(a.w)
  BY <1>1 DEF Then, Threw, Succeeded
<1>3. \A a \in activate(w) :
          \/ a.res = "ok" /\ is_open(w) /\ a.w = w
          \/ a.res = "broken" /\ Keeps(a.w, w, n) /\ a.w.stored = w.stored
  BY ActivatedIs DEF InTransaction
<1>4. CASE \E a \in activate(w) : a.res # "ok" /\ o = a
  BY <1>3, <1>4 DEF Equipped
<1>5. CASE is_open(w) /\ o \in registers(w)
  <2>1. CASE "PREPARE" \in w.settings
    <3>1. o.w = w
      BY <1>5, <2>1, OutcomeIs DEF registers
    <3> QED BY <1>5, <3>1, KeepsItself DEF Equipped
  <2>2. CASE "PREPARE" \notin w.settings
    <3>1. PICK q \in checked(PQexec(w, Run("PREPARE"))) :
              (q.res # "ok" /\ o = q) \/ (q.res = "ok" /\ o \in prepared(q.w))
      BY <1>5, <2>2 DEF registers, Then, Threw, Succeeded
    <3>2. PICK p \in PQexec(w, Run("PREPARE")) : q.w = p.w /\ (q.res = p.res \/ (p.res = "lost" /\ q.res = "broken"))
      BY CheckedIs, OutcomeIs
    <3>3. \/ p.res = "ok" /\ Now(p.w, w, Prepared(w.session), w.stored)
          \/ p.res # "ok" /\ Keeps(p.w, w, n) /\ p.w.stored = w.stored
      BY <1>5, PrepareIs DEF InTransaction
    <3>4. CASE p.res # "ok" /\ Keeps(p.w, w, n) /\ p.w.stored = w.stored
      BY <3>1, <3>2, <3>4 DEF Equipped
    <3>5. CASE p.res = "ok" /\ Now(p.w, w, Prepared(w.session), w.stored)
      <4>1. o.w = WithSettings(p.w, p.w.settings \cup {"PREPARE"})
        BY <3>1, <3>2, <3>5, OutcomeIs DEF WithSettings
      <4>2. IsWorld(p.w) /\ p.w.conn = "ok" /\ p.w.session = Prepared(w.session) /\ p.w.stored = w.stored
            /\ p.w.settings = w.settings /\ Similar(p.w, w)
        BY <1>5, <3>5 DEF Now, Similar, is_open
      <4>3. /\ Similar(o.w, p.w) /\ o.w.conn = "ok" /\ o.w.session = Prepared(w.session) /\ o.w.stored = w.stored
            /\ o.w.settings = w.settings \cup {"PREPARE"}
        BY <4>1, <4>2, WithSettingsIs
      <4>4. /\ Session(w.session) /\ Tidy(w.session, n) /\ w.session.set = w.settings \ w.session.lost
            /\ "PREPARE" \notin w.session.lost
        BY <1>5 DEF Basic, Tidy, is_open
      <4>5. Tidy(Prepared(w.session), n)
        BY <4>4, TidyStays
      <4>6. Basic(o.w, n)
        <5>1. Linked(o.w)
          BY <4>3, <4>5 DEF Linked, Similar, Tidy
        <5>2. o.w.session.set = o.w.settings \ o.w.session.lost
          BY <4>3, <4>4, PreparedIs
        <5> QED BY <4>3, <4>5, <5>1, <5>2 DEF Basic
      <4>7. Similar(o.w, w)
        BY <4>2, <4>3 DEF Similar
      <4> QED BY <1>5, <4>3, <4>4, <4>6, <4>7, PreparedIs DEF Equipped, Keeps, SameBut, is_open
    <3> QED BY <3>3, <3>4, <3>5
  <2> QED BY <2>1, <2>2
<1> QED BY <1>2, <1>3, <1>4, <1>5

LEMMA PreparedDid ==
    ASSUME NEW w, NEW n, Basic(w, n), Number(n), InTransaction(w), NEW c, Own(c, n), NEW o \in exec_prepared(w, c)
    PROVE  Answered(o, w, c, n)
<1> DEFINE run(v) == IF "PREPARE" \in v.session.set THEN PQexec(v, c) ELSE {Outcome(v, "sql")}
           runs(v) == Then(activate(v), LAMBDA u : checked(run(u)))
<1>1. o \in Then(register_prepared(w), runs)
  BY DEF exec_prepared
<1> HIDE DEF runs
<1>2. PICK r \in register_prepared(w) : (r.res # "ok" /\ o = r) \/ (r.res = "ok" /\ o \in runs(r.w))
  BY <1>1 DEF Then, Threw, Succeeded
<1>3. Equipped(r, w, n)
  BY RegisterIs
<1>4. CASE r.res # "ok" /\ o = r
  BY <1>3, <1>4 DEF Equipped, Answered
<1>5. CASE r.res = "ok" /\ o \in runs(r.w)
  <2>1. Basic(r.w, n) /\ is_open(r.w) /\ is_open(w) /\ InTransaction(r.w)
    BY <1>3, <1>5 DEF Equipped, Keeps, InTransaction, is_open
  <2>2. \A a \in activate(r.w) : a.res = "ok" /\ a.w = r.w
    BY <2>1, OutcomeIs DEF activate
  <2>3. o \in checked(run(r.w))
    BY <1>5, <2>2 DEF runs, Then, Threw, Succeeded
  <2>4. CASE "PREPARE" \in r.w.session.set
    <3>1. o \in exec_params(r.w, c)
      BY <2>3, <2>4 DEF exec_params
    <3>2. Answered(o, r.w, c, n)
      BY <2>1, <3>1, ParamsDid
    <3> QED BY <1>3, <1>5, <3>2, KeepsOn DEF Equipped, Answered, Did
  <2>5. CASE "PREPARE" \notin r.w.session.set
    <3>1. o.w = r.w /\ o.res = "sql"
      BY <2>3, <2>5, OutcomeIs DEF checked
    <3> QED BY <1>3, <3>1 DEF Equipped, Answered
  <2> QED BY <2>4, <2>5
<1> QED BY <1>2, <1>4, <1>5

\* A statement more, or the setting of the variable.
LEMMA HoldsMore ==
    ASSUME NEW v, NEW w, NEW n, NEW work, NEW acked, Holds(w, n, work, acked),
           NEW k \in 1 .. MaxStatements, v.stored = w.stored, v.trans.vars = w.trans.vars
    PROVE  Holds(v, n, work \cup {Add(Statement(n, k))}, acked \cup {k})
<1> DEFINE more == work \cup {Add(Statement(n, k))}
<1>1. Sent(n, more) = acked \cup {k}
  <2>1. \A j : Add(Statement(n, j)) = Add(Statement(n, k)) <=> j = k
    BY DEF Add, Statement
  <2> QED BY <2>1 DEF Sent, Holds
<1>2. Run("SET") \in more <=> Run("SET") \in work
  BY OpIs
<1>3. Applied(w.stored, more) \subseteq Applied(w.stored, work) \cup {Statement(n, k)}
  <2>1. Items(more, "add") \subseteq Items(work, "add") \cup {Statement(n, k)}
    BY OpIs DEF Items
  <2>2. Items(more, "remove") = Items(work, "remove")
    BY OpIs DEF Items
  <2> QED BY <2>1, <2>2 DEF Applied
<1>4. Statement(n, 0) # Statement(n, k)
  BY StatementIs
<1> QED BY <1>1, <1>2, <1>3, <1>4 DEF Holds

LEMMA HoldsSet ==
    ASSUME NEW v, NEW w, NEW n, NEW work, NEW acked, Holds(w, n, work, acked),
           v.stored = w.stored, v.trans.vars = {"SET"}
    PROVE  Holds(v, n, work \cup {Run("SET")}, acked)
<1> DEFINE more == work \cup {Run("SET")}
<1>1. Sent(n, more) = acked
  BY OpIs DEF Sent, Holds
<1>2. Applied(w.stored, more) = Applied(w.stored, work)
  BY OpIs DEF Items, Applied
<1> QED BY <1>1, <1>2 DEF Holds

LEMMA HoldsSame ==
    \A v, w, n, work, acked :
        Holds(w, n, work, acked) /\ v.stored = w.stored /\ v.trans.vars = w.trans.vars => Holds(v, n, work, acked)
  BY DEF Holds

\* A statement that has not ended its transaction.
LEMMA KeepsWhole ==
    ASSUME NEW v, NEW w, NEW n, Number(n), Whole(w, n), w.trans.status = "active", Keeps(v, w, n),
           v.stored = w.stored, w.trans.focus = TRUE => InTransaction(v)
    PROVE  Whole(v, n) /\ Elsewhere(v.stored, w.stored, n)
<1>1. v.trans = w.trans /\ v.sub = w.sub /\ Basic(v, n)
  BY DEF Keeps, Similar
<1>2. In(n, v.stored) = In(n, w.stored) /\ Elsewhere(v.stored, w.stored, n)
  BY SameButIs DEF Keeps
<1>3. NothingFrom(v.stored, n + 1)
  BY <1>2, NothingStays DEF Whole
<1> QED BY <1>1, <1>2, <1>3 DEF Whole, Objects

\* What is known when a call in an open transaction has succeeded.
LEMMA DidHolds ==
    ASSUME NEW w, NEW n, Number(n), Whole(w, n), Calm(w, n), w.trans.status = "active", ~InSubtransaction(w),
           NEW v, NEW c, Did(v, w, c)
    PROVE  w.trans.pending = FALSE /\ Holds(w, n, w.session.work, w.trans.acked) /\ InTransaction(v)
<1>1. w.trans.pending # TRUE
  BY DEF Calm, Sound, Did
<1>2. w.trans.pending = FALSE
  BY <1>1, ObjectsFields
<1> QED BY <1>2 DEF Calm, Sound, Did, InTransaction, is_open

LEMMA AcknowledgedIs ==
    ASSUME NEW w, NEW n, Number(n), Whole(w, n), Calm(w, n), w.trans.status = "active", w.sub = NoSub,
           NEW k \in 1 .. MaxStatements, NEW u, Keeps(u, w, n), u.stored = w.stored,
           Did(u, w, Add(Statement(n, k))),
           NEW v, v = WithAcked(u, w.trans.acked \cup {k})
    PROVE  Whole(v, n) /\ Calm(v, n) /\ Elsewhere(v.stored, w.stored, n)
<1>1. ~InSubtransaction(w)
  BY DEF InSubtransaction, NoSub
<1>2. w.trans.pending = FALSE /\ Holds(w, n, w.session.work, w.trans.acked) /\ InTransaction(u)
  BY <1>1, DidHolds
<1>3. Whole(u, n) /\ Elsewhere(u.stored, w.stored, n) /\ u.trans = w.trans /\ u.sub = w.sub
  BY <1>2, KeepsWhole DEF Keeps, Similar
<1>4. Wrote(v, u, "acked") /\ v.trans.acked = w.trans.acked \cup {k}
  BY <1>3, ObjectsFields, WritingValues
<1>5. /\ Same(v, u) /\ v.sub = u.sub /\ DOMAIN v.trans = TransFields
      /\ v.trans.status = w.trans.status /\ v.trans.kind = w.trans.kind /\ v.trans.focus = w.trans.focus
      /\ v.trans.pending = w.trans.pending /\ v.trans.vars = w.trans.vars /\ v.trans.sent = w.trans.sent
      /\ v.trans.logged = w.trans.logged
  BY <1>3, <1>4, AckedWritten
<1>6. Objects(v)
  <2>1. Objects(w) /\ IsTrans(w.trans)
    BY DEF Whole, Objects
  <2>2. v.trans.acked \subseteq Nat
    <3>1. k \in Nat
      OBVIOUS
    <3>2. w.trans.acked \subseteq Nat
      BY <2>1 DEF Objects
    <3> QED BY ONLY <1>4, <3>1, <3>2
  <2>3. IsTrans(v.trans)
    BY <1>5, <2>1 DEF IsTrans
  <2> QED BY <1>3, <1>5, <2>1, <2>2, <2>3 DEF Objects
<1>7. Whole(v, n)
  BY <1>2, <1>3, <1>5, <1>6, BasicSame DEF Whole, Same, InTransaction, is_open
<1>8. v.session.work = w.session.work \cup {Add(Statement(n, k))} /\ v.session.tx = "open"
      /\ is_open(v) /\ v.stored = w.stored
  BY <1>5 DEF Same, Did, is_open
<1>9. Holds(v, n, v.session.work, v.trans.acked)
  <2>1. Holds(v, n, w.session.work \cup {Add(Statement(n, k))}, w.trans.acked \cup {k})
    BY <1>2, <1>5, <1>8, HoldsMore
  <2> QED BY <1>4, <1>8, <2>1
<1>10. Sound(v, n)
  BY <1>1, <1>2, <1>3, <1>5, <1>8, <1>9 DEF Sound, InSubtransaction
<1> QED BY <1>2, <1>3, <1>5, <1>7, <1>10 DEF Calm, Same, InTransaction, is_open

LEMMA VariableIs ==
    ASSUME NEW w, NEW n, Number(n), Whole(w, n), Calm(w, n), w.trans.status = "active", w.sub = NoSub,
           NEW u, Keeps(u, w, n), u.stored = w.stored, Did(u, w, Run("SET")),
           NEW v, v = WithVars(u, {"SET"})
    PROVE  Whole(v, n) /\ Calm(v, n) /\ Elsewhere(v.stored, w.stored, n)
<1>1. ~InSubtransaction(w)
  BY DEF InSubtransaction, NoSub
<1>2. w.trans.pending = FALSE /\ Holds(w, n, w.session.work, w.trans.acked) /\ InTransaction(u)
  BY <1>1, DidHolds
<1>3. Whole(u, n) /\ Elsewhere(u.stored, w.stored, n) /\ u.trans = w.trans /\ u.sub = w.sub
  BY <1>2, KeepsWhole DEF Keeps, Similar
<1>4. Wrote(v, u, "vars") /\ v.trans.vars = {"SET"}
  BY <1>3, ObjectsFields, WritingValues
<1>5. /\ Same(v, u) /\ v.sub = u.sub /\ DOMAIN v.trans = TransFields
      /\ v.trans.status = w.trans.status /\ v.trans.kind = w.trans.kind /\ v.trans.focus = w.trans.focus
      /\ v.trans.pending = w.trans.pending /\ v.trans.acked = w.trans.acked /\ v.trans.sent = w.trans.sent
      /\ v.trans.logged = w.trans.logged
  BY <1>3, <1>4, VarsWritten
<1>6. Objects(v)
  BY <1>3, <1>4, <1>5 DEF Whole, Objects, IsTrans
<1>7. Whole(v, n)
  BY <1>2, <1>3, <1>5, <1>6, BasicSame DEF Whole, Same, InTransaction, is_open
<1>8. v.session.work = w.session.work \cup {Run("SET")} /\ v.session.tx = "open"
      /\ is_open(v) /\ v.stored = w.stored
  BY <1>5 DEF Same, Did, is_open
<1>9. Holds(v, n, v.session.work, v.trans.acked)
  BY <1>2, <1>4, <1>5, <1>8, HoldsSet
<1>10. Sound(v, n)
  BY <1>1, <1>2, <1>3, <1>5, <1>8, <1>9 DEF Sound, InSubtransaction
<1> QED BY <1>2, <1>3, <1>5, <1>7, <1>10 DEF Calm, Same, InTransaction, is_open

LEMMA SendingIs ==
    ASSUME NEW w, NEW n, Number(n), Whole(w, n), Calm(w, n), w.trans.focus = FALSE, w.trans.status = "active",
           NEW v, v = [w EXCEPT !.trans.sent = @ + 1]
    PROVE  /\ Whole(v, n) /\ Calm(v, n) /\ Same(v, w) /\ v.sub = w.sub
           /\ v.trans.status = "active" /\ v.trans.focus = FALSE
           /\ v.trans.sent = w.trans.sent + 1
           /\ v.trans.acked = w.trans.acked /\ v.trans.pending = w.trans.pending
<1>1. DOMAIN w.trans = TransFields /\ IsWorld(w) /\ IsTrans(w.trans)
  BY ObjectsFields
<1>2. v = WithSent(w, w.trans.sent + 1)
  BY DEF WithSent
<1>3. Wrote(v, w, "sent") /\ v.trans.sent = w.trans.sent + 1
  <2>1. \A x : Wrote(WithSent(w, x), w, "sent") /\ WithSent(w, x).trans.sent = x
    BY ONLY <1>1, WritingValues
  <2> QED BY <1>2, <2>1
<1>4. /\ Same(v, w) /\ v.sub = w.sub /\ IsWorld(v) /\ DOMAIN v.trans = TransFields
      /\ v.trans.status = w.trans.status /\ v.trans.kind = w.trans.kind /\ v.trans.focus = w.trans.focus
      /\ v.trans.pending = w.trans.pending
      /\ v.trans.vars = w.trans.vars /\ v.trans.acked = w.trans.acked /\ v.trans.logged = w.trans.logged
  BY <1>3, SentWritten, ZenonT(60)
<1>5. IsTrans(v.trans)
  BY <1>1, <1>3, <1>4 DEF IsTrans
<1>6. Objects(v)
  BY <1>4, <1>5 DEF Whole, Objects
<1>7. Whole(v, n)
  BY <1>4, <1>6, BasicSame DEF Whole, Same
<1>8. Returnable(w, n) => Returnable(v, n)
  BY <1>4, HoldsSame DEF Returnable, Same
<1>9. Holds(w, n, w.session.work, w.trans.acked) => Holds(v, n, v.session.work, v.trans.acked)
  BY <1>4, HoldsSame DEF Same
<1>10. Sound(v, n)
  BY <1>4, <1>8, <1>9 DEF Calm, Sound, Same, InSubtransaction, is_open
<1> QED BY <1>3, <1>4, <1>7, <1>10 DEF Calm, InTransaction, Same, is_open

Free(w) == w.sub = NoSub /\ w.trans.focus = FALSE /\ w.trans.status = "active"

\* The transaction executes, or has been rolled back.
LEMMA TransExecIs ==
    ASSUME NEW w, NEW n, n = number, Number(n), Whole(w, n), Calm(w, n), Free(w),
           NEW c, Inside(c, n), NEW o \in trans_exec(w, c)
    PROVE  /\ o.res # "ok" => Ends(o, w, n)
           /\ o.res = "ok" => /\ Keeps(o.w, w, n) /\ o.w.stored = w.stored
                              /\ is_open(w) /\ is_open(o.w) /\ Obeys(o, w, c)
<1> DEFINE abortAnd(p) == {Outcome(q.w, p.res) : q \in abort(p.w)}
           runs(v) == IF v.trans.focus \/ v.trans.status # "active" THEN {Outcome(v, "usage")}
                      ELSE Catch(direct_exec(v, c, FALSE), abortAnd)
<1>1. o \in Then(CheckPendingError(w), runs)
  BY DEF trans_exec
<1> HIDE DEF runs
<1>2. ASSUME NEW p \in CheckPendingError(w)
      PROVE  /\ p.res \in {"ok", "failure"}
             /\ p.res = "ok" => p = Outcome(w, "ok") /\ w.trans.pending = FALSE
             /\ p.res = "failure" => Ends(p, w, n)
  BY <1>2, PendingFirst
<1>3. \/ \E p \in CheckPendingError(w) : p.res = "failure" /\ o = p
      \/ w.trans.pending = FALSE /\ o \in runs(w)
  <2>1. \/ \E p \in CheckPendingError(w) : p.res # "ok" /\ o = p
        \/ \E p \in CheckPendingError(w) : p.res = "ok" /\ o \in runs(p.w)
    BY <1>1 DEF Then, Threw, Succeeded
  <2> QED BY <1>2, <2>1, OutcomeIs, ZenonT(60)
<1>4. CASE \E p \in CheckPendingError(w) : p.res = "failure" /\ o = p
  BY <1>2, <1>4
<1>5. CASE w.trans.pending = FALSE /\ o \in runs(w)
  <2>1. o \in Catch(direct_exec(w, c, FALSE), abortAnd)
    BY <1>5 DEF runs, Free
  <2>2. \/ \E p \in direct_exec(w, c, FALSE) : p.res = "ok" /\ o = p
        \/ \E p \in direct_exec(w, c, FALSE) : p.res # "ok" /\ \E q \in abort(p.w) : o = Outcome(q.w, p.res)
    BY <2>1 DEF Catch, Threw, Succeeded
  <2>3. Basic(w, n) /\ InTransaction(w)
    BY DEF Whole, Calm, Free
  <2>4. ASSUME NEW p \in direct_exec(w, c, FALSE)
        PROVE  /\ Keeps(p.w, w, n) /\ p.w.stored = w.stored
               /\ p.res = "ok" => is_open(w) /\ is_open(p.w) /\ Obeys(p, w, c)
    <3>1. p \in exec(w, c, FALSE)
      BY <1>5, <2>4, DirectIs
    <3>2. /\ Keeps(p.w, w, n) /\ p.w.stored = w.stored
          /\ \/ is_open(w) /\ is_open(p.w) /\ Obeys(p, w, c)
             \/ p.res = "broken"
      BY ONLY <2>3, <3>1, ExecInside, Number(n), Inside(c, n), ZenonT(60)
    <3> QED BY <3>2
  <2>5. ASSUME NEW p \in direct_exec(w, c, FALSE), p.res # "ok", NEW q \in abort(p.w), o = Outcome(q.w, p.res)
        PROVE  o.res # "ok" /\ Ends(o, w, n)
    <3>1. Whole(p.w, n) /\ Elsewhere(p.w.stored, w.stored, n)
      BY <2>4, <2>5, KeepsWhole DEF Free
    <3>2. p.w.trans = w.trans /\ p.w.sub = w.sub
      BY <2>4, <2>5 DEF Keeps, Similar
    <3>3. p.w.trans.pending = FALSE /\ p.w.trans.focus = FALSE /\ p.w.sub = NoSub
      BY <1>5, <3>2 DEF Free
    <3>4. Whole(q.w, n) /\ Elsewhere(q.w.stored, p.w.stored, n)
      BY <2>5, <3>1, <3>3, AbortEnds
    <3> QED BY <2>5, <3>1, <3>4, OutcomeIs, ElsewhereOn DEF Ends
  <2> QED BY <2>2, <2>4, <2>5
<1> QED BY <1>3, <1>4, <1>5

LEMMA AcknowledgeIs ==
    ASSUME NEW w, NEW o \in Acknowledge(w)
    PROVE  o.res = "ok" /\ o.w = WithAcked(w, w.trans.acked \cup {w.trans.sent})
  BY OutcomeIs DEF Acknowledge, WithAcked

LEMMA ThenAcknowledges ==
    ASSUME NEW outs, NEW o \in Then(outs, Acknowledge)
    PROVE  \/ o \in outs /\ o.res # "ok"
           \/ \E p \in outs : /\ p.res = "ok" /\ o.res = "ok"
                              /\ o.w = WithAcked(p.w, p.w.trans.acked \cup {p.w.trans.sent})
<1>1. \/ o \in outs /\ o.res # "ok"
      \/ \E p \in outs : p.res = "ok" /\ o \in Acknowledge(p.w)
  BY DEF Then, Threw, Succeeded
<1> QED BY <1>1, AcknowledgeIs

\* The statement numbered last.
Latest(w, n) == Add(Statement(n, w.trans.sent))

LEMMA LatestIsOwn ==
    ASSUME NEW w, NEW n, w.trans.sent \in 1 .. MaxStatements PROVE Own(Latest(w, n), n)
  BY DEF Own, Latest

LEMMA AnsweredEnds ==
    ASSUME NEW w, NEW n, Number(n), Whole(w, n), Calm(w, n), Free(w), w.trans.sent \in 1 .. MaxStatements,
           NEW outs, \A p \in outs : Answered(p, w, Latest(w, n), n) \/ (p.res # "ok" /\ Ends(p, w, n)),
           NEW o \in Then(outs, Acknowledge)
    PROVE  Ends(o, w, n)
<1>1. CASE o \in outs /\ o.res # "ok"
  <2>1. CASE Answered(o, w, Latest(w, n), n)
    <3>1. Whole(o.w, n) /\ Elsewhere(o.w.stored, w.stored, n)
      BY <2>1, KeepsWhole DEF Answered, Free
    <3> QED BY <1>1, <3>1 DEF Ends
  <2> QED BY <1>1, <2>1
<1>2. ASSUME NEW p \in outs, p.res = "ok", o.res = "ok",
             o.w = WithAcked(p.w, p.w.trans.acked \cup {p.w.trans.sent})
      PROVE  Ends(o, w, n)
  <2>1. Answered(p, w, Latest(w, n), n)
    BY <1>2
  <2>2. Keeps(p.w, w, n) /\ p.w.stored = w.stored /\ Did(p.w, w, Add(Statement(n, w.trans.sent)))
    BY <1>2, <2>1 DEF Answered, Latest
  <2>3. p.w.trans = w.trans
    BY <2>2 DEF Keeps, Similar
  <2>4. o.w = WithAcked(p.w, w.trans.acked \cup {w.trans.sent})
    BY <1>2, <2>3
  <2>5. w.sub = NoSub /\ w.trans.status = "active"
    BY DEF Free
  <2>6. Whole(o.w, n) /\ Calm(o.w, n) /\ Elsewhere(o.w.stored, w.stored, n)
    BY <2>2, <2>4, <2>5, AcknowledgedIs
  <2> QED BY <2>6 DEF Ends
<1> QED BY <1>1, <1>2, ThenAcknowledges

LEMMA ExecEnds ==
    ASSUME NEW w, NEW n, n = number, Number(n), Whole(w, n), Calm(w, n), Free(w),
           w.trans.sent \in 1 .. MaxStatements,
           NEW o \in Then(trans_exec(w, Latest(w, n)), Acknowledge)
    PROVE  Ends(o, w, n)
<1>1. Own(Latest(w, n), n) /\ Inside(Latest(w, n), n)
  BY LatestIsOwn DEF Inside
<1>2. ASSUME NEW p \in trans_exec(w, Latest(w, n))
      PROVE  Answered(p, w, Latest(w, n), n) \/ (p.res # "ok" /\ Ends(p, w, n))
  <2>1. /\ p.res # "ok" => Ends(p, w, n)
        /\ p.res = "ok" => /\ Keeps(p.w, w, n) /\ p.w.stored = w.stored
                           /\ is_open(w) /\ is_open(p.w) /\ Obeys(p, w, Latest(w, n))
    BY <1>1, <1>2, TransExecIs
  <2> QED BY <1>1, <2>1, ObeysDid DEF Answered, Whole
<1> QED BY <1>2, AnsweredEnds

LEMMA ParamsEnds ==
    ASSUME NEW w, NEW n, Number(n), Whole(w, n), Calm(w, n), Free(w),
           w.trans.sent \in 1 .. MaxStatements,
           NEW o, \/ o \in Then(exec_params(w, Latest(w, n)), Acknowledge)
                  \/ o \in Then(exec_prepared(w, Latest(w, n)), Acknowledge)
    PROVE  Ends(o, w, n)
<1>1. Own(Latest(w, n), n) /\ Basic(w, n) /\ InTransaction(w)
  BY LatestIsOwn DEF Whole, Calm, Free
<1>2. \A p \in exec_params(w, Latest(w, n)) : Answered(p, w, Latest(w, n), n)
  BY <1>1, ParamsDid
<1>3. \A p \in exec_prepared(w, Latest(w, n)) : Answered(p, w, Latest(w, n), n)
  BY <1>1, PreparedDid
<1>4. CASE o \in Then(exec_params(w, Latest(w, n)), Acknowledge)
  BY <1>2, <1>4, AnsweredEnds
<1>5. CASE o \in Then(exec_prepared(w, Latest(w, n)), Acknowledge)
  BY <1>3, <1>5, AnsweredEnds
<1> QED BY <1>4, <1>5

LEMMA SetEnds ==
    ASSUME NEW w, NEW n, Number(n), Whole(w, n), Calm(w, n), Free(w),
           NEW o \in Then(exec(w, Run("SET"), FALSE),
                          LAMBDA v : {Outcome([v EXCEPT !.trans.vars = {"SET"}], "ok")})
    PROVE  Ends(o, w, n)
<1>1. Own(Run("SET"), n) /\ Basic(w, n) /\ InTransaction(w)
  BY DEF Own, Whole, Calm, Free
<1>2. \/ o \in exec(w, Run("SET"), FALSE) /\ o.res # "ok"
      \/ \E p \in exec(w, Run("SET"), FALSE) :
            p.res = "ok" /\ o = Outcome([p.w EXCEPT !.trans.vars = {"SET"}], "ok")
  BY DEF Then, Threw, Succeeded
<1>3. ASSUME NEW p \in exec(w, Run("SET"), FALSE) PROVE Answered(p, w, Run("SET"), n)
  BY <1>1, <1>3, ExecDid
<1>4. CASE o \in exec(w, Run("SET"), FALSE) /\ o.res # "ok"
  BY <1>3, <1>4, KeepsWhole DEF Answered, Ends, Free
<1>5. ASSUME NEW p \in exec(w, Run("SET"), FALSE), p.res = "ok",
             o = Outcome([p.w EXCEPT !.trans.vars = {"SET"}], "ok")
      PROVE  Ends(o, w, n)
  <2>1. Keeps(p.w, w, n) /\ p.w.stored = w.stored /\ Did(p.w, w, Run("SET"))
    BY <1>3, <1>5 DEF Answered
  <2>2. o.w = WithVars(p.w, {"SET"}) /\ w.sub = NoSub /\ w.trans.status = "active"
    BY <1>5, OutcomeIs DEF WithVars, Free
  <2>3. Whole(o.w, n) /\ Calm(o.w, n) /\ Elsewhere(o.w.stored, w.stored, n)
    BY <2>1, <2>2, VariableIs
  <2> QED BY <2>3 DEF Ends
<1> QED BY <1>2, <1>4, <1>5

-----------------------------------------------------------------------------
(* Calls of the client: streams *)

\* The latest statement is being streamed.
Streaming(w, n) ==
    /\ Whole(w, n) /\ w.trans.focus = TRUE /\ w.trans.status = "active" /\ w.sub = NoSub
    /\ w.trans.sent \in 1 .. MaxStatements /\ InTransaction(w)

LEMMA FocusedIs ==
    ASSUME NEW w, NEW n, Whole(w, n), w.trans.focus = TRUE
    PROVE  Streaming(w, n)
<1>1. Objects(w) /\ w.trans.focus # FALSE
  BY DEF Whole
<1> QED BY <1>1 DEF Whole, Objects, Streaming

LEMMA OpenedIs ==
    ASSUME NEW w, NEW n, Number(n), Whole(w, n), Calm(w, n), Free(w), w.trans.sent \in 1 .. MaxStatements,
           NEW u, Keeps(u, w, n), u.stored = w.stored, is_open(w), is_open(u),
           u.session = w.session, w.session.tx # "failed",
           NEW v, v = [u EXCEPT !.trans.focus = TRUE]
    PROVE  Whole(v, n) /\ Calm(v, n) /\ Elsewhere(v.stored, w.stored, n)
<1>2. Whole(u, n) /\ Elsewhere(u.stored, w.stored, n) /\ u.trans = w.trans /\ u.sub = w.sub
  BY KeepsWhole DEF Keeps, Similar, Free
<1>3. Wrote(v, u, "focus") /\ v.trans.focus = TRUE
  BY <1>2, ObjectsFields, Writing
<1>4. /\ Same(v, u) /\ v.sub = w.sub /\ DOMAIN v.trans = TransFields
      /\ v.trans.status = w.trans.status /\ v.trans.kind = w.trans.kind
      /\ v.trans.pending = w.trans.pending
      /\ v.trans.vars = w.trans.vars /\ v.trans.sent = w.trans.sent /\ v.trans.acked = w.trans.acked
      /\ v.trans.logged = w.trans.logged
  <2>1. /\ Same(v, u) /\ v.sub = u.sub /\ IsWorld(v) /\ DOMAIN v.trans = TransFields
        /\ v.trans.status = u.trans.status /\ v.trans.kind = u.trans.kind /\ v.trans.pending = u.trans.pending
        /\ v.trans.vars = u.trans.vars /\ v.trans.sent = u.trans.sent /\ v.trans.acked = u.trans.acked
        /\ v.trans.logged = u.trans.logged
    BY ONLY <1>3, FocusWritten
  <2> QED BY ONLY <1>2, <2>1
<1>5. ~InSubtransaction(w) /\ w.sub = NoSub /\ w.trans.status = "active"
  BY DEF Free, InSubtransaction, NoSub
<1>6. InTransaction(w) /\ Sound(w, n)
  BY <1>5 DEF Calm
<1>7. w.trans.pending = FALSE
  <2>1. w.trans.pending # TRUE
    BY <1>6 DEF Sound
  <2> QED BY <2>1, ObjectsFields
<1>8. w.session.tx = "open" /\ Holds(w, n, w.session.work, w.trans.acked)
  BY <1>5, <1>6, <1>7 DEF Sound
<1>9. InTransaction(v)
  BY <1>4, <1>6 DEF InTransaction, Same, is_open
<1>10. Holds(v, n, v.session.work, v.trans.acked)
  BY <1>4, <1>8, HoldsSame DEF Same
<1>11. Sound(v, n)
  BY <1>4, <1>5, <1>7, <1>8, <1>10 DEF Sound, Same, InSubtransaction
<1>12. Objects(v)
  <2>1. Objects(w) /\ IsTrans(w.trans)
    BY DEF Whole, Objects
  <2>2. IsTrans(v.trans)
    <3>1. v.trans.focus \in BOOLEAN
      BY <1>3
    <3> QED BY <1>4, <2>1, <3>1 DEF IsTrans
  <2> QED BY <1>4, <1>5, <2>1, <2>2 DEF Objects
<1>13. Whole(v, n)
  <2>1. Basic(v, n)
    BY <1>2, <1>4, BasicSame DEF Whole
  <2>2. /\ v.stored = u.stored /\ NothingFrom(u.stored, n + 1) /\ In(n, u.stored) = {}
        /\ u.trans.logged = TRUE => Statement(n, 0) \in u.stored
    BY <1>2, <1>4, <1>5 DEF Whole, Same
  <2> QED BY <1>4, <1>5, <1>9, <1>12, <2>1, <2>2 DEF Whole
<1> QED BY <1>2, <1>4, <1>9, <1>11, <1>13 DEF Calm, Same

LEMMA OpenEnds ==
    ASSUME NEW w, NEW n, n = number, Number(n), Whole(w, n), Calm(w, n), Free(w),
           w.trans.sent \in 1 .. MaxStatements,
           NEW o \in Then(trans_exec(w, Run("query")),
                          LAMBDA v : {Outcome([v EXCEPT !.trans.focus = TRUE], "ok")})
    PROVE  Ends(o, w, n)
<1>1. \/ o \in trans_exec(w, Run("query")) /\ o.res # "ok"
      \/ \E p \in trans_exec(w, Run("query")) :
            p.res = "ok" /\ o = Outcome([p.w EXCEPT !.trans.focus = TRUE], "ok")
  BY DEF Then, Threw, Succeeded
<1>2. Inside(Run("query"), n)
  BY OwnRecord
<1>3. ASSUME NEW p \in trans_exec(w, Run("query"))
      PROVE  /\ p.res # "ok" => Ends(p, w, n)
             /\ p.res = "ok" => /\ Keeps(p.w, w, n) /\ p.w.stored = w.stored
                                /\ is_open(w) /\ is_open(p.w) /\ Obeys(p, w, Run("query"))
  BY <1>2, <1>3, TransExecIs
<1>4. ASSUME NEW p \in trans_exec(w, Run("query")), p.res = "ok", o = Outcome([p.w EXCEPT !.trans.focus = TRUE], "ok")
      PROVE  Ends(o, w, n)
  <2>1. /\ Keeps(p.w, w, n) /\ p.w.stored = w.stored /\ is_open(w) /\ is_open(p.w)
        /\ p.w.session = w.session /\ w.session.tx # "failed"
    BY <1>3, <1>4 DEF Obeys, Fails
  <2>2. o.w = [p.w EXCEPT !.trans.focus = TRUE]
    BY <1>4, OutcomeIs
  <2>3. Whole(o.w, n) /\ Calm(o.w, n) /\ Elsewhere(o.w.stored, w.stored, n)
    BY <2>1, <2>2, OpenedIs
  <2> QED BY <2>3 DEF Ends
<1> QED BY <1>1, <1>3, <1>4

LEMMA WriteRowIs ==
    ASSUME NEW w, NEW n, Number(n), Streaming(w, n)
    PROVE  LET v == Cut(w, "bad") IN Whole(v, n) /\ Elsewhere(v.stored, w.stored, n)
<1> DEFINE v == Cut(w, "bad")
<1>1. IsWorld(w) /\ Whole(w, n) /\ Basic(w, n) /\ w.trans.status = "active"
  BY ObjectsFields DEF Streaming
<1>2. Gone(v, w) /\ v.conn = "bad" /\ v.stored = w.stored
  BY <1>1, CutIsGone
<1>3. Keeps(v, w, n) /\ ~is_open(v)
  BY <1>1, <1>2, BrokenKeeps
<1>4. InTransaction(v)
  BY <1>2, <1>3 DEF InTransaction
<1> QED BY <1>1, <1>2, <1>3, <1>4, KeepsWhole

\* The stream gives up the transaction.
Unfocused(w) == [w EXCEPT !.trans.focus = FALSE]

LEMMA ClosingIs ==
    ASSUME NEW w, NEW n, Number(n), Streaming(w, n), NEW v, v = Unfocused(w)
    PROVE  /\ Whole(v, n) /\ Free(v) /\ InTransaction(v) /\ v.stored = w.stored /\ Latest(v, n) = Latest(w, n)
           /\ v.trans.sent = w.trans.sent /\ v.trans.acked = w.trans.acked
           /\ v.trans.sent \in 1 .. MaxStatements
           /\ Calm(w, n) => Calm(v, n)
<1>1. Whole(w, n) /\ w.trans.status = "active" /\ w.sub = NoSub /\ InTransaction(w)
  BY DEF Streaming
<1>2. Wrote(v, w, "focus") /\ v.trans.focus = FALSE
  BY <1>1, ObjectsFields, Writing DEF Unfocused
<1>3. /\ Same(v, w) /\ v.sub = w.sub /\ IsWorld(v) /\ DOMAIN v.trans = TransFields
      /\ v.trans.status = w.trans.status /\ v.trans.kind = w.trans.kind /\ v.trans.pending = w.trans.pending
      /\ v.trans.vars = w.trans.vars /\ v.trans.sent = w.trans.sent /\ v.trans.acked = w.trans.acked
      /\ v.trans.logged = w.trans.logged
  BY ONLY <1>2, FocusWritten
<1>4. IsTrans(v.trans)
  <2>1. v.trans.focus \in BOOLEAN
    BY <1>2
  <2>2. IsTrans(w.trans)
    BY <1>1, ObjectsFields
  <2> QED BY ONLY <1>3, <2>1, <2>2 DEF IsTrans
<1>5. Objects(v)
  <2>1. v.trans.focus # TRUE
    BY <1>2
  <2> QED BY <1>1, <1>3, <1>4, <2>1 DEF Whole, Objects
<1>6. Whole(v, n)
  <2>1. Basic(v, n) /\ v.stored = w.stored
    BY <1>1, <1>3, BasicSame DEF Whole, Same
  <2>2. v.trans.focus # TRUE
    BY <1>2
  <2> QED BY <1>1, <1>3, <1>5, <2>1, <2>2 DEF Whole
<1>7. Free(v)
  BY <1>1, <1>2, <1>3 DEF Free
<1>8. InTransaction(v) /\ v.stored = w.stored
  BY <1>1, <1>3 DEF InTransaction, Same, is_open
<1>9. Sound(w, n) => Sound(v, n)
  <2>1. Holds(w, n, w.session.work, w.trans.acked) => Holds(v, n, v.session.work, v.trans.acked)
    BY <1>3, HoldsSame DEF Same
  <2>2. ~InSubtransaction(w) /\ ~InSubtransaction(v)
    BY <1>1, <1>3 DEF InSubtransaction, NoSub
  <2> QED BY <1>3, <2>1, <2>2 DEF Sound, Same, is_open
<1> QED BY <1>1, <1>3, <1>6, <1>7, <1>8, <1>9 DEF Calm, Latest, Streaming

LEMMA CompleteEnds ==
    ASSUME NEW w, NEW n, Number(n), Streaming(w, n), Calm(w, n), NEW v, v = Unfocused(w),
           NEW o \in Then(end_copy_write(v, Latest(w, n)), Acknowledge)
    PROVE  Ends(o, w, n)
<1>1. /\ Whole(v, n) /\ Free(v) /\ InTransaction(v) /\ v.stored = w.stored /\ Latest(v, n) = Latest(w, n)
      /\ v.trans.sent \in 1 .. MaxStatements /\ Calm(v, n)
  BY ClosingIs
<1>2. Own(Latest(v, n), n) /\ Basic(v, n)
  BY <1>1, LatestIsOwn DEF Whole
<1>3. \A p \in end_copy_write(v, Latest(v, n)) : Answered(p, v, Latest(v, n), n)
  BY <1>1, <1>2, CopyDid
<1>4. Ends(o, v, n)
  BY <1>1, <1>3, AnsweredEnds
<1> QED BY <1>1, <1>4 DEF Ends

LEMMA AcknowledgedWhole ==
    ASSUME NEW w, NEW n, Number(n), Whole(w, n), NEW k \in 1 .. MaxStatements, w.trans.status = "active",
           NEW v, v = WithAcked(w, w.trans.acked \cup {k})
    PROVE  /\ Whole(v, n) /\ Same(v, w) /\ v.sub = w.sub
           /\ v.trans.status = w.trans.status /\ v.trans.focus = w.trans.focus
           /\ v.trans.pending = w.trans.pending
<1>1. Wrote(v, w, "acked") /\ v.trans.acked = w.trans.acked \cup {k}
  BY ObjectsFields, WritingValues
<1>2. /\ Same(v, w) /\ v.sub = w.sub /\ DOMAIN v.trans = TransFields
      /\ v.trans.status = w.trans.status /\ v.trans.kind = w.trans.kind /\ v.trans.focus = w.trans.focus
      /\ v.trans.pending = w.trans.pending /\ v.trans.vars = w.trans.vars /\ v.trans.sent = w.trans.sent
      /\ v.trans.logged = w.trans.logged
  BY <1>1, AckedWritten
<1>3. Objects(v)
  <2>1. Objects(w) /\ IsTrans(w.trans)
    BY DEF Whole, Objects
  <2>2. v.trans.acked \subseteq Nat
    <3>1. k \in Nat
      OBVIOUS
    <3>2. w.trans.acked \subseteq Nat
      BY <2>1 DEF Objects
    <3> QED BY ONLY <1>1, <3>1, <3>2
  <2>3. IsTrans(v.trans)
    BY <1>2, <2>1 DEF IsTrans
  <2> QED BY <1>2, <2>1, <2>2, <2>3 DEF Objects
<1>4. Whole(v, n)
  <2>1. Basic(v, n) /\ v.stored = w.stored /\ (InTransaction(w) => InTransaction(v))
    BY <1>2, BasicSame DEF Whole, Same, InTransaction, is_open
  <2> QED BY <1>2, <1>3, <2>1 DEF Whole
<1> QED BY <1>2, <1>4

Troubled(w) == [w EXCEPT !.trans.pending = TRUE]

LEMMA TroubledIs ==
    ASSUME NEW w, NEW n, Number(n), Whole(w, n), w.trans.status = "active"
    PROVE  /\ Whole(Troubled(w), n) /\ Same(Troubled(w), w) /\ Troubled(w).sub = w.sub
           /\ Troubled(w).trans.pending = TRUE /\ Troubled(w).trans.status = "active"
           /\ Troubled(w).trans.sent = w.trans.sent
<1> DEFINE q == Troubled(w)
<1>1. Wrote(q, w, "pending") /\ q.trans.pending = TRUE
  BY ObjectsFields, Writing DEF Troubled
<1>2. q.trans.pending \in BOOLEAN
  BY <1>1
<1>3. Whole(q, n)
  BY <1>1, <1>2, ToldIs
<1> HIDE DEF q
<1>4. Same(q, w) /\ q.sub = w.sub /\ q.trans.status = w.trans.status /\ q.trans.sent = w.trans.sent
  BY <1>1, PendingWritten
<1> QED BY <1>1, <1>3, <1>4 DEF q

\* The destructor of a stream: an error is kept for later.
LEMMA DropEnds ==
    ASSUME NEW w, NEW n, Number(n), Streaming(w, n), NEW v, v = Unfocused(w),
           NEW o \in Then(Catch(end_copy_write(v, Latest(w, n)), reg_pending_error), Acknowledge)
    PROVE  /\ o.res = "ok" /\ Whole(o.w, n) /\ Elsewhere(o.w.stored, w.stored, n)
           /\ Calm(w, n) => Calm(o.w, n)
<1> DEFINE copies == end_copy_write(v, Latest(w, n))
<1>1. /\ Whole(v, n) /\ Free(v) /\ InTransaction(v) /\ v.stored = w.stored /\ Latest(v, n) = Latest(w, n)
      /\ v.trans.sent \in 1 .. MaxStatements
      /\ Calm(w, n) => Calm(v, n)
  BY ClosingIs
<1>2. Own(Latest(w, n), n) /\ Basic(v, n)
  BY <1>1, LatestIsOwn DEF Whole
<1>3. ASSUME NEW p \in copies
      PROVE  /\ Answered(p, v, Latest(v, n), n) /\ InTransaction(p.w)
             /\ p.res # "ok" /\ is_open(p.w) => p.w.session.tx = "failed"
  BY <1>1, <1>2, <1>3, CopyDid
<1>4. ASSUME NEW p \in copies
      PROVE  /\ Whole(p.w, n) /\ Elsewhere(p.w.stored, w.stored, n)
             /\ p.w.trans = v.trans /\ p.w.sub = v.sub /\ IsWorld(p.w) /\ DOMAIN p.w.trans = TransFields
  <2>1. Keeps(p.w, v, n) /\ p.w.stored = v.stored
    BY <1>3, <1>4 DEF Answered
  <2> QED BY <1>1, <2>1, KeepsWhole, ObjectsFields DEF Free, Keeps, Similar
<1>5. \/ \E p \in copies : p.res = "ok" /\ o.res = "ok"
                           /\ o.w = WithAcked(p.w, p.w.trans.acked \cup {p.w.trans.sent})
      \/ \E p \in copies : \E q : /\ p.res # "ok" /\ o.res = "ok" /\ q = Troubled(p.w)
                                  /\ o.w = WithAcked(q, q.trans.acked \cup {q.trans.sent})
  <2>1. \A p : \A q \in reg_pending_error(p) : q.res = "ok" /\ q.w = Troubled(p.w)
    BY OutcomeIs, ZenonT(60) DEF reg_pending_error, Troubled
  <2> DEFINE caught == Catch(copies, reg_pending_error)
  <2>0. o \in Then(caught, Acknowledge)
    OBVIOUS
  <2> HIDE DEF caught
  <2>2. PICK q \in caught :
            \/ q.res # "ok" /\ o = q
            \/ q.res = "ok" /\ o.res = "ok" /\ o.w = WithAcked(q.w, q.w.trans.acked \cup {q.w.trans.sent})
    BY ONLY <2>0, ThenAcknowledges, SMTT(40)
  <2>3. \/ q \in copies /\ q.res = "ok"
        \/ \E p \in copies : p.res # "ok" /\ q \in reg_pending_error(p)
    BY <2>2 DEF Catch, Threw, Succeeded, caught
  <2> QED BY <2>1, <2>2, <2>3
<1> HIDE DEF copies
<1>6. ASSUME NEW p \in copies, p.res = "ok", o.w = WithAcked(p.w, p.w.trans.acked \cup {p.w.trans.sent})
      PROVE  /\ Whole(o.w, n) /\ Elsewhere(o.w.stored, w.stored, n)
             /\ Calm(w, n) => Calm(o.w, n)
  <2>1. o.w = WithAcked(p.w, p.w.trans.acked \cup {v.trans.sent}) /\ p.w.trans.status = "active"
    BY <1>1, <1>4, <1>6 DEF Free
  <2>2. Whole(o.w, n) /\ Same(o.w, p.w)
    BY <1>1, <1>4, <1>6, <2>1, AcknowledgedWhole
  <2>3. ASSUME Calm(w, n) PROVE Calm(o.w, n)
    <3>1. Calm(v, n) /\ v.trans.status = "active" /\ v.sub = NoSub
      BY <1>1, <2>3 DEF Free
    <3>2. Keeps(p.w, v, n) /\ p.w.stored = v.stored /\ Did(p.w, v, Add(Statement(n, v.trans.sent)))
      BY <1>3, <1>6 DEF Answered, Latest
    <3>3. o.w = WithAcked(p.w, v.trans.acked \cup {v.trans.sent})
      BY <1>4, <1>6, <2>1, SMTT(40)
    <3> QED BY <1>1, <3>1, <3>2, <3>3, AcknowledgedIs
  <2> QED BY <1>4, <1>6, <2>2, <2>3 DEF Same
<1>7. ASSUME NEW p \in copies, p.res # "ok", NEW q, q = Troubled(p.w),
             o.w = WithAcked(q, q.trans.acked \cup {q.trans.sent})
      PROVE  /\ Whole(o.w, n) /\ Elsewhere(o.w.stored, w.stored, n) /\ Calm(o.w, n)
  <2>1. p.w.trans.status = "active" /\ p.w.sub = NoSub /\ p.w.trans.sent \in 1 .. MaxStatements
    BY <1>1, <1>4, <1>7 DEF Free
  <2>4. Whole(q, n) /\ Same(q, p.w) /\ q.sub = p.w.sub /\ q.trans.sent = p.w.trans.sent
        /\ q.trans.status = "active" /\ q.trans.pending = TRUE
    BY <1>4, <1>7, <2>1, TroubledIs
  <2>6. Whole(o.w, n) /\ Same(o.w, q) /\ o.w.sub = NoSub /\ o.w.trans.pending = TRUE
    <3>1. Whole(o.w, n) /\ Same(o.w, q) /\ o.w.sub = q.sub /\ o.w.trans.pending = q.trans.pending
      BY <1>7, <2>1, <2>4, AcknowledgedWhole
    <3> QED BY <2>1, <2>4, <3>1
  <2>7. Same(o.w, p.w)
    BY <2>4, <2>6, SameOn
  <2>8. InTransaction(o.w) /\ (is_open(o.w) => o.w.session.tx = "failed")
    BY <1>3, <1>7, <2>7 DEF Same, InTransaction, is_open
  <2>9. ~InSubtransaction(o.w)
    BY <2>6 DEF InSubtransaction, NoSub
  <2>10. Sound(o.w, n)
    <3>1. o.w.trans.pending # FALSE
      BY <2>6
    <3> QED BY <2>8, <2>9, <3>1 DEF Sound
  <2> QED BY <1>4, <1>7, <2>6, <2>7, <2>8, <2>10 DEF Same, Calm
<1> QED BY <1>5, <1>6, <1>7

-----------------------------------------------------------------------------
(* Calls of the client: subtransactions *)

SubFields == {"status", "vars", "acked"}
WithSubStatus(w, x) == [w EXCEPT !.sub.status = x]
WithSubAcked(w, x) == [w EXCEPT !.sub.acked = x]

LEMMA SubWriting ==
    ASSUME NEW w, IsWorld(w), DOMAIN w.sub = SubFields, NEW x
    PROVE  /\ LET v == WithSubStatus(w, x)
              IN  /\ Same(v, w) /\ v.trans = w.trans /\ DOMAIN v.sub = SubFields
                  /\ v.sub.status = x /\ v.sub.vars = w.sub.vars /\ v.sub.acked = w.sub.acked
           /\ LET v == WithSubAcked(w, x)
              IN  /\ Same(v, w) /\ v.trans = w.trans /\ DOMAIN v.sub = SubFields
                  /\ v.sub.acked = x /\ v.sub.vars = w.sub.vars /\ v.sub.status = w.sub.status
<1> DEFINE s == [w.sub EXCEPT !.status = x]
           a == [w.sub EXCEPT !.acked = x]
<1>1. WithSubStatus(w, x) = [w EXCEPT !.sub = s] /\ WithSubAcked(w, x) = [w EXCEPT !.sub = a]
  BY DEF WithSubStatus, WithSubAcked
<1>2. /\ DOMAIN s = SubFields /\ s.status = x /\ s.vars = w.sub.vars /\ s.acked = w.sub.acked
      /\ DOMAIN a = SubFields /\ a.acked = x /\ a.vars = w.sub.vars /\ a.status = w.sub.status
  BY DEF SubFields
<1> HIDE DEF s, a
<1>3. LET v == [w EXCEPT !.sub = s] IN Same(v, w) /\ v.sub = s /\ v.trans = w.trans
  BY ONLY IsWorld(w), WithSub
<1>4. LET v == [w EXCEPT !.sub = a] IN Same(v, w) /\ v.sub = a /\ v.trans = w.trans
  BY ONLY IsWorld(w), WithSub
<1> QED BY <1>1, <1>2, <1>3, <1>4

LEMMA NoSubIs == NoSub.status = "none" /\ DOMAIN NoSub # SubFields
<1>1. DOMAIN NoSub = {"status"} /\ "vars" \in SubFields
  BY DEF NoSub, SubFields
<1> QED BY <1>1 DEF NoSub

\* A subtransaction object exists.
HasSub(w, n) ==
    /\ Whole(w, n) /\ w.sub # NoSub /\ DOMAIN w.sub = SubFields /\ w.sub.vars = {}
    /\ w.sub.acked \subseteq Nat /\ w.trans.status = "active" /\ w.trans.focus = FALSE

LEMMA HasSubIs ==
    ASSUME NEW w, NEW n, Whole(w, n), w.sub # NoSub
    PROVE  HasSub(w, n) /\ w.sub.status \in {"nascent", "active", "aborted", "committed"}
  BY DEF Whole, Objects, IsSub, HasSub, SubFields

\* The connection and the subtransaction object have changed.
LEMMA SubWhole ==
    ASSUME NEW v, NEW w, NEW n, Number(n), Whole(w, n), w.trans.status = "active", w.trans.focus = FALSE,
           Basic(v, n), v.stored = w.stored, v.trans = w.trans, IsSub(v.sub)
    PROVE  Whole(v, n) /\ Elsewhere(v.stored, w.stored, n)
<1>1. In(n, v.stored) = In(n, w.stored) /\ Elsewhere(v.stored, w.stored, n)
  BY SameButIs DEF SameBut
<1>2. NothingFrom(v.stored, n + 1)
  BY <1>1, NothingStays DEF Whole
<1>3. v.trans.focus # TRUE
  OBVIOUS
<1>4. Objects(v)
  BY <1>3 DEF Whole, Objects
<1> QED BY <1>1, <1>2, <1>3, <1>4 DEF Whole

SubStatus(x) == x \in {"active", "aborted", "committed"}

LEMMA SubStatuses == SubStatus("active") /\ SubStatus("aborted") /\ SubStatus("committed")
  BY DEF SubStatus

SubWith(u, v, w, n, x) ==
    /\ Whole(u, n) /\ Elsewhere(u.stored, w.stored, n) /\ HasSub(u, n)
    /\ Same(u, v) /\ u.trans = w.trans /\ u.sub.status = x /\ u.sub.acked = w.sub.acked

LEMMA SubSettled ==
    ASSUME NEW w, NEW n, HasSub(w, n), NEW v, Keeps(v, w, n), Number(n),
           NEW x, SubStatus(x), v.stored = w.stored
    PROVE  SubWith(WithSubStatus(v, x), v, w, n, x)
<1> DEFINE u == WithSubStatus(v, x)
<1>1. v.sub = w.sub /\ v.trans = w.trans /\ IsWorld(v) /\ Basic(v, n) /\ v.stored = w.stored
  BY DEF Keeps, Similar
<1>2. /\ Same(u, v) /\ u.trans = v.trans /\ DOMAIN u.sub = SubFields
      /\ u.sub.status = x /\ u.sub.vars = v.sub.vars /\ u.sub.acked = v.sub.acked
  BY <1>1, SubWriting DEF HasSub
<1> HIDE DEF u
<1>3. IsSub(u.sub) /\ u.sub # NoSub
  BY <1>1, <1>2, NoSubIs DEF HasSub, IsSub, SubFields, SubStatus
<1>4. Basic(u, n) /\ u.stored = w.stored
  BY <1>1, <1>2, BasicSame DEF Same
<1>5. Whole(u, n) /\ Elsewhere(u.stored, w.stored, n)
  BY <1>1, <1>2, <1>3, <1>4, SubWhole DEF HasSub
<1> QED BY <1>1, <1>2, <1>3, <1>5 DEF HasSub, SubWith, u

LEMMA ExecServes ==
    ASSUME NEW w, NEW n, Basic(w, n), InTransaction(w), NEW c, Command(c), NEW o \in exec(w, c, FALSE)
    PROVE  o.res = "broken" \/ (is_open(w) /\ o \in Executes(w, c))
<1>1. ASSUME NEW v, Arrives(v, w, FALSE) PROVE v = w /\ is_open(w)
  BY <1>1 DEF Arrives, InTransaction
<1>2. Linked(w)
  BY DEF Basic
<1>3. Reaches(o, w, c, FALSE) \/ Undone(o, w, c, FALSE)
  BY <1>2, ExecOutcome
<1> QED BY <1>1, <1>3 DEF Reaches, Undone, Breaks

\* ROLLBACK TO restores what the transaction relies on.
Back(w, n) ==
    /\ is_open(w) /\ w.session.tx # "idle" /\ w.trans.pending = FALSE
    /\ \E S : w.session.save = {S} /\ Holds(w, n, S, w.trans.acked)

LEMMA ReturnKeeps ==
    ASSUME NEW w, NEW n, Number(n), Basic(w, n), NEW o \in exec(w, Run("ROLLBACK TO"), FALSE)
    PROVE  Keeps(o.w, w, n) /\ o.w.stored = w.stored
<1>1. Fitting(Run("ROLLBACK TO"), w, n, FALSE) /\ Command(Run("ROLLBACK TO")) /\ Linked(w)
  BY DEF Fitting, Fits, Command, Commands, Basic
<1>2. LogTable # Statement(n, 0)
  BY RecordIsNotLogTable
<1>3. Keeps(o.w, w, n)
  BY <1>1, <1>2, ExecKeeps DEF Keeps
<1>4. ASSUME NEW v, Arrives(v, w, FALSE), NEW e \in Executes(v, Run("ROLLBACK TO"))
      PROVE  e.w.stored = w.stored
  <2>1. IsWorld(v) /\ v.stored = w.stored
    BY <1>4 DEF Arrives, Renewed
  <2> QED BY <1>4, <2>1, ReturnRuns, NowIs
<1>5. Reaches(o, w, Run("ROLLBACK TO"), FALSE) \/ Undone(o, w, Run("ROLLBACK TO"), FALSE)
  BY <1>1, ExecOutcome
<1>6. o.w.stored = w.stored
  BY <1>4, <1>5, Zenon DEF Reaches, Undone
<1> QED BY <1>3, <1>6

LEMMA ReturnIs ==
    ASSUME NEW w, NEW n, Number(n), Basic(w, n), Back(w, n), NEW o \in exec(w, Run("ROLLBACK TO"), FALSE)
    PROVE  /\ o.w.stored = w.stored /\ InTransaction(o.w)
           /\ is_open(o.w) => o.w.session = Returned(w.session)
<1>1. InTransaction(w) /\ Inside(Run("ROLLBACK TO"), n) /\ Command(Run("ROLLBACK TO")) /\ is_open(w) /\ IsWorld(w)
  BY DEF InTransaction, Back, is_open, Inside, Command, Commands, Basic, Linked
<1>2. /\ o.w.stored = w.stored
      /\ \/ is_open(o.w)
         \/ o.res = "broken" /\ ~is_open(o.w) /\ o.w.conn = "bad"
  BY <1>1, ExecInside, ZenonT(60)
<1>3. CASE is_open(o.w)
  <2>0. Keeps(o.w, w, n) /\ (o.res = "broken" <=> ~is_open(o.w))
    <3>1. Fitting(Run("ROLLBACK TO"), w, n, FALSE)
      BY DEF Fitting, Fits
    <3>2. LogTable # Statement(n, 0)
      BY RecordIsNotLogTable
    <3> QED BY <3>1, <3>2, ExecKeeps DEF Keeps
  <2>1. o \in Executes(w, Run("ROLLBACK TO"))
    BY <1>1, <1>3, <2>0, ExecServes
  <2>2. Runs(o, w, Returned(w.session))
    <3>1. w.session.save # {}
      BY DEF Back
    <3> QED BY <1>1, <2>1, <3>1, ReturnRuns
  <2>3. o.w.session = Returned(w.session) /\ Session(w.session)
    BY <2>2, NowIs DEF Basic, Tidy
  <2>4. o.w.session.tx = "open"
    BY <2>3 DEF Returned, Session
  <2> QED BY <1>2, <1>3, <2>3, <2>4 DEF InTransaction, is_open
<1>4. CASE o.res = "broken" /\ ~is_open(o.w) /\ o.w.conn = "bad"
  BY <1>2, <1>4 DEF InTransaction
<1> QED BY <1>2, <1>3, <1>4

LEMMA SubAbortIs ==
    ASSUME NEW w, NEW n, Number(n), HasSub(w, n), NEW o \in sub_abort(w)
    PROVE  /\ o.res = "ok" /\ Whole(o.w, n) /\ Elsewhere(o.w.stored, w.stored, n) /\ HasSub(o.w, n)
           /\ o.w.sub.status = "aborted" /\ o.w.trans = w.trans
           /\ Back(w, n) => Calm(o.w, n)
<1>1. PICK p \in exec(w, Run("ROLLBACK TO"), FALSE) : o = Outcome([p.w EXCEPT !.sub.status = "aborted"], "ok")
  BY DEF sub_abort, Quietly
<1>2. o.res = "ok" /\ o.w = WithSubStatus(p.w, "aborted")
  BY <1>1, OutcomeIs DEF WithSubStatus
<1>3. Basic(w, n)
  BY DEF HasSub, Whole
<1>4. Keeps(p.w, w, n) /\ p.w.stored = w.stored
  BY <1>3, ReturnKeeps
<1>5. /\ Whole(o.w, n) /\ Elsewhere(o.w.stored, w.stored, n) /\ HasSub(o.w, n)
      /\ Same(o.w, p.w) /\ o.w.trans = w.trans /\ o.w.sub.status = "aborted" /\ o.w.sub.acked = w.sub.acked
  <2>1. SubWith(WithSubStatus(p.w, "aborted"), p.w, w, n, "aborted")
    BY <1>4, SubSettled, SubStatuses
  <2> QED BY <1>2, <2>1 DEF SubWith
<1>6. ASSUME Back(w, n) PROVE Calm(o.w, n)
  <2>1. /\ p.w.stored = w.stored /\ InTransaction(p.w)
        /\ is_open(p.w) => p.w.session = Returned(w.session)
    BY <1>3, <1>6, ReturnIs
  <2>2. PICK S : w.session.save = {S} /\ Holds(w, n, S, w.trans.acked)
    BY <1>6 DEF Back
  <2>3. Returned(w.session).tx = "open" /\ Returned(w.session).work = S
    <3>1. UNION {S} = S
      OBVIOUS
    <3>2. Session(w.session)
      BY <1>3 DEF Basic, Tidy
    <3> QED BY <2>2, <3>1, <3>2 DEF Returned, Session
  <2>4. InTransaction(o.w) /\ ~InSubtransaction(o.w)
    BY <1>5, <2>1 DEF Same, InTransaction, is_open, InSubtransaction
  <2>5. is_open(o.w) => o.w.session.tx = "open" /\ Holds(o.w, n, o.w.session.work, o.w.trans.acked)
    <3>1. Holds(o.w, n, S, w.trans.acked)
      BY <1>5, <2>1, <2>2, HoldsSame DEF Same
    <3> QED BY <1>5, <2>1, <2>3, <3>1 DEF Same, is_open
  <2>6. o.w.trans.pending # TRUE
    BY <1>5, <1>6 DEF Back
  <2> QED BY <2>4, <2>5, <2>6 DEF Calm, Sound
<1> QED BY <1>2, <1>5, <1>6

LEMMA SavepointIs ==
    ASSUME NEW w, NEW n, Number(n), Basic(w, n), InTransaction(w), NEW o \in exec(w, Run("SAVEPOINT"), FALSE)
    PROVE  /\ Keeps(o.w, w, n) /\ o.w.stored = w.stored /\ o.res \in {"ok", "sql", "broken"}
           /\ o.res # "broken" => is_open(w) /\ is_open(o.w)
           /\ o.res = "ok" => w.session.tx = "open" /\ o.w.session = Marked(w.session)
           /\ o.res = "sql" => w.session.tx = "failed" /\ o.w.session.tx = "failed"
<1>1. Inside(Run("SAVEPOINT"), n) /\ Command(Run("SAVEPOINT")) /\ IsWorld(w)
  BY DEF Inside, Command, Commands, Basic, Linked
<1>2. /\ Keeps(o.w, w, n) /\ o.w.stored = w.stored
      /\ \/ is_open(w) /\ is_open(o.w) /\ Obeys(o, w, Run("SAVEPOINT"))
         \/ o.res = "broken"
  BY <1>1, ExecInside, ZenonT(60)
<1>3. o.res \in {"ok", "sql", "broken"} /\ (o.res # "broken" => is_open(w) /\ is_open(o.w))
  BY <1>2 DEF Obeys, Fails
<1>4. ASSUME o.res # "broken"
      PROVE  \/ o.res = "ok" /\ w.session.tx = "open" /\ o.w.session = Marked(w.session)
             \/ o.res = "sql" /\ w.session.tx = "failed" /\ o.w.session.tx = "failed"
  <2>1. is_open(w) /\ o \in Executes(w, Run("SAVEPOINT"))
    BY <1>1, <1>4, ExecServes
  <2>2. CASE w.session.tx = "open" /\ Runs(o, w, Marked(w.session))
    BY <2>2, NowIs
  <2>3. CASE w.session.tx # "open" /\ FailsWith(o, w, w.session)
    <3>1. w.session.tx = "failed" /\ Session(w.session)
      BY <2>1, <2>3 DEF Basic, Tidy, InTransaction
    <3>2. o.res = "sql" /\ o.w.session = Failed(w.session)
      BY <2>3, NowIs
    <3> QED BY <3>1, <3>2 DEF Failed, Session
  <2> QED BY <1>1, <2>1, <2>2, <2>3, SavepointRuns
<1> QED BY <1>2, <1>3, <1>4

\* In a subtransaction that has begun.
Entered(w, n) ==
    /\ HasSub(w, n) /\ w.sub.status = "active" /\ is_open(w) /\ w.session.tx = "open"
    /\ w.trans.pending = FALSE /\ Returnable(w, n)

LEMMA EnteredIs ==
    ASSUME NEW w, NEW n, HasSub(w, n), Calm(w, n), w.sub.status = "active"
    PROVE  Entered(w, n)
<1>1. Sound(w, n) /\ InSubtransaction(w)
  BY DEF HasSub, Calm, InSubtransaction
<1>2. w.trans.pending = FALSE
  <2>1. w.trans.pending # TRUE
    BY <1>1 DEF Sound
  <2>2. w.trans.pending \in BOOLEAN
    BY ObjectsFields DEF HasSub
  <2> QED BY <2>1, <2>2
<1> QED BY <1>1, <1>2 DEF Sound, Entered

LEMMA SubBeginIs ==
    ASSUME NEW w, NEW n, Number(n), HasSub(w, n), Calm(w, n), w.sub.status = "nascent", NEW o \in sub_begin(w)
    PROVE  /\ o.res \in {"ok", "sql", "broken"}
           /\ Whole(o.w, n) /\ Elsewhere(o.w.stored, w.stored, n) /\ o.w.trans = w.trans
           /\ o.res = "ok" => Entered(o.w, n)
           /\ o.res = "sql" => Calm(o.w, n)
<1> DEFINE saves(v) == exec(v, Run("SAVEPOINT"), FALSE)
           active(v) == {Outcome([v EXCEPT !.sub.status = "active"], "ok")}
           marks == Then(get_notifs(w), saves)
<1>0. Basic(w, n) /\ InTransaction(w) /\ w.trans.status = "active" /\ w.trans.focus = FALSE /\ Whole(w, n)
  BY DEF HasSub, Whole, Calm
<1>1. o \in Then(marks, active)
  BY DEF sub_begin
<1>2. ASSUME NEW p \in marks
      PROVE  /\ Keeps(p.w, w, n) /\ p.res \in {"ok", "sql", "broken"}
             /\ p.w.stored = w.stored
             /\ p.res # "broken" => is_open(w) /\ is_open(p.w)
             /\ p.res = "ok" => w.session.tx = "open" /\ p.w.session = Marked(w.session)
             /\ p.res = "sql" => w.session.tx = "failed" /\ p.w.session.tx = "failed"
  <2>1. \/ p \in get_notifs(w) /\ p.res # "ok"
        \/ \E g \in get_notifs(w) : g.res = "ok" /\ p \in saves(g.w)
    BY <1>2 DEF Then, Threw, Succeeded
  <2>2. \A g \in get_notifs(w) : /\ Keeps(g.w, w, n) /\ g.res \in {"ok", "broken"}
                                 /\ g.w.stored = w.stored
                                 /\ g.res = "ok" => g.w = w
    BY <1>0, GetNotifsIs
  <2>3. CASE p \in get_notifs(w) /\ p.res # "ok"
    BY <2>2, <2>3
  <2>4. CASE p \in saves(w)
    BY <1>0, <2>4, SavepointIs
  <2> QED BY <2>1, <2>2, <2>3, <2>4
<1> HIDE DEF marks
<1>3. \/ o \in marks /\ o.res # "ok"
      \/ \E p \in marks : p.res = "ok" /\ o = Outcome([p.w EXCEPT !.sub.status = "active"], "ok")
  BY <1>1 DEF Then, Threw, Succeeded
<1>4. CASE o \in marks /\ o.res # "ok"
  <2>1. Keeps(o.w, w, n) /\ o.w.stored = w.stored
    BY <1>2, <1>4
  <2>2. Whole(o.w, n) /\ Elsewhere(o.w.stored, w.stored, n) /\ o.w.trans = w.trans /\ o.w.sub = w.sub
    BY <1>0, <2>1, KeepsWhole DEF Keeps, Similar
  <2>3. ASSUME o.res = "sql" PROVE Calm(o.w, n)
    <3>1. is_open(w) /\ is_open(o.w) /\ w.session.tx = "failed" /\ o.w.session.tx = "failed"
      BY <1>2, <1>4, <2>3
    <3>2. w.trans.pending # FALSE
      BY <1>0, <3>1 DEF Calm, Sound
    <3>3. ~InSubtransaction(o.w)
      BY <2>2 DEF InSubtransaction
    <3>4. InTransaction(o.w)
      BY <3>1 DEF InTransaction, is_open
    <3> QED BY <2>2, <3>1, <3>2, <3>3, <3>4 DEF Calm, Sound
  <2> QED BY <1>2, <1>4, <2>2, <2>3
<1>5. ASSUME NEW p \in marks, p.res = "ok", o = Outcome([p.w EXCEPT !.sub.status = "active"], "ok")
      PROVE  o.res = "ok" /\ Entered(o.w, n) /\ Elsewhere(o.w.stored, w.stored, n) /\ o.w.trans = w.trans
  <2>1. o.w = WithSubStatus(p.w, "active") /\ o.res = "ok"
    BY <1>5, OutcomeIs DEF WithSubStatus
  <2>2. /\ Keeps(p.w, w, n) /\ is_open(w) /\ is_open(p.w) /\ p.w.stored = w.stored
        /\ w.session.tx = "open" /\ p.w.session = Marked(w.session)
    BY <1>2, <1>5
  <2>3. SubWith(o.w, p.w, w, n, "active")
    BY <2>1, <2>2, SubSettled, SubStatuses
  <2>4. ~InSubtransaction(w) /\ Sound(w, n) /\ w.sub.acked = {}
    BY <1>0 DEF Calm, InSubtransaction, HasSub, Whole, Objects, IsSub
  <2>5. w.trans.pending = FALSE /\ Holds(w, n, w.session.work, w.trans.acked)
    <3>1. w.trans.pending # TRUE
      BY <2>2, <2>4 DEF Sound
    <3>2. w.trans.pending = FALSE
      BY <1>0, <3>1, ObjectsFields
    <3> QED BY <2>2, <2>4, <3>2 DEF Sound
  <2>6. /\ o.w.session.tx = "open" /\ o.w.session.save = {w.session.work} /\ o.w.session.work = w.session.work
        /\ is_open(o.w) /\ o.w.stored = w.stored /\ o.w.trans = w.trans /\ o.w.sub.acked = {}
    <3>1. Session(w.session)
      BY <1>0 DEF Basic, Tidy
    <3>2. Marked(w.session).tx = w.session.tx /\ Marked(w.session).save = {w.session.work}
          /\ Marked(w.session).work = w.session.work
      BY <3>1 DEF Marked, Session
    <3> QED BY <2>2, <2>3, <2>4, <3>2 DEF SubWith, Same, is_open
  <2>7. Holds(o.w, n, w.session.work, o.w.trans.acked)
    BY <2>5, <2>6, HoldsSame
  <2>8. Returnable(o.w, n)
    <3>1. o.w.trans.acked \cup o.w.sub.acked = o.w.trans.acked
      BY <2>6
    <3> QED BY <2>6, <2>7, <3>1 DEF Returnable
  <2> QED BY <2>1, <2>3, <2>5, <2>6, <2>8 DEF Entered, SubWith
<1> QED BY <1>3, <1>4, <1>5 DEF Entered, HasSub

\* A statement of the subtransaction, and what it leaves.
LEMMA SubAcknowledged ==
    ASSUME NEW w, NEW n, Number(n), Entered(w, n), NEW k \in 1 .. MaxStatements,
           NEW u, Keeps(u, w, n), u.stored = w.stored, Did(u, w, Add(Statement(n, k))),
           NEW v, v = WithSubAcked(u, w.sub.acked \cup {k})
    PROVE  Whole(v, n) /\ Calm(v, n) /\ Elsewhere(v.stored, w.stored, n)
<1>1. u.sub = w.sub /\ u.trans = w.trans /\ IsWorld(u) /\ Basic(u, n) /\ u.stored = w.stored
  BY DEF Keeps, Similar
<1>2. /\ Same(v, u) /\ v.trans = w.trans /\ DOMAIN v.sub = SubFields
      /\ v.sub.acked = w.sub.acked \cup {k} /\ v.sub.vars = w.sub.vars /\ v.sub.status = "active"
  BY <1>1, SubWriting DEF Entered, HasSub
<1>3. IsSub(v.sub)
  <2>1. k \in Nat
    OBVIOUS
  <2> QED BY <1>2, <2>1 DEF Entered, HasSub, IsSub, SubFields
<1>4. Whole(v, n) /\ Elsewhere(v.stored, w.stored, n)
  <2>1. Basic(v, n) /\ v.stored = w.stored
    BY <1>1, <1>2, BasicSame DEF Same
  <2> QED BY <1>2, <1>3, <2>1, SubWhole DEF Entered, HasSub
<1>5. PICK S : /\ w.session.save = {S} /\ Holds(w, n, S, w.trans.acked)
               /\ Holds(w, n, w.session.work, w.trans.acked \cup w.sub.acked)
  BY DEF Entered, Returnable
<1>6. /\ v.session.save = {S} /\ v.session.work = w.session.work \cup {Add(Statement(n, k))}
      /\ v.session.tx = "open" /\ is_open(v) /\ v.stored = w.stored
  BY <1>2, <1>5 DEF Same, Did, is_open
<1>7. Holds(v, n, S, v.trans.acked)
  BY <1>2, <1>5, <1>6, HoldsSame
<1>8. Holds(v, n, v.session.work, v.trans.acked \cup v.sub.acked)
  <2>1. Holds(v, n, w.session.work \cup {Add(Statement(n, k))}, (w.trans.acked \cup w.sub.acked) \cup {k})
    BY <1>2, <1>5, <1>6, HoldsMore
  <2>2. v.trans.acked \cup v.sub.acked = (w.trans.acked \cup w.sub.acked) \cup {k}
    BY <1>2
  <2> QED BY <1>6, <2>1, <2>2
<1>9. Returnable(v, n)
  BY <1>6, <1>7, <1>8 DEF Returnable
<1>10. v.trans.pending # TRUE
  BY <1>2 DEF Entered
<1>11. InTransaction(v)
  BY <1>6 DEF InTransaction, is_open
<1> QED BY <1>2, <1>4, <1>6, <1>9, <1>10, <1>11 DEF Calm, Sound, InSubtransaction

\* A statement that fails takes the subtransaction back to where it began.
LEMMA SubFailed ==
    ASSUME NEW w, NEW n, Number(n), Entered(w, n), NEW c, Own(c, n),
           NEW p \in exec(w, c, FALSE), p.res # "ok", NEW q \in sub_abort(p.w)
    PROVE  /\ Whole(q.w, n) /\ Elsewhere(q.w.stored, w.stored, n)
           /\ p.res = "sql" => Calm(q.w, n)
<1>1. Basic(w, n) /\ InTransaction(w) /\ is_open(w) /\ Inside(c, n) /\ Whole(w, n) /\ HasSub(w, n)
  BY DEF Entered, HasSub, Whole, InTransaction, is_open, Inside
<1>2. /\ Keeps(p.w, w, n) /\ p.w.stored = w.stored
      /\ p.res = "sql" => is_open(p.w) /\ p.w.session = Failed(w.session)
  <2>1. /\ Keeps(p.w, w, n) /\ p.w.stored = w.stored
        /\ \/ is_open(w) /\ is_open(p.w) /\ Obeys(p, w, c)
           \/ p.res = "broken"
    BY <1>1, ExecInside, ZenonT(60)
  <2> QED BY <2>1 DEF Obeys, Fails
<1>3. p.w.trans = w.trans /\ p.w.sub = w.sub
  BY <1>2 DEF Keeps, Similar
<1>4. Whole(p.w, n) /\ Elsewhere(p.w.stored, w.stored, n) /\ HasSub(p.w, n)
  BY <1>1, <1>2, <1>3, KeepsWhole DEF HasSub
<1>5. /\ Whole(q.w, n) /\ Elsewhere(q.w.stored, p.w.stored, n)
      /\ Back(p.w, n) => Calm(q.w, n)
  BY <1>4, SubAbortIs
<1>6. ASSUME p.res = "sql" PROVE Back(p.w, n)
  <2>1. PICK S : w.session.save = {S} /\ Holds(w, n, S, w.trans.acked)
    BY DEF Entered, Returnable
  <2>2. Session(w.session) /\ w.session.tx = "open"
    BY <1>1 DEF Basic, Tidy, Entered
  <2>3. p.w.session.save = {S} /\ p.w.session.tx # "idle" /\ is_open(p.w)
    BY <1>2, <1>6, <2>1, <2>2 DEF Failed, Session
  <2>4. Holds(p.w, n, S, p.w.trans.acked)
    BY <1>2, <1>3, <2>1, HoldsSame
  <2>5. p.w.trans.pending = FALSE
    BY <1>3 DEF Entered
  <2> QED BY <2>3, <2>4, <2>5 DEF Back
<1> QED BY <1>4, <1>5, <1>6, ElsewhereOn

\* A call in a subtransaction; the client catches an SQL error.
SubEnds(o, w, n) ==
    /\ Whole(o.w, n) /\ Elsewhere(o.w.stored, w.stored, n)
    /\ o.res \in {"ok", "sql"} => Calm(o.w, n)

LEMMA SubSendEnds ==
    ASSUME NEW w, NEW n, Number(n), HasSub(w, n), Calm(w, n), w.sub.status \in {"nascent", "active"},
           w.trans.sent \in 1 .. MaxStatements, NEW s \in sub_exec(w, Latest(w, n)),
           NEW o, \/ s.res # "ok" /\ o = s
                  \/ s.res = "ok" /\ o = Outcome([s.w EXCEPT !.sub.acked = @ \cup {s.w.trans.sent}], "ok")
    PROVE  SubEnds(o, w, n)
<1> DEFINE c == Latest(w, n)
           abortAnd(p) == {Outcome(q.w, p.res) : q \in sub_abort(p.w)}
           begun == IF w.sub.status = "nascent" THEN sub_begin(w) ELSE {Outcome(w, "ok")}
           executes(v) == Catch(exec(v, c, FALSE), abortAnd)
<1>1. s \in Then(begun, executes)
  BY DEF sub_exec
<1>2. ASSUME NEW b \in begun
      PROVE  /\ Whole(b.w, n) /\ Elsewhere(b.w.stored, w.stored, n) /\ b.w.trans = w.trans
             /\ b.res \in {"ok", "sql", "broken"}
             /\ b.res = "ok" => Entered(b.w, n)
             /\ b.res = "sql" => Calm(b.w, n)
  <2>1. CASE w.sub.status = "nascent"
    <3>1. b \in sub_begin(w)
      BY <1>2, <2>1
    <3> QED BY <2>1, <3>1, SubBeginIs
  <2>2. CASE w.sub.status = "active"
    <3>1. b.w = w /\ b.res = "ok"
      BY <1>2, <2>2, OutcomeIs
    <3> QED BY <2>2, <3>1, EnteredIs, ElsewhereItself DEF HasSub
  <2> QED BY <2>1, <2>2
<1> HIDE DEF begun, executes, abortAnd
<1>3. \/ s \in begun /\ s.res # "ok"
      \/ \E b \in begun : b.res = "ok" /\ s \in executes(b.w)
  BY <1>1 DEF Then, Threw, Succeeded
<1>4. CASE s \in begun /\ s.res # "ok"
  <2>1. o = s
    BY <1>4
  <2> QED BY <1>2, <1>4, <2>1 DEF SubEnds
<1>5. ASSUME NEW b \in begun, b.res = "ok", s \in executes(b.w) PROVE SubEnds(o, w, n)
  <2>1. Entered(b.w, n) /\ Elsewhere(b.w.stored, w.stored, n) /\ b.w.trans = w.trans /\ Own(c, n)
    BY <1>2, <1>5, LatestIsOwn
  <2>2. PICK p \in exec(b.w, c, FALSE) :
            \/ p.res = "ok" /\ s = p
            \/ p.res # "ok" /\ \E q \in sub_abort(p.w) : s = Outcome(q.w, p.res)
    BY <1>5 DEF executes, abortAnd, Catch, Threw, Succeeded
  <2>3. CASE p.res # "ok" /\ \E q \in sub_abort(p.w) : s = Outcome(q.w, p.res)
    <3>1. PICK q \in sub_abort(p.w) : s = Outcome(q.w, p.res)
      BY <2>3
    <3>2. o = s /\ s.w = q.w /\ s.res = p.res
      BY <2>3, <3>1, OutcomeIs
    <3>3. /\ Whole(q.w, n) /\ Elsewhere(q.w.stored, b.w.stored, n)
          /\ p.res = "sql" => Calm(q.w, n)
      BY <2>1, <2>3, SubFailed
    <3> QED BY <2>1, <2>3, <3>2, <3>3, ElsewhereOn DEF SubEnds
  <2>4. CASE p.res = "ok" /\ s = p
    <3>1. Basic(b.w, n) /\ InTransaction(b.w)
      BY <2>1 DEF Entered, HasSub, Whole, InTransaction, is_open
    <3>2. Answered(p, b.w, c, n)
      BY <2>1, <3>1, ExecDid
    <3>3. Keeps(p.w, b.w, n) /\ p.w.stored = b.w.stored /\ Did(p.w, b.w, Add(Statement(n, w.trans.sent)))
      BY <2>4, <3>2 DEF Answered, Latest
    <3>4. p.w.trans = w.trans /\ p.w.sub = b.w.sub
      BY <2>1, <3>3 DEF Keeps, Similar
    <3>5. o.res = "ok" /\ o.w = WithSubAcked(p.w, b.w.sub.acked \cup {w.trans.sent})
      BY <2>4, <3>4, OutcomeIs DEF WithSubAcked
    <3>6. Whole(o.w, n) /\ Calm(o.w, n) /\ Elsewhere(o.w.stored, b.w.stored, n)
      BY <2>1, <3>3, <3>5, SubAcknowledged
    <3> QED BY <2>1, <3>6, ElsewhereOn DEF SubEnds
  <2> QED BY <2>2, <2>3, <2>4
<1> QED BY <1>3, <1>4, <1>5

\* The subtransaction object is created, or destroyed.
LEMMA SubChanges ==
    ASSUME NEW w, NEW n, Number(n), Whole(w, n), w.trans.status = "active", w.trans.focus = FALSE,
           NEW v, Same(v, w), v.trans = w.trans, IsSub(v.sub), ~InSubtransaction(v)
    PROVE  /\ Whole(v, n) /\ Elsewhere(v.stored, w.stored, n)
           /\ Calm(w, n) /\ ~InSubtransaction(w) => Calm(v, n)
<1>1. Basic(v, n) /\ v.stored = w.stored /\ v.session = w.session /\ v.conn = w.conn
  BY BasicSame DEF Same, Whole
<1>3. Whole(v, n) /\ Elsewhere(v.stored, w.stored, n)
  BY <1>1, SubWhole
<1>4. ASSUME Calm(w, n), ~InSubtransaction(w) PROVE Calm(v, n)
  <2>1. Sound(w, n) /\ InTransaction(w)
    BY <1>4 DEF Calm
  <2>2. InTransaction(v) /\ (is_open(v) <=> is_open(w))
    BY <1>1, <2>1 DEF InTransaction, is_open
  <2>3. Holds(w, n, w.session.work, w.trans.acked) => Holds(v, n, v.session.work, v.trans.acked)
    BY <1>1, HoldsSame
  <2> QED BY <1>1, <1>4, <2>1, <2>2, <2>3 DEF Calm, Sound
<1> QED BY <1>3, <1>4

NewSub == [status |-> "nascent", vars |-> {}, acked |-> {}]

LEMMA OpenSubIs ==
    ASSUME NEW w, NEW n, Number(n), Whole(w, n), Calm(w, n), Free(w), NEW v, v = [w EXCEPT !.sub = NewSub]
    PROVE  Whole(v, n) /\ Calm(v, n) /\ Elsewhere(v.stored, w.stored, n)
<1>1. Same(v, w) /\ v.sub = NewSub /\ v.trans = w.trans
  BY ObjectsFields, WithSub
<1>2. IsSub(v.sub) /\ v.sub.status = "nascent"
  BY <1>1 DEF NewSub, IsSub
<1>3. ~InSubtransaction(v) /\ ~InSubtransaction(w)
  BY <1>2, NoSubIs DEF InSubtransaction, Free
<1> QED BY <1>1, <1>2, <1>3, SubChanges DEF Free

LEMMA DropSubIs ==
    ASSUME NEW w, NEW n, Number(n), HasSub(w, n),
           NEW o, IF w.sub.status = "active" THEN o \in sub_abort(w) ELSE o = Outcome(w, "ok"),
           NEW v, v = [o.w EXCEPT !.sub = NoSub]
    PROVE  /\ Whole(v, n) /\ Elsewhere(v.stored, w.stored, n)
           /\ Calm(w, n) => Calm(v, n)
<1>1. ASSUME NEW u, Whole(u, n), u.trans.status = "active", u.trans.focus = FALSE, ~InSubtransaction(u),
             v = [u EXCEPT !.sub = NoSub]
      PROVE  /\ Whole(v, n) /\ Elsewhere(v.stored, u.stored, n)
             /\ Calm(u, n) => Calm(v, n)
  <2>1. Same(v, u) /\ v.sub = NoSub /\ v.trans = u.trans
    <3>1. IsWorld(u)
      BY <1>1, ObjectsFields
    <3> QED BY ONLY <1>1, <3>1, WithSub
  <2>2. IsSub(v.sub) /\ ~InSubtransaction(v)
    BY <2>1, NoSubIs DEF IsSub, InSubtransaction
  <2> QED BY <1>1, <2>1, <2>2, SubChanges
<1>2. CASE w.sub.status = "active"
  <2>1. o \in sub_abort(w)
    BY <1>2
  <2>2. /\ Whole(o.w, n) /\ Elsewhere(o.w.stored, w.stored, n)
        /\ o.w.sub.status = "aborted" /\ o.w.trans = w.trans
        /\ Back(w, n) => Calm(o.w, n)
    BY <2>1, SubAbortIs
  <2>3. Calm(w, n) => Back(w, n)
    <3> SUFFICES ASSUME Calm(w, n) PROVE Back(w, n)
      OBVIOUS
    <3>1. Entered(w, n)
      BY <1>2, EnteredIs
    <3>2. w.session.tx = "open"
      BY <3>1 DEF Entered
    <3> QED BY <3>1, <3>2 DEF Entered, Returnable, Back
  <2>4. ~InSubtransaction(o.w) /\ o.w.trans.status = "active" /\ o.w.trans.focus = FALSE
    BY <2>2 DEF InSubtransaction, HasSub
  <2>5. /\ Whole(v, n) /\ Elsewhere(v.stored, o.w.stored, n)
        /\ Calm(o.w, n) => Calm(v, n)
    BY <1>1, <2>2, <2>4
  <2> QED BY <2>2, <2>3, <2>5, ElsewhereOn
<1>3. CASE w.sub.status # "active"
  <2>1. o.w = w
    BY <1>3, OutcomeIs
  <2> QED BY <1>1, <1>3, <2>1 DEF InSubtransaction, HasSub
<1> QED BY <1>2, <1>3

LEMMA ReleaseIs ==
    ASSUME NEW w, NEW n, Number(n), Basic(w, n), InTransaction(w), NEW o \in exec(w, Run("RELEASE"), FALSE)
    PROVE  /\ Keeps(o.w, w, n) /\ o.w.stored = w.stored /\ o.res \in {"ok", "sql", "broken"}
           /\ o.res = "ok" => is_open(w) /\ is_open(o.w) /\ o.w.session = Unmarked(w.session)
<1>1. Inside(Run("RELEASE"), n) /\ Command(Run("RELEASE")) /\ IsWorld(w)
  BY DEF Inside, Command, Commands, Basic, Linked
<1>2. /\ Keeps(o.w, w, n) /\ o.w.stored = w.stored
      /\ \/ is_open(w) /\ is_open(o.w) /\ Obeys(o, w, Run("RELEASE"))
         \/ o.res = "broken"
  BY <1>1, ExecInside, ZenonT(60)
<1> QED BY <1>2 DEF Obeys, Fails

\* RELEASE: the statements are the transaction's own.
Released(u) == WithAcked(WithSubStatus(u, "committed"), u.trans.acked \cup u.sub.acked)

LEMMA ReleasedIs ==
    ASSUME NEW w, NEW n, Number(n), Entered(w, n), NEW u, Keeps(u, w, n), u.stored = w.stored,
           is_open(u), u.session = Unmarked(w.session), NEW v, v = Released(u)
    PROVE  Whole(v, n) /\ Calm(v, n) /\ Elsewhere(v.stored, w.stored, n)
<1> DEFINE t == WithSubStatus(u, "committed")
<1>1. SubWith(t, u, w, n, "committed")
  BY SubSettled, SubStatuses DEF Entered
<1> HIDE DEF t
<1>2. /\ Whole(t, n) /\ Elsewhere(t.stored, w.stored, n) /\ Same(t, u) /\ t.trans = w.trans
      /\ t.sub.status = "committed" /\ t.sub.acked = w.sub.acked /\ HasSub(t, n)
  BY <1>1 DEF SubWith
<1>3. u.trans = w.trans /\ u.sub = w.sub
  BY DEF Keeps, Similar
<1>4. v = WithAcked(t, w.trans.acked \cup w.sub.acked)
  BY <1>3 DEF Released, t
<1>5. Wrote(v, t, "acked") /\ v.trans.acked = w.trans.acked \cup w.sub.acked
  BY <1>2, <1>4, ObjectsFields, WritingValues
<1>6. /\ Same(v, t) /\ v.sub = t.sub /\ DOMAIN v.trans = TransFields
      /\ v.trans.status = t.trans.status /\ v.trans.kind = t.trans.kind /\ v.trans.focus = t.trans.focus /\ v.trans.pending = t.trans.pending
      /\ v.trans.vars = t.trans.vars /\ v.trans.sent = t.trans.sent /\ v.trans.logged = t.trans.logged
  BY <1>5, AckedWritten
<1>7. v.trans.status = "active" /\ v.trans.focus = FALSE /\ v.trans.pending = FALSE
  BY <1>2, <1>6 DEF Entered, HasSub
<1>8. Objects(v)
  <2>1. Objects(t) /\ t.trans.acked \subseteq Nat /\ w.sub.acked \subseteq Nat
    BY <1>2 DEF Whole, Objects, HasSub
  <2>2. v.trans.acked \subseteq Nat
    BY <1>2, <1>5, <2>1
  <2> QED BY <1>6, <1>7, <2>1, <2>2 DEF Objects, IsTrans
<1>9. Whole(v, n)
  <2>1. Basic(v, n)
    BY <1>2, <1>6, BasicSame DEF Whole
  <2>2. v.stored = t.stored
    BY <1>6 DEF Same
  <2> QED BY <1>2, <1>6, <1>7, <1>8, <2>1, <2>2 DEF Whole
<1>10. Session(w.session) /\ w.session.tx = "open"
  BY DEF Entered, HasSub, Whole, Basic, Tidy
<1>11. /\ v.session.tx = "open" /\ v.session.work = w.session.work /\ is_open(v) /\ v.stored = w.stored
  <2>1. v.session = Unmarked(w.session) /\ v.conn = u.conn /\ v.stored = w.stored
    BY <1>2, <1>6 DEF Same
  <2>2. Unmarked(w.session).tx = w.session.tx /\ Unmarked(w.session).work = w.session.work
    BY <1>10 DEF Unmarked, Session
  <2> QED BY <1>10, <2>1, <2>2 DEF is_open
<1>12. Holds(v, n, v.session.work, v.trans.acked)
  <2>1. Holds(w, n, w.session.work, w.trans.acked \cup w.sub.acked)
    BY DEF Entered, Returnable
  <2>2. v.trans.vars = w.trans.vars
    BY <1>2, <1>6
  <2>3. Holds(v, n, w.session.work, w.trans.acked \cup w.sub.acked)
    BY <1>11, <2>1, <2>2, HoldsSame
  <2> QED BY <1>5, <1>11, <2>3
<1>13. ~InSubtransaction(v) /\ InTransaction(v)
  BY <1>2, <1>6, <1>11 DEF InSubtransaction, InTransaction, is_open
<1>14. Elsewhere(v.stored, w.stored, n)
  BY <1>2, <1>6 DEF Same
<1> QED BY <1>7, <1>9, <1>11, <1>12, <1>13, <1>14 DEF Calm, Sound

LEMMA AddNoVariables ==
    ASSUME NEW u, NEW w, NEW n, Keeps(u, w, n), DOMAIN w.sub = SubFields, DOMAIN w.trans = TransFields,
           w.sub.vars = {}, NEW a, a = add_variables(u, u.sub.vars)
    PROVE  /\ Keeps(a, w, n) /\ a.stored = u.stored /\ a.session = u.session /\ a.conn = u.conn
           /\ [a EXCEPT !.sub.status = "committed", !.trans.acked = @ \cup u.sub.acked] = Released(a)
<1>1. IsWorld(u) /\ u.sub = w.sub /\ u.trans = w.trans
  BY DEF Keeps, Similar
<1>2. /\ Similar(a, u) /\ a.conn = u.conn /\ a.session = u.session /\ a.stored = u.stored
      /\ a.settings = u.settings \cup u.sub.vars
  BY <1>1, AddVariablesIs
<1>3. a.settings = u.settings
  BY <1>1, <1>2
<1>4. Same(a, u) /\ a.sub = w.sub /\ a.trans = w.trans
  BY <1>1, <1>2, <1>3 DEF Same, Similar
<1>5. Keeps(a, w, n)
  <2>1. Basic(a, n)
    BY <1>4, BasicSame DEF Keeps
  <2> QED BY <1>2, <1>4, <2>1 DEF Keeps, Similar
<1>6. IsWorld(a) /\ DOMAIN a.sub = SubFields /\ DOMAIN a.trans = TransFields /\ u.sub.acked = a.sub.acked
  BY <1>1, <1>4 DEF Same
<1>7. [a EXCEPT !.sub.status = "committed", !.trans.acked = @ \cup a.sub.acked] = Released(a)
  BY <1>6 DEF Released, WithAcked, WithSubStatus, IsWorld, Fields
<1> QED BY <1>2, <1>5, <1>6, <1>7

LEMMA SubCommitEnds ==
    ASSUME NEW w, NEW n, Number(n), HasSub(w, n), Calm(w, n), w.sub.status \in {"nascent", "active"},
           NEW o \in sub_commit(w)
    PROVE  Ends(o, w, n)
<1> DEFINE aborted(p) == {Outcome([p.w EXCEPT !.sub.status = "aborted"], p.res)}
           committed(v) == {Outcome([add_variables(v, v.sub.vars) EXCEPT
                                         !.sub.status = "committed",
                                         !.trans.acked = @ \cup v.sub.acked], "ok")}
           releases == exec(w, Run("RELEASE"), FALSE)
<1>1. CASE w.sub.status = "nascent"
  <2>1. o = Outcome(w, "ok")
    BY <1>1 DEF sub_commit
  <2>2. o.w = w
    BY <2>1, OutcomeIs
  <2> QED BY <2>2, EndsSame DEF HasSub
<1>2. CASE w.sub.status = "active"
  <2>1. Entered(w, n)
    BY <1>2, EnteredIs
  <2>2. Basic(w, n) /\ InTransaction(w) /\ is_open(w)
    BY <2>1 DEF Entered, HasSub, Whole, InTransaction, is_open
  <2>3. o \in Then(Catch(releases, aborted), committed)
    BY <1>2, <2>2 DEF sub_commit
  <2>4. ASSUME NEW p \in releases
        PROVE  /\ Keeps(p.w, w, n) /\ p.w.stored = w.stored
               /\ p.res = "ok" => is_open(p.w) /\ p.w.session = Unmarked(w.session)
    BY <2>2, <2>4, ReleaseIs
  <2> HIDE DEF releases
  <2>5. PICK p \in releases :
            \/ p.res = "ok" /\ o \in committed(p.w)
            \/ p.res # "ok" /\ o.w = [p.w EXCEPT !.sub.status = "aborted"] /\ o.res = p.res
    <3>1. \A p : \A q \in aborted(p) : q.w = [p.w EXCEPT !.sub.status = "aborted"] /\ q.res = p.res
      BY OutcomeIs
    <3> HIDE DEF aborted, committed
    <3>2. \/ \E p \in releases : p.res = "ok" /\ o \in committed(p.w)
          \/ \E p \in releases : p.res # "ok" /\ \E q \in aborted(p) :
                 (q.res # "ok" /\ o = q) \/ (q.res = "ok" /\ o \in committed(q.w))
      BY <2>3 DEF Then, Catch, Threw, Succeeded
    <3>3. ASSUME NEW p \in releases, p.res # "ok", NEW q \in aborted(p),
                 (q.res # "ok" /\ o = q) \/ (q.res = "ok" /\ o \in committed(q.w))
          PROVE  o.w = [p.w EXCEPT !.sub.status = "aborted"] /\ o.res = p.res
      <4>1. q.w = [p.w EXCEPT !.sub.status = "aborted"] /\ q.res = p.res
        BY <3>1
      <4> QED BY ONLY <3>3, <4>1
    <3>4. CASE \E p \in releases : p.res = "ok" /\ o \in committed(p.w)
      BY <3>4
    <3>5. CASE \E p \in releases : p.res # "ok" /\ \E q \in aborted(p) :
                 (q.res # "ok" /\ o = q) \/ (q.res = "ok" /\ o \in committed(q.w))
      BY <3>3, <3>5, Zenon
    <3> QED BY <3>2, <3>4, <3>5
  <2>6. CASE p.res # "ok" /\ o.w = [p.w EXCEPT !.sub.status = "aborted"] /\ o.res = p.res
    <3>1. SubWith(WithSubStatus(p.w, "aborted"), p.w, w, n, "aborted")
      BY <2>4, SubSettled, SubStatuses
    <3>2. o.w = WithSubStatus(p.w, "aborted")
      BY <2>6 DEF WithSubStatus
    <3>3. SubWith(o.w, p.w, w, n, "aborted")
      BY <3>1, <3>2
    <3> QED BY <2>6, <3>3 DEF SubWith, Ends
  <2>7. CASE p.res = "ok" /\ o \in committed(p.w)
    <3>1. Keeps(p.w, w, n) /\ p.w.stored = w.stored /\ is_open(p.w) /\ p.w.session = Unmarked(w.session)
      BY <2>4, <2>7
    <3>2. IsWorld(p.w) /\ p.w.trans = w.trans /\ p.w.sub = w.sub
      BY <3>1 DEF Keeps, Similar
    <3>3. DOMAIN w.sub = SubFields /\ DOMAIN w.trans = TransFields /\ w.sub.vars = {}
      BY ObjectsFields, SMTT(40) DEF HasSub
    <3> DEFINE a == add_variables(p.w, p.w.sub.vars)
    <3>4. /\ Keeps(a, w, n) /\ a.stored = p.w.stored /\ a.session = p.w.session /\ a.conn = p.w.conn
          /\ [a EXCEPT !.sub.status = "committed", !.trans.acked = @ \cup p.w.sub.acked] = Released(a)
      BY <3>1, <3>3, AddNoVariables
    <3>5. o = Outcome([a EXCEPT !.sub.status = "committed", !.trans.acked = @ \cup p.w.sub.acked], "ok")
      BY <2>7
    <3> HIDE DEF a
    <3>6. o.w = Released(a) /\ o.res = "ok"
      BY <3>4, <3>5, OutcomeIs
    <3>7. Whole(o.w, n) /\ Calm(o.w, n) /\ Elsewhere(o.w.stored, w.stored, n)
      <4>1. a.stored = w.stored /\ is_open(a) /\ a.session = Unmarked(w.session)
        BY <3>1, <3>4 DEF is_open
      <4> QED BY <2>1, <3>4, <3>6, <4>1, ReleasedIs
    <3> QED BY <3>7 DEF Ends
  <2> QED BY <2>5, <2>6, <2>7
<1> QED BY <1>1, <1>2

-----------------------------------------------------------------------------
(* Calls on the connection, between transactions *)

Between(w, n) ==
    /\ Basic(w, n) /\ w.session.tx = "idle" /\ NothingFrom(w.stored, n)
    /\ w.trans = NoTrans /\ w.sub = NoSub

\* The connection may have changed, and its session, but nothing else.
Stays(v, w) == Similar(v, w) /\ v.stored = w.stored /\ v.session.tx = "idle"

LEMMA StaysBetween ==
    ASSUME NEW w, NEW n, Between(w, n), NEW v, Basic(v, n), Stays(v, w)
    PROVE  Between(v, n)
  BY DEF Between, Stays, Similar

LEMMA GoneStays ==
    ASSUME NEW w, NEW n, Between(w, n), NEW v, Gone(v, w), v.stored = w.stored
    PROVE  Basic(v, n) /\ Stays(v, w)
<1>1. Basic(v, n)
  BY GoneBasic DEF Between, Basic
<1>2. v.session.tx = "idle"
  BY FreshIs DEF Gone
<1> QED BY <1>1, <1>2 DEF Gone, Stays

\* A variable set or a channel listened to, outside of a transaction.
Setting(op) == op \in {"SET", "LISTEN"}

LEMMA AloneSets ==
    ASSUME NEW op, Setting(op), NEW s, Session(s)
    PROVE  /\ Session(Alone(s, Run(op))) /\ Alone(s, Run(op)).tx = s.tx
           /\ Alone(s, Run(op)).work = s.work /\ Alone(s, Run(op)).save = s.save
           /\ Alone(s, Run(op)).set = s.set \cup {op}
           /\ Alone(s, Run(op)).lost = s.lost \ (s.set \cup {op})
<1>1. Run(op).op = op /\ op # "add" /\ op # "remove"
  BY DEF Run, Setting
<1>3. InEffect([set |-> s.set, work |-> {Run(op)}]) = s.set \cup {op}
  <2>1. \A x : Run(x) = Run(op) <=> x = op
    BY <1>1 DEF Run
  <2> QED BY <2>1 DEF InEffect, Setting
<1>4. Alone(s, Run(op)) = [s EXCEPT !.set = s.set \cup {op}, !.lost = @ \ (s.set \cup {op})]
  BY <1>3 DEF Alone
<1> QED BY <1>4 DEF Session

LEMMA SettingStoresNothing ==
    ASSUME NEW op, Setting(op), NEW db
    PROVE  Applied(db, {Run(op)}) = db
<1>1. Run(op).op = op /\ op # "add" /\ op # "remove"
  BY DEF Run, Setting
<1>2. Items({Run(op)}, "add") = {} /\ Items({Run(op)}, "remove") = {}
  BY <1>1 DEF Items
<1> QED BY <1>2 DEF Applied

LEMMA SettingRuns ==
    ASSUME NEW w, NEW n, Between(w, n), is_open(w), NEW op, Setting(op), NEW o \in Executes(w, Run(op))
    PROVE  /\ o.w.stored = w.stored /\ Similar(o.w, w) /\ o.w.conn = "ok" /\ o.w.settings = w.settings
           /\ \/ o.res = "ok" /\ o.w.session = Alone(w.session, Run(op))
              \/ o.res = "sql" /\ o.w.session = Failed(w.session)
<1>1. IsWorld(w) /\ Session(w.session) /\ w.session.tx = "idle" /\ w.conn = "ok"
  BY DEF Between, Basic, Linked, Tidy, is_open
<1>2. Run(op).op \in {"add", "remove", "SET", "LISTEN"}
  BY DEF Run, Setting
<1>3. \/ /\ w.session.tx = "idle" /\ o.res = "ok"
         /\ Now(o.w, w, Alone(w.session, Run(op)), Applied(w.stored, {Run(op)}))
      \/ FailsWith(o, w, w.session)
  BY <1>1, <1>2, ItemRuns
<1>4. Applied(w.stored, {Run(op)}) = w.stored
  BY <1>1, SettingStoresNothing
<1> QED BY <1>1, <1>3, <1>4 DEF Now, FailsWith

\* When the server has set it, the connection object notes it.
LEMMA SettingNoted ==
    ASSUME NEW w, NEW n, Between(w, n), NEW op, Setting(op), NEW u, Similar(u, w), u.stored = w.stored,
           \/ is_open(w) /\ u.conn = "ok" /\ u.settings = w.settings /\ u.session = Alone(w.session, Run(op))
           \/ u.conn \in {"none", "bad"} /\ u.session = Fresh,
           NEW v, v = [u EXCEPT !.settings = @ \cup {op}]
    PROVE  Basic(v, n) /\ Stays(v, w)
<1> DEFINE x == WithSettings(u, u.settings \cup {op})
<1>1. IsWorld(u) /\ v = x
  BY DEF Similar, WithSettings
<1>2. /\ Similar(v, u) /\ v.conn = u.conn /\ v.session = u.session /\ v.stored = u.stored
      /\ v.settings = u.settings \cup {op}
  <2>1. /\ Similar(x, u) /\ x.conn = u.conn /\ x.session = u.session /\ x.stored = u.stored
        /\ x.settings = u.settings \cup {op}
    BY <1>1, WithSettingsIs
  <2> HIDE DEF x
  <2> QED BY <1>1, <2>1
<1>3. Similar(v, w) /\ v.stored = w.stored /\ IsWorld(v)
  BY <1>2 DEF Similar
<1>4. LogTable \in w.stored /\ Session(w.session) /\ Tidy(w.session, n) /\ w.session.tx = "idle"
  BY DEF Between, Basic, Tidy
<1>5. CASE is_open(w) /\ u.conn = "ok" /\ u.settings = w.settings /\ u.session = Alone(w.session, Run(op))
  <2>1. /\ Session(v.session) /\ v.session.tx = "idle" /\ v.session.set = w.session.set \cup {op}
        /\ v.session.lost = w.session.lost \ (w.session.set \cup {op})
        /\ v.session.work = w.session.work /\ v.session.save = w.session.save
    <3> DEFINE s == w.session
    <3>1. /\ Session(Alone(s, Run(op))) /\ Alone(s, Run(op)).tx = s.tx
          /\ Alone(s, Run(op)).work = s.work /\ Alone(s, Run(op)).save = s.save
          /\ Alone(s, Run(op)).set = s.set \cup {op}
          /\ Alone(s, Run(op)).lost = s.lost \ (s.set \cup {op})
      BY <1>4, AloneSets
    <3> QED BY <1>2, <1>4, <1>5, <3>1
  <2>2. v.session.set = v.settings \ v.session.lost
    <3>1. w.session.set = w.settings \ w.session.lost
      BY <1>5 DEF Between, Basic, is_open
    <3>2. v.settings = w.settings \cup {op}
      BY <1>2, <1>5
    <3> QED BY <2>1, <3>1, <3>2
  <2>3. Tidy(v.session, n)
    BY <1>4, <2>1 DEF Tidy
  <2>4. Linked(v)
    BY <1>2, <1>3, <1>5, <2>1 DEF Linked
  <2> QED BY <1>3, <1>4, <2>1, <2>2, <2>3, <2>4 DEF Basic, Stays
<1>6. CASE u.conn \in {"none", "bad"} /\ u.session = Fresh
  <2>1. v.session.tx = "idle" /\ Tidy(v.session, n) /\ v.conn # "ok"
    BY <1>2, <1>6, FreshIs, FreshIsTidy
  <2>2. Linked(v)
    BY <1>2, <1>3, <1>6, <2>1 DEF Linked
  <2> QED BY <1>3, <1>4, <2>1, <2>2 DEF Basic, Stays
<1> QED BY <1>5, <1>6

LEMMA FailedStays ==
    ASSUME NEW w, NEW n, Between(w, n), is_open(w), NEW v, Similar(v, w), v.stored = w.stored,
           v.conn = "ok", v.settings = w.settings, v.session = Failed(w.session)
    PROVE  Basic(v, n) /\ Stays(v, w)
<1>1. Session(w.session) /\ w.session.tx = "idle" /\ Tidy(w.session, n) /\ w.conn = "ok"
  BY DEF Between, Basic, Tidy, is_open
<1>2. Failed(w.session).tx = "idle" /\ SameSets(Failed(w.session), w.session)
  BY <1>1, SetsStay DEF Failed, Session
<1>3. Tidy(v.session, n)
  BY <1>1, TidyStays
<1>4. Linked(v)
  BY <1>1, <1>2 DEF Linked, Similar
<1> QED BY <1>1, <1>2, <1>3, <1>4 DEF Basic, Between, Stays, SameSets

LEMMA SetVariableIs ==
    ASSUME NEW w, NEW n, Between(w, n), NEW o \in set_variable(w)
    PROVE  Between(o.w, n) /\ o.w.stored = w.stored /\ o.res \in {"ok", "sql", "broken"}
<1> DEFINE sets == IF is_open(w) THEN exec(w, Run("SET"), FALSE) ELSE {Outcome(w, "ok")}
<1>1. \/ o \in sets /\ o.res # "ok"
      \/ \E p \in sets : p.res = "ok" /\ o = Outcome([p.w EXCEPT !.settings = @ \cup {"SET"}], "ok")
  BY DEF set_variable, Then, Threw, Succeeded
<1>2. Linked(w) /\ Command(Run("SET")) /\ Setting("SET")
  BY DEF Between, Basic, Command, Run, Setting
<1>3. ASSUME NEW p \in sets
      PROVE  /\ Similar(p.w, w) /\ p.w.stored = w.stored /\ p.res \in {"ok", "sql", "broken"}
             /\ p.res # "ok" => Basic(p.w, n) /\ Stays(p.w, w)
             /\ p.res = "ok" => \/ is_open(w) /\ p.w.conn = "ok" /\ p.w.settings = w.settings
                                   /\ p.w.session = Alone(w.session, Run("SET"))
                                \/ p.w.conn \in {"none", "bad"} /\ p.w.session = Fresh
  <2>1. CASE ~is_open(w)
    <3>1. p.w = w /\ p.res = "ok"
      BY <1>3, <2>1, OutcomeIs
    <3> QED BY <1>2, <2>1, <3>1 DEF Linked, is_open, Similar
  <2>2. CASE is_open(w)
    <3>1. Reaches(p, w, Run("SET"), FALSE) \/ Undone(p, w, Run("SET"), FALSE)
      BY <1>2, <1>3, <2>2, ExecOutcome
    <3>2. \A v : Arrives(v, w, FALSE) => v = w
      BY <2>2 DEF Arrives, is_open
    <3>3. \A e \in Executes(w, Run("SET")) :
             /\ e.w.stored = w.stored /\ Similar(e.w, w) /\ e.w.conn = "ok" /\ e.w.settings = w.settings
             /\ \/ e.res = "ok" /\ e.w.session = Alone(w.session, Run("SET"))
                \/ e.res = "sql" /\ e.w.session = Failed(w.session)
      BY <1>2, <2>2, SettingRuns
    <3>4. CASE Reaches(p, w, Run("SET"), FALSE)
      <4>1. p \in Executes(w, Run("SET"))
        BY <3>2, <3>4 DEF Reaches
      <4>2. /\ p.w.stored = w.stored /\ Similar(p.w, w) /\ p.w.conn = "ok" /\ p.w.settings = w.settings
            /\ \/ p.res = "ok" /\ p.w.session = Alone(w.session, Run("SET"))
               \/ p.res = "sql" /\ p.w.session = Failed(w.session)
        BY <3>3, <4>1
      <4>3. p.res # "ok" => Basic(p.w, n) /\ Stays(p.w, w)
        BY <2>2, <4>2, FailedStays
      <4> QED BY <2>2, <4>2, <4>3
    <3>5. CASE Undone(p, w, Run("SET"), FALSE)
      <4>1. Gone(p.w, w) /\ p.res = "broken" /\ p.w.stored = w.stored
        BY <3>2, <3>3, <3>5 DEF Undone, Breaks
      <4> QED BY <4>1, GoneStays DEF Gone
    <3> QED BY <3>1, <3>4, <3>5
  <2> QED BY <2>1, <2>2
<1> HIDE DEF sets
<1>4. CASE o \in sets /\ o.res # "ok"
  BY <1>3, <1>4, StaysBetween DEF Stays
<1>5. ASSUME NEW p \in sets, p.res = "ok", o = Outcome([p.w EXCEPT !.settings = @ \cup {"SET"}], "ok")
      PROVE  Between(o.w, n) /\ o.w.stored = w.stored /\ o.res \in {"ok", "sql", "broken"}
  <2>1. o.w = [p.w EXCEPT !.settings = @ \cup {"SET"}] /\ o.res = "ok"
    BY <1>5, OutcomeIs
  <2>2. Basic(o.w, n) /\ Stays(o.w, w)
    BY <1>2, <1>3, <1>5, <2>1, SettingNoted
  <2> QED BY <2>1, <2>2, StaysBetween DEF Stays
<1> QED BY <1>1, <1>4, <1>5

LEMMA AddReceiverIs ==
    ASSUME NEW w, NEW n, Between(w, n), NEW o \in add_receiver(w)
    PROVE  Between(o.w, n) /\ o.w.stored = w.stored
<1> DEFINE lost(p) == {IF p.res = "broken" THEN Outcome(p.w, "ok") ELSE p}
           asks == checked(PQexec(w, Run("LISTEN")))
           listens == IF is_open(w) THEN Catch(asks, lost) ELSE {Outcome(w, "ok")}
<1>1. \/ o \in listens /\ o.res # "ok"
      \/ \E p \in listens : p.res = "ok" /\ o = Outcome([p.w EXCEPT !.settings = @ \cup {"LISTEN"}], "ok")
  BY DEF add_receiver, Then, Threw, Succeeded
<1>2. Linked(w) /\ Command(Run("LISTEN")) /\ Setting("LISTEN")
  BY DEF Between, Basic, Command, Run, Setting
<1>3. ASSUME is_open(w), NEW p \in PQexec(w, Run("LISTEN"))
      PROVE  /\ Similar(p.w, w) /\ p.w.stored = w.stored
             /\ \/ /\ p.res = "ok" /\ p.w.conn = "ok" /\ p.w.settings = w.settings
                   /\ p.w.session = Alone(w.session, Run("LISTEN"))
                \/ p.res = "sql" /\ Basic(p.w, n) /\ Stays(p.w, w)
                \/ p.res \in {"lost", "broken"} /\ p.w.conn \in {"none", "bad"} /\ p.w.session = Fresh
  <2>1. p \in Executes(w, Run("LISTEN")) \/ Lost(p, w, Run("LISTEN"))
    BY <1>2, <1>3, PQexecIs
  <2>2. \A e \in Executes(w, Run("LISTEN")) :
           /\ e.w.stored = w.stored /\ Similar(e.w, w) /\ e.w.conn = "ok" /\ e.w.settings = w.settings
           /\ \/ e.res = "ok" /\ e.w.session = Alone(w.session, Run("LISTEN"))
              \/ e.res = "sql" /\ e.w.session = Failed(w.session)
    BY <1>2, <1>3, SettingRuns
  <2>3. CASE p \in Executes(w, Run("LISTEN"))
    <3>1. /\ p.w.stored = w.stored /\ Similar(p.w, w) /\ p.w.conn = "ok" /\ p.w.settings = w.settings
          /\ \/ p.res = "ok" /\ p.w.session = Alone(w.session, Run("LISTEN"))
             \/ p.res = "sql" /\ p.w.session = Failed(w.session)
      BY <2>2, <2>3
    <3>2. p.w.session = Failed(w.session) => Basic(p.w, n) /\ Stays(p.w, w)
      BY <1>3, <3>1, FailedStays
    <3> QED BY <3>1, <3>2
  <2>4. CASE Lost(p, w, Run("LISTEN"))
    BY <2>2, <2>4 DEF Lost, Gone
  <2> QED BY <2>1, <2>3, <2>4
<1>4. ASSUME NEW p \in listens
      PROVE  /\ Similar(p.w, w) /\ p.w.stored = w.stored
             /\ p.res # "ok" => Basic(p.w, n) /\ Stays(p.w, w)
             /\ p.res = "ok" => \/ is_open(w) /\ p.w.conn = "ok" /\ p.w.settings = w.settings
                                   /\ p.w.session = Alone(w.session, Run("LISTEN"))
                                \/ p.w.conn \in {"none", "bad"} /\ p.w.session = Fresh
  <2>1. CASE ~is_open(w)
    <3>1. p.w = w /\ p.res = "ok"
      BY <1>4, <2>1, OutcomeIs
    <3> QED BY <1>2, <2>1, <3>1 DEF Linked, is_open, Similar
  <2>2. CASE is_open(w)
    <3>1. ASSUME NEW a \in asks
          PROVE  /\ Similar(a.w, w) /\ a.w.stored = w.stored
                 /\ \/ /\ a.res = "ok" /\ a.w.conn = "ok" /\ a.w.settings = w.settings
                       /\ a.w.session = Alone(w.session, Run("LISTEN"))
                    \/ a.res = "sql" /\ Basic(a.w, n) /\ Stays(a.w, w)
                    \/ a.res = "broken" /\ a.w.conn \in {"none", "bad"} /\ a.w.session = Fresh
      <4>1. \/ a \in PQexec(w, Run("LISTEN")) /\ a.res # "lost"
            \/ \E q \in PQexec(w, Run("LISTEN")) : q.res = "lost" /\ a = Outcome(q.w, "broken")
        BY <3>1, CheckedIs
      <4>2. CASE a \in PQexec(w, Run("LISTEN")) /\ a.res # "lost"
        BY <1>3, <2>2, <4>2
      <4>3. ASSUME NEW q \in PQexec(w, Run("LISTEN")), q.res = "lost", a = Outcome(q.w, "broken")
            PROVE  /\ Similar(a.w, w) /\ a.w.stored = w.stored
                   /\ a.res = "broken" /\ a.w.conn \in {"none", "bad"} /\ a.w.session = Fresh
        <5>1. a.w = q.w /\ a.res = "broken"
          BY <4>3, OutcomeIs
        <5> QED BY <1>3, <2>2, <4>3, <5>1
      <4> QED BY <4>1, <4>2, <4>3
    <3>2. \/ p \in asks /\ p.res = "ok"
          \/ \E a \in asks : a.res # "ok" /\ p = IF a.res = "broken" THEN Outcome(a.w, "ok") ELSE a
      BY <1>4, <2>2 DEF Catch, Threw, Succeeded
    <3> HIDE DEF asks
    <3>3. CASE p \in asks /\ p.res = "ok"
      BY <2>2, <3>1, <3>3
    <3>4. ASSUME NEW a \in asks, a.res # "ok", p = IF a.res = "broken" THEN Outcome(a.w, "ok") ELSE a
          PROVE  /\ Similar(p.w, w) /\ p.w.stored = w.stored
                 /\ p.res # "ok" => Basic(p.w, n) /\ Stays(p.w, w)
                 /\ p.res = "ok" => p.w.conn \in {"none", "bad"} /\ p.w.session = Fresh
      <4>1. CASE a.res = "broken"
        <5>1. p.w = a.w /\ p.res = "ok"
          BY <3>4, <4>1, OutcomeIs
        <5> QED BY <3>1, <4>1, <5>1
      <4>2. CASE a.res # "broken"
        BY <3>1, <3>4, <4>2
      <4> QED BY <4>1, <4>2
    <3> QED BY <3>2, <3>3, <3>4
  <2> QED BY <2>1, <2>2
<1> HIDE DEF listens
<1>5. CASE o \in listens /\ o.res # "ok"
  BY <1>4, <1>5, StaysBetween DEF Stays
<1>6. ASSUME NEW p \in listens, p.res = "ok", o = Outcome([p.w EXCEPT !.settings = @ \cup {"LISTEN"}], "ok")
      PROVE  Between(o.w, n) /\ o.w.stored = w.stored
  <2>1. o.w = [p.w EXCEPT !.settings = @ \cup {"LISTEN"}]
    BY <1>6, OutcomeIs
  <2>2. Basic(o.w, n) /\ Stays(o.w, w)
    BY <1>2, <1>4, <1>6, <2>1, SettingNoted
  <2> QED BY <2>2, StaysBetween DEF Stays
<1> QED BY <1>1, <1>5, <1>6

LEMMA RemoveReceiverIs ==
    ASSUME NEW w, NEW n, Between(w, n), NEW o \in remove_receiver(w)
    PROVE  Between(o.w, n) /\ o.w.stored = w.stored
<1> DEFINE c == Run("UNLISTEN")
           erased == WithSettings(w, w.settings \ {"LISTEN"})
<1>1. Linked(w) /\ IsWorld(w) /\ w.session.tx = "idle" /\ Command(c)
  BY DEF Between, Basic, Linked, Command, Commands
<1>2. /\ Similar(erased, w) /\ erased.conn = w.conn /\ erased.session = w.session /\ erased.stored = w.stored
      /\ erased.settings = w.settings \ {"LISTEN"}
  BY <1>1, WithSettingsIs
<1>3. IF w.conn = "none" THEN o = Outcome(erased, "ok")
      ELSE \E p \in exec(erased, c, FALSE) : o = Outcome(p.w, "ok")
  BY DEF remove_receiver, Quietly, WithSettings
<1> HIDE DEF erased
<1>4. Linked(erased)
  BY <1>1, <1>2 DEF Linked, Similar
<1>5. \A v : Gone(v, erased) => Gone(v, w)
  BY <1>2 DEF Gone, Similar
<1>6. CASE w.conn = "none"
  <2>1. Gone(erased, w) /\ o.w = erased
    BY <1>1, <1>2, <1>3, <1>6, OutcomeIs DEF Gone, Linked
  <2>2. Basic(o.w, n) /\ Stays(o.w, w)
    BY <1>2, <2>1, GoneStays
  <2> QED BY <2>2, StaysBetween DEF Stays
<1>7. ASSUME w.conn # "none", NEW p \in exec(erased, c, FALSE)
      PROVE  Basic(p.w, n) /\ Stays(p.w, w)
  <2>1. Reaches(p, erased, c, FALSE) \/ Undone(p, erased, c, FALSE)
    BY <1>1, <1>4, <1>7, ExecOutcome
  <2>2. \A v : Arrives(v, erased, FALSE) => v = erased /\ is_open(erased)
    BY <1>2, <1>7 DEF Arrives
  <2>3. \A e \in Executes(erased, c) : Runs(e, erased, Deaf(erased.session))
    BY <1>1, <1>2, <1>4, UnlistenRuns DEF Linked
  <2>4. CASE Reaches(p, erased, c, FALSE)
    <3>1. is_open(erased) /\ p \in Executes(erased, c)
      BY <2>2, <2>4 DEF Reaches
    <3>2. Now(p.w, erased, Deaf(w.session), w.stored)
      BY <1>2, <2>3, <3>1 DEF Runs
    <3>3. /\ Session(w.session) /\ Tidy(w.session, n) /\ w.conn = "ok"
          /\ w.session.set = w.settings \ w.session.lost
      BY <1>2, <3>1 DEF Between, Basic, Tidy, is_open
    <3>4. /\ Session(p.w.session) /\ p.w.session.tx = "idle" /\ p.w.session.set = w.session.set \ {"LISTEN"}
          /\ p.w.session.work = w.session.work /\ p.w.session.save = w.session.save
          /\ p.w.session.lost = w.session.lost \ {"LISTEN"}
      <4>1. /\ Session(Deaf(w.session)) /\ Deaf(w.session).tx = w.session.tx
            /\ Deaf(w.session).set = w.session.set \ {"LISTEN"}
            /\ Deaf(w.session).work = w.session.work /\ Deaf(w.session).save = w.session.save
            /\ Deaf(w.session).lost = w.session.lost \ {"LISTEN"}
        BY <3>3 DEF Deaf, Session
      <4> QED BY <1>1, <3>2, <4>1 DEF Now
    <3>5. /\ IsWorld(p.w) /\ p.w.conn = "ok" /\ p.w.settings = w.settings \ {"LISTEN"} /\ p.w.stored = w.stored
          /\ Similar(p.w, w)
      BY <1>2, <3>2, <3>3 DEF Now, Similar
    <3>6. Tidy(p.w.session, n)
      BY ONLY <1>1, <3>3, <3>4 DEF Tidy
    <3>7. Linked(p.w)
      BY <3>4, <3>5 DEF Linked
    <3>8. p.w.session.set = p.w.settings \ p.w.session.lost
      BY ONLY <3>3, <3>4, <3>5
    <3> QED BY <3>3, <3>4, <3>5, <3>6, <3>7, <3>8 DEF Basic, Between, Stays
  <2>5. CASE Undone(p, erased, c, FALSE)
    <3>1. Gone(p.w, erased) /\ p.w.stored = w.stored
      BY <1>2, <2>2, <2>3, <2>5 DEF Undone, Breaks, Runs, Now
    <3> QED BY <1>5, <3>1, GoneStays
  <2> QED BY <2>1, <2>4, <2>5
<1>8. CASE w.conn # "none"
  <2>1. PICK p \in exec(erased, c, FALSE) : o = Outcome(p.w, "ok")
    BY <1>3, <1>8
  <2>2. Basic(p.w, n) /\ Stays(p.w, w) /\ o.w = p.w
    BY <1>7, <1>8, <2>1, OutcomeIs
  <2> QED BY <2>2, StaysBetween DEF Stays
<1> QED BY <1>6, <1>8

LEMMA DeactivateIs ==
    ASSUME NEW w, NEW n, Between(w, n)
    PROVE  Between(deactivate(w), n) /\ deactivate(w).stored = w.stored
<1>1. Gone(deactivate(w), w) /\ deactivate(w).stored = w.stored
  <2>1. IsWorld(w)
    BY DEF Between, Basic, Linked
  <2> QED BY <2>1, CutIsGone DEF deactivate
<1> QED BY <1>1, GoneStays, StaysBetween

-----------------------------------------------------------------------------
(* The state *)

Endings == [kind : Kinds, status : {"aborted", "committed", "in_doubt"}, acked : SUBSET Nat,
             logged : BOOLEAN]
Past(e, db) == \A m \in 1 .. Len(e) : Verdict(e[m].status, e[m].acked, e[m].logged, db, m)

TransactionInvariant ==
    /\ ended \in Seq(Endings) /\ unwinding \in BOOLEAN
    /\ Past(ended, stored)
    /\ trans = NoTrans => Between(here, number)
    /\ trans # NoTrans => Whole(here, number) /\ (unwinding # TRUE => Calm(here, number))

\* The same but for the right to reconnect.
Twin(v, w) ==
    /\ IsWorld(v) /\ v.conn = w.conn /\ v.settings = w.settings /\ v.session = w.session
    /\ v.stored = w.stored /\ v.trans = w.trans /\ v.sub = w.sub

LEMMA TwinIs ==
    ASSUME NEW v, NEW w, Twin(v, w), NEW n
    PROVE  /\ Between(w, n) => Between(v, n)
           /\ Whole(w, n) => Whole(v, n)
           /\ Calm(w, n) => Calm(v, n)
<1>1. Basic(w, n) => Basic(v, n)
  BY DEF Twin, Basic, Linked
<1>2. Objects(w) => Objects(v)
  BY DEF Twin, Objects
<1>3. /\ InTransaction(w) <=> InTransaction(v)
      /\ is_open(w) <=> is_open(v)
      /\ InSubtransaction(w) <=> InSubtransaction(v)
  BY DEF Twin, InTransaction, is_open, InSubtransaction
<1>4. \A work, acked : Holds(w, n, work, acked) => Holds(v, n, work, acked)
  BY HoldsSame DEF Twin
<1>5. Returnable(w, n) => Returnable(v, n)
  BY <1>4 DEF Twin, Returnable
<1>6. Sound(w, n) => Sound(v, n)
  BY <1>3, <1>4, <1>5 DEF Twin, Sound
<1>7. Calm(w, n) => Calm(v, n)
  BY <1>3, <1>6 DEF Twin, Calm
<1>8. Whole(w, n) => Whole(v, n)
  BY <1>1, <1>2, <1>3 DEF Twin, Whole, Over
<1>9. Between(w, n) => Between(v, n)
  BY <1>1 DEF Twin, Between
<1> QED BY <1>7, <1>8, <1>9

LEMMA HereIs ==
    /\ here.conn = conn /\ here.inhibited = inhibited /\ here.settings = settings
    /\ here.session = session /\ here.stored = stored /\ here.trans = trans /\ here.sub = sub
  BY DEF here

LEMMA HereBecomes ==
    ASSUME NEW w, Becomes(w), IsWorld(w)
    PROVE  Twin(here', w) /\ stored' = w.stored /\ trans' = w.trans /\ sub' = w.sub
  BY DEF here, Becomes, Twin, IsWorld, Fields

LEMMA NumberIs ==
    ASSUME TransactionInvariant
    PROVE  Number(number) /\ Len(ended) \in Nat /\ number = Len(ended) + 1
  BY DEF TransactionInvariant, number, Number

LEMMA VerdictStays ==
    ASSUME NEW n, NEW m, m # n, NEW db, NEW old, Elsewhere(db, old, n), NEW status, NEW acked, NEW logged,
           Verdict(status, acked, logged, old, m)
    PROVE  Verdict(status, acked, logged, db, m)
<1>1. \A k : Statement(m, k) \in db <=> Statement(m, k) \in old
  <2>1. \A j, k : Statement(m, j) # Statement(n, k)
    BY StatementIs
  <2> QED BY <2>1 DEF Elsewhere
<1>2. In(m, db) = In(m, old)
  BY <1>1 DEF In
<1> QED BY <1>1, <1>2 DEF Verdict

LEMMA PastStays ==
    ASSUME NEW S, NEW e \in Seq(S), NEW n, n = Len(e) + 1, NEW db, NEW old, Elsewhere(db, old, n), Past(e, old)
    PROVE  Past(e, db)
<1> SUFFICES ASSUME NEW m \in 1 .. Len(e) PROVE Verdict(e[m].status, e[m].acked, e[m].logged, db, m)
  BY DEF Past
<1>1. m # n
  OBVIOUS
<1>2. Verdict(e[m].status, e[m].acked, e[m].logged, old, m)
  BY DEF Past
<1> QED BY <1>1, <1>2, VerdictStays

LEMMA PastGrows ==
    ASSUME NEW S, NEW e \in Seq(S), NEW r \in S, NEW db, Past(e, db),
           Verdict(r.status, r.acked, r.logged, db, Len(e) + 1)
    PROVE  Past(Append(e, r), db) /\ Append(e, r) \in Seq(S) /\ Len(Append(e, r)) = Len(e) + 1
<1>1. Append(e, r) \in Seq(S) /\ Len(Append(e, r)) = Len(e) + 1
  OBVIOUS
<1>2. ASSUME NEW m \in 1 .. Len(e) + 1
      PROVE  Verdict(Append(e, r)[m].status, Append(e, r)[m].acked, Append(e, r)[m].logged, db, m)
  <2>1. CASE m = Len(e) + 1
    <3>1. Append(e, r)[m] = r
      BY <2>1
    <3> QED BY <2>1, <3>1
  <2>2. CASE m # Len(e) + 1
    <3>1. m \in 1 .. Len(e)
      BY <2>2
    <3>2. Append(e, r)[m] = e[m]
      BY <3>1
    <3> QED BY <3>1, <3>2 DEF Past
  <2> QED BY <2>1, <2>2
<1> QED BY <1>1, <1>2 DEF Past

\* A call between transactions.
LEMMA StepBetween ==
    ASSUME TransactionInvariant, trans = NoTrans, NEW w, Becomes(w), Between(w, number), w.stored = stored,
           ended' = ended, unwinding' \in BOOLEAN
    PROVE  TransactionInvariant'
<1>1. IsWorld(w) /\ w.trans = NoTrans
  BY DEF Between, Basic, Linked
<1>2. Twin(here', w) /\ stored' = stored /\ trans' = NoTrans
  BY <1>1, HereBecomes
<1>3. number' = number
  BY DEF number
<1>4. Between(here', number')
  <2>1. Between(here', number)
    BY <1>2, TwinIs
  <2> QED BY <1>3, <2>1
<1>5. ended' \in Seq(Endings) /\ Past(ended', stored')
  BY <1>2 DEF TransactionInvariant
<1> QED BY <1>2, <1>4, <1>5 DEF TransactionInvariant

\* A call on a transaction.
LEMMA StepInside ==
    ASSUME TransactionInvariant, NEW w, Becomes(w), Whole(w, number), Elsewhere(w.stored, stored, number),
           ended' = ended, unwinding' \in BOOLEAN, unwinding' # TRUE => Calm(w, number)
    PROVE  TransactionInvariant'
<1>1. IsWorld(w) /\ w.trans # NoTrans
  <2>1. IsWorld(w) /\ DOMAIN w.trans = TransFields
    BY ObjectsFields
  <2>2. DOMAIN NoTrans = {"status"}
    BY DEF NoTrans
  <2> QED BY <2>1, <2>2 DEF TransFields
<1>2. Twin(here', w) /\ stored' = w.stored /\ trans' # NoTrans
  BY <1>1, HereBecomes
<1>3. number' = number
  BY DEF number
<1>4. Whole(here', number') /\ (unwinding' # TRUE => Calm(here', number'))
  <2>1. Whole(here', number) /\ (Calm(w, number) => Calm(here', number))
    BY <1>2, TwinIs
  <2> QED BY <1>3, <2>1
<1>5. ended' \in Seq(Endings) /\ Past(ended', stored')
  <2>1. ended \in Seq(Endings) /\ Past(ended, stored) /\ number = Len(ended) + 1
    BY DEF TransactionInvariant, number
  <2>2. Past(ended, w.stored)
    BY <2>1, PastStays
  <2> QED BY <1>2, <2>1, <2>2
<1> QED BY <1>2, <1>4, <1>5 DEF TransactionInvariant

\* With no exception caught.
LEMMA StepEnds ==
    ASSUME TransactionInvariant, NEW v, v.stored = stored, NEW outs, Does(outs, {}),
           \A o \in outs : Ends(o, v, number), ended' = ended
    PROVE  TransactionInvariant'
<1>1. PICK o \in outs : Becomes(o.w) /\ unwinding' = (unwinding \/ o.res \notin {"ok"} \cup {})
  BY DEF Does
<1>2. Whole(o.w, number) /\ Elsewhere(o.w.stored, stored, number) /\ (o.res = "ok" => Calm(o.w, number))
  BY DEF Ends
<1>3. unwinding' \in BOOLEAN /\ (unwinding' # TRUE => o.res = "ok")
  BY <1>1, Zenon
<1> QED BY <1>1, <1>2, <1>3, StepInside

\* The transaction object is gone.
LEMMA OutsideIs ==
    ASSUME NEW u, NEW n, Number(n), Basic(u, n), u.session.tx = "idle", NothingFrom(u.stored, n + 1),
           u.sub = NoSub, NEW w, w = [u EXCEPT !.trans = NoTrans]
    PROVE  Between(w, n + 1) /\ w.stored = u.stored
<1>1. Same(w, u) /\ w.trans = NoTrans /\ w.sub = NoSub
  <2>1. IsWorld(u)
    BY DEF Basic, Linked
  <2> QED BY ONLY <2>1, u.sub = NoSub, w = [u EXCEPT !.trans = NoTrans], WithTrans
<1>2. Basic(w, n)
  BY <1>1, BasicSame
<1>3. w.session = u.session /\ w.stored = u.stored
  BY <1>1 DEF Same
<1>4. Tidy(w.session, n + 1)
  BY <1>2, <1>3 DEF Basic, Tidy
<1> QED BY <1>1, <1>2, <1>3, <1>4 DEF Between, Basic

LEMMA StepOver ==
    ASSUME TransactionInvariant, NEW w, Becomes(w), Between(w, number + 1),
           Elsewhere(w.stored, stored, number), NEW r \in Endings, ended' = Append(ended, r),
           Verdict(r.status, r.acked, r.logged, w.stored, number), unwinding' \in BOOLEAN
    PROVE  TransactionInvariant'
<1>1. IsWorld(w) /\ w.trans = NoTrans
  BY DEF Between, Basic, Linked
<1>2. Twin(here', w) /\ stored' = w.stored /\ trans' = NoTrans
  BY <1>1, HereBecomes
<1>3. ended \in Seq(Endings) /\ Past(ended, stored) /\ number = Len(ended) + 1
  BY DEF TransactionInvariant, number
<1>4. Past(ended, w.stored)
  BY <1>3, PastStays
<1>5. Past(Append(ended, r), w.stored) /\ Append(ended, r) \in Seq(Endings) /\ Len(Append(ended, r)) = Len(ended) + 1
  BY <1>3, <1>4, PastGrows
<1>6. number' = number + 1
  BY <1>3, <1>5 DEF number
<1>7. Between(here', number')
  <2>1. Between(here', number + 1)
    BY <1>2, TwinIs
  <2> QED BY <1>6, <2>1
<1> QED BY <1>2, <1>5, <1>7 DEF TransactionInvariant

\* A transaction that has begun.
LEMMA StartedIs ==
    ASSUME NEW w, NEW n, Number(n), Basic(w, n), Started(w, n), NothingFrom(w.stored, n + 1), In(n, w.stored) = {},
           IsTrans(w.trans), w.trans.kind \in Kinds, w.trans.status = "active", w.trans.focus = FALSE,
           w.trans.pending = FALSE, w.trans.vars = {}, w.trans.acked = {}, w.sub = NoSub,
           w.trans.logged = TRUE => Statement(n, 0) \in w.stored
    PROVE  Whole(w, n) /\ Calm(w, n)
<1>1. Objects(w)
  BY DEF Objects, IsSub
<1>2. ~InSubtransaction(w)
  BY NoSubIs DEF InSubtransaction
<1>3. InTransaction(w)
  BY DEF Started, InTransaction, is_open
<1>4. Holds(w, n, w.session.work, w.trans.acked)
  <2>1. \A k \in 1 .. MaxStatements : Add(Statement(n, k)) \notin w.session.work
    <3> SUFFICES ASSUME NEW k \in 1 .. MaxStatements, Add(Statement(n, k)) \in w.session.work PROVE FALSE
      OBVIOUS
    <3>1. Add(Statement(n, k)) \in {Add(Statement(n, 0)), Deleted(Statement(n, 0))}
      BY DEF Started
    <3>2. Add(Statement(n, k)).item = Statement(n, 0)
      BY <3>1, OpIs
    <3>3. Statement(n, k) = Statement(n, 0)
      BY <3>2, OpIs
    <3>4. k = 0
      BY <3>3, StatementIs
    <3> QED BY <3>4
  <2>2. Sent(n, w.session.work) = {}
    BY <2>1 DEF Sent
  <2>3. Run("SET") \notin w.session.work
    <3>1. Run("SET").op = "SET" /\ Add(Statement(n, 0)).op = "add" /\ Deleted(Statement(n, 0)).op = "remove"
      BY OpIs
    <3> QED BY <3>1 DEF Started
  <2> QED BY <2>2, <2>3 DEF Holds, Started
<1> QED BY <1>1, <1>2, <1>3, <1>4 DEF Whole, Calm, Sound, Started

LEMMA Constructs ==
    ASSUME Mishaps = {}, TransactionInvariant, NEW kind \in Kinds, Construct(kind)
    PROVE  TransactionInvariant'
<1> DEFINE n == number
           r == [kind |-> kind, status |-> "aborted", acked |-> {}, logged |-> FALSE]
<1>1. Number(n) /\ n = number /\ n = Len(ended) + 1
  BY NumberIs
<1>2. /\ trans = NoTrans /\ Between(here, n) /\ unwinding' \in BOOLEAN
  BY DEF TransactionInvariant, Construct
<1>3. PICK o \in construct(here, kind) :
          IF o.res = "ok" THEN Becomes(o.w) /\ ended' = ended
          ELSE Becomes([o.w EXCEPT !.trans = NoTrans]) /\ ended' = Append(ended, r)
  BY DEF Construct
<1> HIDE DEF n
<1>4. /\ Basic(here, n) /\ here.session.tx = "idle" /\ NothingFrom(here.stored, n) /\ here.sub = NoSub
  BY <1>2 DEF Between
<1>5. /\ \A m, k : m \in Nat /\ m >= n => Statement(m, k) \notin here.stored
      /\ NothingFrom(here.stored, n + 1)
  BY <1>1, <1>4 DEF NothingFrom, Number
<1>6. Statement(n, 0) \notin here.stored /\ In(n, here.stored) = {}
  BY <1>1, <1>5 DEF In, Number
<1>7. /\ Basic(o.w, n) /\ SameBut(o.w.stored, here.stored, n) /\ o.w.sub = here.sub
      /\ \/ /\ o.res = "ok" /\ Started(o.w, n)
            /\ IsTrans(o.w.trans) /\ o.w.trans.status = "active" /\ o.w.trans.kind = kind
            /\ o.w.trans.focus = FALSE /\ o.w.trans.pending = FALSE /\ o.w.trans.vars = {}
            /\ o.w.trans.acked = {} /\ (o.w.trans.logged = TRUE => Statement(n, 0) \in o.w.stored)
         \/ o.res # "ok" /\ o.w.session.tx = "idle"
  BY <1>1, <1>4, <1>6, ConstructIs
<1>8. In(n, o.w.stored) = {} /\ Elsewhere(o.w.stored, stored, n)
  BY <1>6, <1>7, SameButIs, HereIs
<1>9. NothingFrom(o.w.stored, n + 1)
  BY <1>1, <1>5, <1>8, NothingStays, HereIs
<1>10. CASE o.res = "ok"
  <2>1. Whole(o.w, n) /\ Calm(o.w, n)
    BY <1>1, <1>4, <1>7, <1>8, <1>9, <1>10, StartedIs
  <2> QED BY <1>1, <1>2, <1>3, <1>8, <1>10, <2>1, StepInside
<1>11. CASE o.res # "ok"
  <2> DEFINE w == [o.w EXCEPT !.trans = NoTrans]
  <2>1. Between(w, n + 1) /\ w.stored = o.w.stored
    <3>1. o.w.session.tx = "idle" /\ o.w.sub = NoSub /\ Basic(o.w, n)
      BY <1>4, <1>7, <1>11
    <3> QED BY <1>1, <1>9, <3>1, OutsideIs
  <2>2. Becomes(w) /\ ended' = Append(ended, r)
    BY <1>3, <1>11
  <2> HIDE DEF w
  <2>3. r \in Endings /\ r.status = "aborted"
    BY DEF Endings
  <2>4. Verdict(r.status, r.acked, r.logged, w.stored, n)
    BY <1>8, <2>1, <2>3 DEF Verdict
  <2>5. Elsewhere(w.stored, stored, n)
    BY <1>8, <2>1
  <2> HIDE DEF r
  <2> QED BY <1>1, <1>2, <2>1, <2>2, <2>3, <2>4, <2>5, StepOver
<1> QED BY <1>10, <1>11

LEMMA Destroys ==
    ASSUME TransactionInvariant, DestroyTransaction
    PROVE  TransactionInvariant'
<1> DEFINE n == number
<1>1. Number(n) /\ n = number
  BY NumberIs
<1>2. Whole(here, n) /\ unwinding' \in BOOLEAN /\ here.sub = NoSub
  BY HereIs DEF TransactionInvariant, DestroyTransaction
<1>3. PICK o \in End(here) :
          /\ Becomes([o.w EXCEPT !.trans = NoTrans])
          /\ ended' = Append(ended, [kind |-> trans.kind, status |-> o.w.trans.status, acked |-> trans.acked,
                                     logged |-> trans.logged])
  BY DEF DestroyTransaction
<1> DEFINE r == [kind |-> trans.kind, status |-> o.w.trans.status, acked |-> trans.acked, logged |-> trans.logged]
           w == [o.w EXCEPT !.trans = NoTrans]
<1>4. Becomes(w) /\ ended' = Append(ended, r)
  BY <1>3
<1>5. r.kind = trans.kind /\ r.status = o.w.trans.status /\ r.acked = trans.acked /\ r.logged = trans.logged
  OBVIOUS
<1> HIDE DEF n, w
<1>6. /\ Basic(here, n) /\ DOMAIN here.trans = TransFields /\ NothingFrom(here.stored, n + 1)
      /\ here.trans.kind \in Kinds /\ here.trans.acked \subseteq Nat /\ here.trans.logged \in BOOLEAN
      /\ here.trans.status \in {"active", "aborted", "committed", "in_doubt"}
  BY <1>2, ObjectsFields DEF Whole, Objects, IsTrans
<1>7. /\ Basic(o.w, n) /\ SameBut(o.w.stored, here.stored, n) /\ o.w.sub = here.sub
      /\ here.trans.status = "active" =>
            o.w.session.tx = "idle" /\ o.w.trans.status = "aborted"
      /\ here.trans.status # "active" =>
            Same(o.w, here) /\ o.w.trans.status = here.trans.status
  BY <1>1, <1>6, EndIs
<1>8. In(n, o.w.stored) = In(n, here.stored) /\ Elsewhere(o.w.stored, stored, n)
  BY <1>7, SameButIs, HereIs
<1>9. NothingFrom(o.w.stored, n + 1)
  BY <1>1, <1>6, <1>8, NothingStays, HereIs
<1>10. o.w.session.tx = "idle" /\ Verdict(o.w.trans.status, trans.acked, trans.logged, o.w.stored, n)
  <2>1. CASE here.trans.status = "active"
    <3>1. In(n, here.stored) = {}
      BY <1>2, <2>1 DEF Whole
    <3> QED BY <1>7, <1>8, <2>1, <3>1 DEF Verdict
  <2>2. CASE here.trans.status # "active"
    <3>1. Over(here, n)
      BY <1>2, <2>2 DEF Whole
    <3>2. o.w.session = here.session /\ o.w.stored = here.stored /\ o.w.trans.status = here.trans.status
      BY <1>7, <2>2 DEF Same
    <3> QED BY <3>1, <3>2, HereIs DEF Over
  <2> QED BY <2>1, <2>2
<1>11. r \in Endings
  BY <1>6, <1>7, HereIs DEF Endings
<1> HIDE DEF r
<1>12. Between(w, n + 1) /\ w.stored = o.w.stored
  BY <1>1, <1>2, <1>7, <1>9, <1>10, OutsideIs DEF w
<1>13. Elsewhere(w.stored, stored, n) /\ Verdict(r.status, r.acked, r.logged, w.stored, n)
  BY <1>5, <1>8, <1>10, <1>12
<1> QED BY <1>1, <1>2, <1>4, <1>11, <1>12, <1>13, StepOver

-----------------------------------------------------------------------------
(* Statements and streams *)

LEMMA NothingSurvives == ASSUME Mishaps = {}, NEW mishap, NEW results PROVE Survives(mishap, results) = {}
  BY DEF Survives

LEMMA CatchesDoing ==
    ASSUME NEW outs, NEW catches, Does(outs, catches), catches = {} PROVE Does(outs, {})
  BY DEF Does

LEMMA ActiveIs ==
    ASSUME TransactionInvariant, trans.status = "active", unwinding # TRUE
    PROVE  Whole(here, number) /\ Calm(here, number) /\ trans # NoTrans
<1>1. trans # NoTrans
  BY DEF NoTrans
<1> QED BY <1>1 DEF TransactionInvariant

LEMMA FreeIs ==
    ASSUME TransactionInvariant, Active
    PROVE  Whole(here, number) /\ Calm(here, number) /\ Free(here)
<1>1. trans.status = "active" /\ unwinding # TRUE /\ sub = NoSub /\ trans.focus # TRUE
  BY DEF Active
<1>2. Whole(here, number) /\ Calm(here, number)
  BY <1>1, ActiveIs
<1>3. trans.focus \in BOOLEAN
  BY <1>2, ObjectsFields, HereIs
<1> QED BY <1>1, <1>2, <1>3, HereIs DEF Free

\* The next statement has been counted.
LEMMA SendingWorld ==
    ASSUME TransactionInvariant, Whole(here, number), Calm(here, number), trans.status = "active",
           trans.focus = FALSE, Sends
    PROVE  /\ Whole(sending, number) /\ Calm(sending, number)
           /\ sending.trans.status = "active" /\ sending.trans.focus = FALSE
           /\ sending.sub = sub /\ sending.stored = stored
           /\ sending.trans.sent \in 1 .. MaxStatements
           /\ Latest(sending, number) = Add(next)
<1>1. Number(number) /\ Len(ended) \in Nat
  BY NumberIs
<1> DEFINE v == [here EXCEPT !.trans.sent = @ + 1]
<1>2. /\ Whole(v, number) /\ Calm(v, number) /\ Same(v, here) /\ v.sub = here.sub
      /\ v.trans.status = "active" /\ v.trans.focus = FALSE
      /\ v.trans.sent = here.trans.sent + 1
  BY <1>1, SendingIs, HereIs
<1>3. sending = v
  BY DEF sending
<1> HIDE DEF v
<1>4. trans.sent \in Nat
  BY ObjectsFields, HereIs DEF IsTrans
<1>5. trans.sent + 1 \in 1 .. MaxStatements
  BY <1>1, <1>4, BoundsAssumption DEF Sends
<1>6. sending.trans.sent = trans.sent + 1 /\ sending.stored = stored
  BY <1>2, <1>3, HereIs DEF Same
<1> QED BY <1>2, <1>3, <1>5, <1>6, HereIs DEF Latest, next

LEMMA SendingFree ==
    ASSUME TransactionInvariant, Active, Sends
    PROVE  /\ Whole(sending, number) /\ Calm(sending, number) /\ Free(sending)
           /\ sending.trans.sent \in 1 .. MaxStatements /\ Latest(sending, number) = Add(next)
           /\ sending.stored = stored /\ Number(number)
<1>1. Whole(here, number) /\ Calm(here, number) /\ Free(here)
  BY FreeIs
<1>2. trans.status = "active" /\ trans.focus = FALSE /\ sub = NoSub
  BY <1>1, HereIs DEF Free
<1> QED BY <1>1, <1>2, SendingWorld, NumberIs DEF Free

LEMMA Execs ==
    ASSUME TransactionInvariant, Exec PROVE TransactionInvariant'
<1>1. Active /\ Sends /\ ended' = ended /\ Does(Then(trans_exec(sending, Add(next)), Acknowledge), {})
  BY DEF Exec
<1>2. /\ Whole(sending, number) /\ Calm(sending, number) /\ Free(sending)
      /\ sending.trans.sent \in 1 .. MaxStatements /\ Latest(sending, number) = Add(next)
      /\ sending.stored = stored /\ Number(number)
  BY <1>1, SendingFree
<1>3. \A o \in Then(trans_exec(sending, Latest(sending, number)), Acknowledge) : Ends(o, sending, number)
  BY <1>2, ExecEnds
<1> QED BY <1>1, <1>2, <1>3, StepEnds

LEMMA ExecParamsIs ==
    ASSUME Mishaps = {}, TransactionInvariant, ExecParams \/ ExecPrepared PROVE TransactionInvariant'
<1>1. Survives("params", {"sql"}) = {}
  BY NothingSurvives
<1>2. Active /\ Sends /\ ended' = ended
  BY DEF ExecParams, ExecPrepared
<1>3. /\ Whole(sending, number) /\ Calm(sending, number) /\ Free(sending)
      /\ sending.trans.sent \in 1 .. MaxStatements /\ Latest(sending, number) = Add(next)
      /\ sending.stored = stored /\ Number(number)
  BY <1>2, SendingFree
<1>4. CASE ExecParams
  <2>1. Does(Then(exec_params(sending, Add(next)), Acknowledge), {})
    BY <1>1, <1>4, CatchesDoing DEF ExecParams
  <2>2. \A o \in Then(exec_params(sending, Latest(sending, number)), Acknowledge) : Ends(o, sending, number)
    BY <1>3, ParamsEnds
  <2> QED BY <1>2, <1>3, <2>1, <2>2, StepEnds
<1>5. CASE ExecPrepared
  <2>1. Does(Then(exec_prepared(sending, Add(next)), Acknowledge), {})
    BY <1>1, <1>5, CatchesDoing DEF ExecPrepared
  <2>2. \A o \in Then(exec_prepared(sending, Latest(sending, number)), Acknowledge) : Ends(o, sending, number)
    BY <1>3, ParamsEnds
  <2> QED BY <1>2, <1>3, <2>1, <2>2, StepEnds
<1> QED BY <1>4, <1>5

LEMMA SetsVariable ==
    ASSUME TransactionInvariant, SetVariable PROVE TransactionInvariant'
<1> DEFINE outs == Then(exec(here, Run("SET"), FALSE),
                        LAMBDA v : {Outcome([v EXCEPT !.trans.vars = {"SET"}], "ok")})
<1>1. Active /\ ended' = ended /\ Does(outs, {})
  BY DEF SetVariable
<1>2. Whole(here, number) /\ Calm(here, number) /\ Free(here) /\ Number(number)
  BY <1>1, FreeIs, NumberIs
<1>3. ASSUME NEW o \in outs PROVE Ends(o, here, number)
  BY <1>2, <1>3, SetEnds
<1> HIDE DEF outs
<1> QED BY <1>1, <1>3, StepEnds, HereIs

LEMMA OpensCopy ==
    ASSUME TransactionInvariant, OpenCopy PROVE TransactionInvariant'
<1> DEFINE outs == Then(trans_exec(sending, Run("query")),
                        LAMBDA v : {Outcome([v EXCEPT !.trans.focus = TRUE], "ok")})
<1>1. Active /\ Sends /\ ended' = ended /\ Does(outs, {})
  BY DEF OpenCopy
<1>2. /\ Whole(sending, number) /\ Calm(sending, number) /\ Free(sending)
      /\ sending.trans.sent \in 1 .. MaxStatements
      /\ sending.stored = stored /\ Number(number)
  BY <1>1, SendingFree
<1>3. ASSUME NEW o \in outs PROVE Ends(o, sending, number)
  BY <1>2, <1>3, OpenEnds
<1> HIDE DEF outs
<1> QED BY <1>1, <1>2, <1>3, StepEnds

\* A stream is open.
LEMMA StreamingIs ==
    ASSUME TransactionInvariant, trans # NoTrans, trans.focus
    PROVE  /\ Streaming(here, number) /\ Number(number) /\ closing = Unfocused(here)
           /\ Latest(here, number) = Add(Statement(number, trans.sent))
           /\ unwinding # TRUE => Calm(here, number)
<1>1. Whole(here, number) /\ (unwinding # TRUE => Calm(here, number))
  BY DEF TransactionInvariant
<1>2. trans.focus \in BOOLEAN
  BY <1>1, ObjectsFields, HereIs
<1>3. here.trans.focus = TRUE
  BY <1>2, HereIs
<1>4. Streaming(here, number)
  BY <1>1, <1>3, FocusedIs
<1>5. closing = Unfocused(here)
  BY DEF closing, Unfocused
<1>6. Latest(here, number) = Add(Statement(number, trans.sent))
  BY HereIs DEF Latest
<1> QED BY <1>1, <1>4, <1>5, <1>6, NumberIs

LEMMA WritesRow ==
    ASSUME TransactionInvariant, WriteRow PROVE TransactionInvariant'
<1> DEFINE outs == {Outcome(Cut(here, "bad"), "failure")}
<1>1. Does(outs, {}) /\ ended' = ended /\ Streaming(here, number) /\ Number(number)
  BY StreamingIs DEF WriteRow
<1>2. Whole(Cut(here, "bad"), number) /\ Elsewhere(Cut(here, "bad").stored, here.stored, number)
  BY <1>1, WriteRowIs
<1>3. \A o \in outs : Ends(o, here, number)
  BY <1>2, OutcomeIs DEF Ends
<1> HIDE DEF outs
<1> QED BY <1>1, <1>3, StepEnds, HereIs

LEMMA CompletesStream ==
    ASSUME Mishaps = {}, TransactionInvariant, CompleteStream PROVE TransactionInvariant'
<1> DEFINE outs == Then(end_copy_write(Unfocused(here), Latest(here, number)), Acknowledge)
<1>1. /\ Streaming(here, number) /\ Number(number) /\ Calm(here, number)
      /\ closing = Unfocused(here) /\ Latest(here, number) = Add(Statement(number, trans.sent))
  BY StreamingIs DEF CompleteStream
<1>2. Survives("params", {"sql"}) = {}
  BY NothingSurvives
<1>3. Does(outs, {}) /\ ended' = ended
  BY <1>1, <1>2, CatchesDoing DEF CompleteStream
<1>4. ASSUME NEW o \in outs PROVE Ends(o, here, number)
  BY <1>1, <1>4, CompleteEnds
<1> HIDE DEF outs
<1> QED BY <1>3, <1>4, StepEnds, HereIs

LEMMA DropsStream ==
    ASSUME TransactionInvariant, DropStream PROVE TransactionInvariant'
<1> DEFINE outs == Then(Catch(end_copy_write(Unfocused(here), Latest(here, number)), reg_pending_error), Acknowledge)
<1>1. /\ Streaming(here, number) /\ Number(number) /\ (unwinding # TRUE => Calm(here, number))
      /\ closing = Unfocused(here) /\ Latest(here, number) = Add(Statement(number, trans.sent))
  BY StreamingIs DEF DropStream
<1>2. Does(outs, {}) /\ ended' = ended
  BY <1>1 DEF DropStream
<1>3. ASSUME NEW o \in outs
      PROVE  /\ o.res = "ok" /\ Whole(o.w, number) /\ Elsewhere(o.w.stored, here.stored, number)
             /\ Calm(here, number) => Calm(o.w, number)
  BY <1>1, <1>3, DropEnds
<1> HIDE DEF outs
<1>4. PICK o \in outs : Becomes(o.w) /\ unwinding' = (unwinding \/ o.res \notin {"ok"} \cup {})
  BY <1>2 DEF Does
<1>5. unwinding' \in BOOLEAN
  BY <1>4, Zenon
<1>6. o.res = "ok"
  BY <1>3
<1>7. o.res \in {"ok"} \cup {}
  BY <1>6
<1>8. unwinding' # TRUE => unwinding # TRUE
  BY <1>4, <1>7, Zenon
<1> QED BY <1>1, <1>2, <1>3, <1>4, <1>5, <1>8, StepInside, HereIs

-----------------------------------------------------------------------------
(* Subtransactions, COMMIT and the connection *)

LEMMA OpensSub ==
    ASSUME TransactionInvariant, OpenSub PROVE TransactionInvariant'
<1> DEFINE w == [here EXCEPT !.sub = NewSub]
<1>1. Active /\ Becomes(w) /\ ended' = ended /\ unwinding' = unwinding
  BY DEF OpenSub, NewSub
<1>2. Whole(here, number) /\ Calm(here, number) /\ Free(here) /\ Number(number)
  BY <1>1, FreeIs, NumberIs
<1>3. Whole(w, number) /\ Calm(w, number) /\ Elsewhere(w.stored, here.stored, number)
  BY <1>2, OpenSubIs
<1> HIDE DEF w
<1>4. unwinding' \in BOOLEAN
  BY <1>1 DEF TransactionInvariant
<1> QED BY <1>1, <1>3, <1>4, StepInside, HereIs

LEMMA SubIs ==
    ASSUME TransactionInvariant, sub # NoSub
    PROVE  /\ HasSub(here, number) /\ Number(number) /\ Whole(here, number)
           /\ unwinding # TRUE => Calm(here, number)
<1>1. trans # NoTrans
  BY HereIs DEF TransactionInvariant, Between
<1>2. Whole(here, number) /\ (unwinding # TRUE => Calm(here, number))
  BY <1>1 DEF TransactionInvariant
<1> QED BY <1>2, HasSubIs, HereIs, NumberIs

LEMMA SubExecs ==
    ASSUME Mishaps = {}, TransactionInvariant, SubExec PROVE TransactionInvariant'
<1>1. Survives("settings", {TRUE}) = {} /\ Survives("sub", {"broken"}) = {}
  BY NothingSurvives
<1>2. Sends /\ ended' = ended /\ Does(SubSend, {"sql"})
  <2>1. PICK set \in {FALSE} \cup Survives("settings", {TRUE}) :
            /\ ~set => Sends
            /\ Does(IF set THEN SubSet ELSE SubSend,
                    IF set THEN {} ELSE {"sql"} \cup Survives("sub", {"broken"}))
    BY DEF SubExec
  <2>2. set = FALSE
    BY <1>1, <2>1
  <2>3. {"sql"} \cup Survives("sub", {"broken"}) = {"sql"}
    BY <1>1
  <2>4. Sends /\ Does(SubSend, {"sql"} \cup Survives("sub", {"broken"}))
    BY <2>1, <2>2
  <2> QED BY <2>3, <2>4 DEF SubExec
<1>3. sub # NoSub /\ sub.status \in {"nascent", "active"} /\ unwinding # TRUE
  BY DEF SubExec, InSub
<1>4. HasSub(here, number) /\ Number(number) /\ Whole(here, number) /\ Calm(here, number)
  BY <1>3, SubIs
<1>5. trans.status = "active" /\ trans.focus = FALSE
  BY <1>4, HereIs DEF HasSub
<1>6. /\ Whole(sending, number) /\ Calm(sending, number)
      /\ sending.sub = sub /\ sending.stored = stored
      /\ sending.trans.sent \in 1 .. MaxStatements
      /\ Latest(sending, number) = Add(next)
  BY <1>2, <1>4, <1>5, SendingWorld
<1>7. HasSub(sending, number)
  BY <1>3, <1>6, HasSubIs
<1>8. ASSUME NEW o \in SubSend PROVE SubEnds(o, sending, number)
  <2>1. PICK s \in sub_exec(sending, Latest(sending, number)) :
            \/ s.res # "ok" /\ o = s
            \/ s.res = "ok" /\ o = Outcome([s.w EXCEPT !.sub.acked = @ \cup {s.w.trans.sent}], "ok")
    BY <1>6, <1>8 DEF SubSend, Then, Threw, Succeeded
  <2> QED BY <1>3, <1>4, <1>6, <1>7, <2>1, SubSendEnds
<1>9. PICK o \in SubSend : Becomes(o.w) /\ unwinding' = (unwinding \/ o.res \notin {"ok"} \cup {"sql"})
  BY <1>2 DEF Does
<1>10. unwinding' \in BOOLEAN /\ (unwinding' # TRUE => o.res \in {"ok"} \cup {"sql"})
  BY <1>9, Zenon
<1>11. unwinding' # TRUE => o.res \in {"ok", "sql"}
  BY <1>10
<1>12. Whole(o.w, number) /\ Elsewhere(o.w.stored, stored, number) /\ (unwinding' # TRUE => Calm(o.w, number))
  BY <1>6, <1>8, <1>11 DEF SubEnds
<1> QED BY <1>2, <1>9, <1>10, <1>12, StepInside

LEMMA SubCommits ==
    ASSUME Mishaps = {}, TransactionInvariant, SubCommit PROVE TransactionInvariant'
<1>1. sub # NoSub /\ sub.status \in {"nascent", "active"} /\ unwinding # TRUE
  BY DEF SubCommit, InSub
<1>2. HasSub(here, number) /\ Number(number) /\ Calm(here, number)
  BY <1>1, SubIs
<1>3. Does(sub_commit(here), {}) /\ ended' = ended
  <2>1. Survives("sub", {"broken"}) = {}
    BY NothingSurvives
  <2> QED BY <2>1, CatchesDoing DEF SubCommit
<1>4. \A o \in sub_commit(here) : Ends(o, here, number)
  BY <1>1, <1>2, SubCommitEnds, HereIs
<1> QED BY <1>3, <1>4, StepEnds, HereIs

LEMMA DropsSub ==
    ASSUME TransactionInvariant, DropSub PROVE TransactionInvariant'
<1>1. /\ sub # NoSub /\ HasSub(here, number) /\ Number(number) /\ (unwinding # TRUE => Calm(here, number))
      /\ ended' = ended /\ unwinding' = unwinding /\ unwinding' \in BOOLEAN
  BY SubIs DEF DropSub, TransactionInvariant
<1>2. PICK o \in IF sub.status = "active" THEN sub_abort(here) ELSE {Outcome(here, "ok")} :
          Becomes([o.w EXCEPT !.sub = NoSub])
  BY DEF DropSub
<1>3. IF here.sub.status = "active" THEN o \in sub_abort(here) ELSE o = Outcome(here, "ok")
  BY <1>2, HereIs
<1> DEFINE w == [o.w EXCEPT !.sub = NoSub]
<1>4. /\ Whole(w, number) /\ Elsewhere(w.stored, here.stored, number)
      /\ Calm(here, number) => Calm(w, number)
  BY <1>1, <1>3, DropSubIs, ZenonT(60)
<1>5. Becomes(w)
  BY <1>2
<1> HIDE DEF w
<1> QED BY <1>1, <1>4, <1>5, StepInside, HereIs

LEMMA Commits ==
    ASSUME TransactionInvariant, Commit PROVE TransactionInvariant'
<1>1. /\ trans # NoTrans /\ sub = NoSub /\ unwinding # TRUE /\ Does(commit(here), {}) /\ ended' = ended
  BY DEF Commit
<1>2. Whole(here, number) /\ Calm(here, number) /\ here.sub = NoSub /\ Number(number)
  BY <1>1, HereIs, NumberIs DEF TransactionInvariant
<1>3. \A o \in commit(here) : Ends(o, here, number)
  BY <1>2, CommitIs
<1> QED BY <1>1, <1>3, StepEnds, HereIs

LEMMA Aborts ==
    ASSUME Mishaps = {}, TransactionInvariant, Abort PROVE TransactionInvariant'
<1>1. /\ trans # NoTrans /\ sub = NoSub /\ unwinding # TRUE /\ Does(abort(here), {}) /\ ended' = ended
      /\ trans.focus # TRUE /\ trans.pending # TRUE
  BY DEF Abort
<1>2. Whole(here, number) /\ here.sub = NoSub /\ Number(number)
  BY <1>1, HereIs, NumberIs DEF TransactionInvariant
<1>3. here.trans.focus = FALSE /\ here.trans.pending = FALSE
  <2>1. trans.focus \in BOOLEAN /\ trans.pending \in BOOLEAN
    BY <1>2, ObjectsFields, HereIs
  <2> QED BY <1>1, <2>1, HereIs
<1>4. \A o \in abort(here) : Ends(o, here, number)
  BY <1>2, <1>3, AbortEnds DEF Ends
<1> QED BY <1>1, <1>4, StepEnds, HereIs

LEMMA Outside ==
    ASSUME Mishaps = {}, TransactionInvariant, SetOutside \/ Listen \/ Unlisten \/ Deactivate
    PROVE  TransactionInvariant'
<1>1. trans = NoTrans
  BY DEF SetOutside, Listen, Unlisten, Deactivate
<1>2. Between(here, number) /\ here.stored = stored
  BY <1>1, HereIs DEF TransactionInvariant
<1>3. ASSUME NEW outs, NEW catches, Does(outs, catches), ended' = ended,
             \A o \in outs : Between(o.w, number) /\ o.w.stored = here.stored
      PROVE  TransactionInvariant'
  <2>1. PICK o \in outs : Becomes(o.w) /\ unwinding' = (unwinding \/ o.res \notin {"ok"} \cup catches)
    BY <1>3 DEF Does
  <2>2. unwinding' \in BOOLEAN
    BY <2>1, Zenon
  <2> QED BY <1>1, <1>2, <1>3, <2>1, <2>2, StepBetween
<1>4. CASE SetOutside
  <2>1. \A o \in set_variable(here) : Between(o.w, number) /\ o.w.stored = here.stored
    BY <1>2, SetVariableIs
  <2> QED BY <1>3, <1>4, <2>1 DEF SetOutside
<1>5. CASE Listen
  <2>1. \A o \in add_receiver(here) : Between(o.w, number) /\ o.w.stored = here.stored
    BY <1>2, AddReceiverIs
  <2> QED BY <1>3, <1>5, <2>1 DEF Listen
<1>6. CASE Unlisten
  <2>1. \A o \in remove_receiver(here) : Between(o.w, number) /\ o.w.stored = here.stored
    BY <1>2, RemoveReceiverIs
  <2> QED BY <1>3, <1>6, <2>1 DEF Unlisten
<1>7. CASE Deactivate
  <2>1. Between(deactivate(here), number) /\ deactivate(here).stored = stored
    BY <1>2, DeactivateIs
  <2>2. Becomes(deactivate(here)) /\ ended' = ended /\ unwinding' \in BOOLEAN
    BY <1>7 DEF Deactivate, TransactionInvariant
  <2> QED BY <1>1, <2>1, <2>2, StepBetween
<1> QED BY <1>4, <1>5, <1>6, <1>7

LEMMA Inhibits ==
    ASSUME TransactionInvariant, Inhibit PROVE TransactionInvariant'
<1> DEFINE w == [here EXCEPT !.inhibited = ~@]
<1>1. Becomes(w) /\ ended' = ended /\ unwinding' = unwinding /\ unwinding' \in BOOLEAN
  BY DEF Inhibit, TransactionInvariant
<1>2. IsWorld(here) => Twin(w, here)
  BY DEF Twin, IsWorld, Fields
<1> HIDE DEF w
<1>3. CASE trans = NoTrans
  <2>1. Between(here, number) /\ IsWorld(here)
    BY <1>3 DEF TransactionInvariant, Between, Basic, Linked
  <2>2. Between(w, number) /\ w.stored = stored
    BY <1>2, <2>1, TwinIs, HereIs DEF Twin
  <2> QED BY <1>1, <1>3, <2>2, StepBetween
<1>4. CASE trans # NoTrans
  <2>1. Whole(here, number) /\ (unwinding # TRUE => Calm(here, number)) /\ IsWorld(here)
    BY <1>4, ObjectsFields DEF TransactionInvariant
  <2>2. Whole(w, number) /\ (Calm(here, number) => Calm(w, number)) /\ w.stored = stored
    BY <1>2, <2>1, TwinIs, HereIs DEF Twin
  <2> QED BY <1>1, <2>1, <2>2, StepInside, ElsewhereItself
<1> QED BY <1>3, <1>4

-----------------------------------------------------------------------------
(* Theorems *)

LEMMA TransactionInitial == ASSUME Mishaps = {}, TransactionInit PROVE TransactionInvariant
<1>1. /\ conn = "ok" /\ settings = {} /\ session = Fresh /\ stored = {LogTable}
      /\ trans = NoTrans /\ sub = NoSub /\ ended = <<>> /\ unwinding = FALSE
  BY DEF TransactionInit
<1>2. ended \in Seq(Endings) /\ Len(ended) = 0 /\ number = 1
  BY <1>1 DEF number
<1>3. IsWorld(here)
  BY <1>1 DEF here, IsWorld, Fields, Fresh
<1>4. Basic(here, number)
  <2>1. here.session.tx = "idle" /\ here.session.set = {}
    BY <1>1, HereIs, FreshIs
  <2>2. Linked(here)
    BY <1>1, <1>3, <2>1, HereIs DEF Linked
  <2>3. Tidy(here.session, number)
    BY <1>1, HereIs, FreshIsTidy
  <2> QED BY <1>1, <2>1, <2>2, <2>3, HereIs DEF Basic
<1>5. NothingFrom(here.stored, number)
  <2>1. ASSUME NEW m \in Nat, m >= number, NEW k PROVE Statement(m, k) # LogTable
    BY <1>2, <2>1, StatementIs
  <2> QED BY <1>1, <2>1, HereIs DEF NothingFrom
<1>6. here.session.tx = "idle"
  BY <1>1, HereIs, FreshIs
<1>7. Past(ended, stored)
  BY <1>2 DEF Past
<1>8. Between(here, number)
  BY <1>1, <1>4, <1>5, <1>6, HereIs DEF Between
<1> QED BY <1>1, <1>2, <1>7, <1>8 DEF TransactionInvariant

LEMMA TransactionStep ==
    ASSUME Mishaps = {}, TransactionInvariant, [TransactionNext]_transactionVars
    PROVE  TransactionInvariant'
<1>1. CASE UNCHANGED transactionVars
  <2>1. here' = here /\ number' = number
    BY <1>1 DEF transactionVars, here, number
  <2> QED BY <1>1, <2>1 DEF TransactionInvariant, transactionVars
<1>2. CASE \E kind \in Kinds : Construct(kind)
  BY <1>2, Constructs
<1>3. CASE Exec \/ ExecParams \/ ExecPrepared \/ SetVariable
  BY <1>3, Execs, ExecParamsIs, SetsVariable
<1>4. CASE OpenCopy \/ WriteRow \/ CompleteStream \/ DropStream
  BY <1>4, OpensCopy, WritesRow, CompletesStream, DropsStream
<1>5. CASE OpenSub \/ SubExec \/ SubCommit \/ DropSub
  BY <1>5, OpensSub, SubExecs, SubCommits, DropsSub
<1>6. CASE Commit \/ Abort \/ DestroyTransaction
  BY <1>6, Commits, Aborts, Destroys
<1>7. CASE SetOutside \/ Listen \/ Unlisten \/ Deactivate \/ Inhibit
  BY <1>7, Outside, Inhibits
<1> QED BY <1>1, <1>2, <1>3, <1>4, <1>5, <1>6, <1>7 DEF TransactionNext

\* With a client that does what Mishaps = {} stands for, the session, the
\* database and the objects of the client fit together: what a transaction that
\* may still commit has done is what its client takes for done, in its own
\* session and nowhere else, and of one that has ended just what its status says
\* is stored.
THEOREM TransactionInductive ==
    ASSUME Mishaps = {}
    PROVE  TransactionSpec => []TransactionInvariant
<1>1. TransactionInit => TransactionInvariant
  BY TransactionInitial
<1>2. TransactionInvariant /\ [TransactionNext]_transactionVars => TransactionInvariant'
  BY TransactionStep
<1> QED BY <1>1, <1>2, PTL DEF TransactionSpec

LEMMA StoredIs == \A n : StoredOf(n) = In(n, stored)
  BY DEF StoredOf, In

LEMMA EndedIs ==
    ASSUME TransactionInvariant, NEW n, Ended(n)
    PROVE  /\ Verdict(ended[n].status, ended[n].acked, ended[n].logged, stored, n)
           /\ ended[n].logged \in BOOLEAN
<1>1. ended \in Seq(Endings) /\ n \in 1 .. Len(ended)
  BY DEF TransactionInvariant, Ended
<1>2. ended[n] \in Endings
  BY <1>1
<1> QED BY <1>1, <1>2 DEF TransactionInvariant, Past, Endings

\* commit() returns only when exactly the statements whose results the client
\* has had are stored, those of subtransactions rolled back left out.
THEOREM CommitsAreExact ==
    ASSUME Mishaps = {}
    PROVE  TransactionSpec => []CommittedIsExact
<1>1. TransactionInvariant => CommittedIsExact
  BY EndedIs, StoredIs DEF CommittedIsExact, Verdict
<1> QED BY <1>1, TransactionInductive, PTL

\* After any exception but in_doubt_error nothing is stored, so perform() may
\* call its function again.
THEOREM AbortsLeaveNothing ==
    ASSUME Mishaps = {}
    PROVE  TransactionSpec => []AbortedIsGone
<1>1. TransactionInvariant => AbortedIsGone
  BY EndedIs, StoredIs DEF AbortedIsGone, Verdict
<1> QED BY <1>1, TransactionInductive, PTL

\* in_doubt_error means that all of the transaction is stored, or nothing.
THEOREM DoubtsAreWhole ==
    ASSUME Mishaps = {}
    PROVE  TransactionSpec => []DoubtIsAllOrNothing
<1>1. TransactionInvariant => DoubtIsAllOrNothing
  BY EndedIs, StoredIs DEF DoubtIsAllOrNothing, Verdict
<1> QED BY <1>1, TransactionInductive, PTL

\* No transaction begins in one that an earlier object has left open.
THEOREM SessionsAreLeftIdle ==
    ASSUME Mishaps = {}
    PROVE  TransactionSpec => []NothingLeftOpen
<1>1. TransactionInvariant => NothingLeftOpen
  BY HereIs DEF TransactionInvariant, Between, NothingLeftOpen
<1> QED BY <1>1, TransactionInductive, PTL

\* m_vars, m_receivers and m_prepared tell what the session has, across
\* rollbacks and reconnections, but for what set_up_state has lost when it began.
THEOREM SettingsAreKnown ==
    ASSUME Mishaps = {}
    PROVE  TransactionSpec => []SettingsAgree
<1>1. TransactionInvariant => SettingsAgree
  BY HereIs DEF TransactionInvariant, Between, Basic, SettingsAgree
<1> QED BY <1>1, TransactionInductive, PTL

\* A record that robusttransaction finds in its log proves that the transaction
\* has not been executed, and one missing after in_doubt_error that it has, if
\* there was one when it began.
THEOREM LogIsTrue ==
    ASSUME Mishaps = {}
    PROVE  TransactionSpec => []LogTellsTheTruth
<1>1. ASSUME TransactionInvariant, NEW n \in Numbers, ~Ended(n), Statement(n, 0) \in stored
      PROVE  StoredOf(n) = {}
  <2>1. Number(number) /\ Len(ended) \in Nat /\ number = Len(ended) + 1
    BY <1>1, NumberIs
  <2>2. n \in Nat /\ n >= number
    BY <1>1, <2>1, BoundsAssumption DEF Numbers, Ended
  <2>3. trans # NoTrans
    BY <1>1, <2>1, <2>2, HereIs DEF TransactionInvariant, Between, NothingFrom
  <2>4. Whole(here, number)
    BY <1>1, <2>3 DEF TransactionInvariant
  <2>5. n = number
    <3>1. CASE n >= number + 1
      BY <1>1, <2>2, <2>4, <3>1, HereIs DEF Whole, NothingFrom
    <3> QED BY <2>1, <2>2, <3>1
  <2>6. In(number, stored) = {}
    <3>1. Statement(number, 0) \in here.stored
      BY <1>1, <2>5, HereIs
    <3>2. CASE here.trans.status = "active"
      BY <2>4, <3>2, HereIs DEF Whole
    <3>3. CASE here.trans.status # "active"
      BY <2>4, <3>1, <3>3, HereIs DEF Whole, Over, Verdict
    <3> QED BY <3>2, <3>3
  <2> QED BY <2>5, <2>6, StoredIs
<1>2. ASSUME TransactionInvariant, NEW n \in Numbers, Ended(n)
      PROVE  /\ Statement(n, 0) \in stored => StoredOf(n) = {}
             /\ ended[n].status = "in_doubt" /\ ended[n].logged /\ Statement(n, 0) \notin stored
                   => StoredOf(n) = ended[n].acked
  BY <1>2, EndedIs, StoredIs DEF Verdict
<1>3. TransactionInvariant => LogTellsTheTruth
  BY <1>1, <1>2 DEF LogTellsTheTruth
<1> QED BY <1>3, TransactionInductive, PTL
=============================================================================
