------------------------------ MODULE Notices ------------------------------
(***************************************************************************)
(* The receivers of notifications of a connection, m_receivers, a multimap *)
(* by channel, and get_notifs, which calls them.  A receiver may be        *)
(* created or destroyed, a transaction opened or closed, the link lost and *)
(* made again, and get_notifs called once more while get_notifs is in the  *)
(* middle of its loop: each of these is an action that can happen while    *)
(* frames, the calls of get_notifs in progress, is not empty.              *)
(*                                                                         *)
(* The client's part: a receiver that is called does not destroy itself,   *)
(* nor the one where the loop ends, nor does it close the connection.      *)
(* The transactions here are nontransactions, inside which notifications   *)
(* arrive; those of a work wait for its end.                               *)
(* GetNotifs, AddReceiver and so on are get_notifs and add_receiver of     *)
(* connection_base, whose other side, the session, is in Connection.       *)
(***************************************************************************)
EXTENDS Client, Sequences, SequencesExt, FiniteSetsExt

VARIABLES m_conn,      \* "none" (null), "ok" or "bad" (PQstatus)
          listening,   \* at the server, the channels its session listens on
          unheard,     \* as history: those that its start has failed to listen on
          arrived,     \* libpq's queue of notifications: their channels
          m_receivers, \* the receivers in the multimap, in its order
          m_trans,     \* whether a transaction is registered
          frames       \* calls of get_notifs in progress, innermost first

link == <<m_conn, listening, unheard, arrived>>
noticeVars == <<link, m_receivers, m_trans, frames>>

Receivers == Channels \X PerChannel
channel(r) == r[1]
PastAll == <<-1, 0>>     \* m_receivers.end()

IsOpen == m_conn = "ok"

-----------------------------------------------------------------------------
(* The multimap *)

Here == Range(m_receivers)
PlaceOf(r) == CHOOSE k \in DOMAIN m_receivers : m_receivers[k] = r
Entry(rs, k) == IF k \in DOMAIN rs THEN rs[k] ELSE PastAll
NextOf(r) == Entry(m_receivers, PlaceOf(r) + 1)

lower_bound(rs, ch) == CHOOSE k \in 1 .. Len(rs) + 1 : \A j \in DOMAIN rs : j < k <=> channel(rs[j]) < ch
upper_bound(rs, ch) == CHOOSE k \in 1 .. Len(rs) + 1 : \A j \in DOMAIN rs : j < k <=> channel(rs[j]) <= ch
equal_range(rs, ch) == {k \in DOMAIN rs : channel(rs[k]) = ch}

\* A new key goes to its place; beside others, to the place before the hint,
\* which find has set to the first of them.
inserted(r) == InsertAt(m_receivers, lower_bound(m_receivers, channel(r)), r)
erased(r) == RemoveAt(m_receivers, PlaceOf(r))

-----------------------------------------------------------------------------
(* The connection *)

channels == {channel(r) : r \in Here}

\* LISTEN on all channels, in one batch whose results are thrown away: all of it
\* is executed, or nothing, or the link breaks.
SetUpState ==
    /\ arrived' = <<>>
    /\ \/ m_conn' = "ok" /\ listening' = channels /\ unheard' = {}
       \/ channels # {} /\ m_conn' = "ok" /\ listening' = {} /\ unheard' = channels
       \/ channels # {} /\ m_conn' = "bad" /\ listening' = {} /\ unheard' = {}

disconnect == m_conn' = "none" /\ arrived' = <<>> /\ listening' = {} /\ unheard' = {}

\* A handle that went bad is given up first; connecting can fail.
Activate ==
    /\ ~IsOpen
    /\ \/ m_conn = "none" /\ SetUpState /\ IsOpen'
       \/ disconnect
    /\ UNCHANGED <<m_receivers, m_trans, frames>>

\* PQreset, when a statement has met a broken link.
Reset ==
    /\ m_conn = "bad"
    /\ SetUpState \/ disconnect
    /\ UNCHANGED <<m_receivers, m_trans, frames>>

DeactivateConnection ==
    /\ m_conn # "none" /\ ~m_trans
    /\ disconnect
    /\ UNCHANGED <<m_receivers, m_trans, frames>>

\* The receivers live on, without a connection.
CloseConnection ==
    /\ frames = <<>>
    /\ disconnect
    /\ m_receivers' = <<>>
    /\ UNCHANGED <<m_trans, frames>>

\* The link breaks, and the server ends the session.
Broken == m_conn' = "bad" /\ listening' = {} /\ unheard' = {} /\ UNCHANGED arrived
Break == IsOpen /\ Broken /\ UNCHANGED <<m_receivers, m_trans, frames>>

\* The server tells a session that listens.
Notified ==
    /\ IsOpen /\ Len(arrived) < MaxArrived
    /\ \E ch \in listening : arrived' = Append(arrived, ch)
    /\ UNCHANGED <<m_conn, listening, unheard, m_receivers, m_trans, frames>>

\* register_transaction, then Begin, whose get_notifs finds it registered.
OpenTransaction == IsOpen /\ ~m_trans /\ m_trans' = TRUE /\ UNCHANGED <<link, m_receivers, frames>>
CloseTransaction == m_trans /\ m_trans' = FALSE /\ UNCHANGED <<link, m_receivers, frames>>

-----------------------------------------------------------------------------
(* Receivers *)

(***************************************************************************)
(* A call of get_notifs at one of its receivers: at, the one being called; *)
(* stop, the end of the range, found when the notification was taken; due, *)
(* the receivers of its channel then; told, those called so far.           *)
(***************************************************************************)
\* What the fields say is of the receivers that live.
Without(r) == [k \in DOMAIN frames |-> [frames[k] EXCEPT !.due = @ \ {r}, !.told = @ \ {r}]]

Frame(rs, ch) ==
    LET first == lower_bound(rs, ch)
    IN  [at |-> rs[first], stop |-> Entry(rs, upper_bound(rs, ch)), due |-> {rs[k] : k \in equal_range(rs, ch)},
         told |-> {rs[first]}]

\* On to the next notification that somebody waits for, if there is one.
Fetch(rs, below) ==
    LET hits == {k \in DOMAIN arrived : equal_range(rs, arrived[k]) # {}}
    IN  IF hits = {} THEN arrived' = <<>> /\ frames' = below
        ELSE /\ arrived' = SubSeq(arrived, Min(hits) + 1, Len(arrived))
             /\ frames' = <<Frame(rs, arrived[Min(hits)])>> \o below

GetNotifs ==
    /\ IsOpen /\ ~m_trans /\ Len(frames) < MaxDepth
    /\ Fetch(m_receivers, frames)
    /\ UNCHANGED <<m_conn, listening, unheard, m_receivers, m_trans>>

\* The receiver returns, or throws, which get_notifs survives; i goes on.
Called ==
    /\ frames # <<>>
    /\ LET f    == Head(frames)
           next == NextOf(f.at)
       IN  IF next = f.stop THEN Fetch(m_receivers, Tail(frames))
           ELSE /\ frames' = <<[f EXCEPT !.at = next, !.told = @ \cup {next}]>> \o Tail(frames)
                /\ UNCHANGED arrived
    /\ UNCHANGED <<m_conn, listening, unheard, m_receivers, m_trans>>

\* LISTEN for the first on a channel: it can fail, which the caller is told, or
\* lose the link, which it is not.
AddReceiver(r) ==
    /\ r \notin Here
    /\ LET new == equal_range(m_receivers, channel(r)) = {}
       IN  \/ /\ m_receivers' = inserted(r)
              /\ IF new /\ IsOpen
                 THEN listening' = listening \cup {channel(r)} /\ unheard' = unheard \ {channel(r)}
                 ELSE UNCHANGED <<listening, unheard>>
              /\ UNCHANGED <<m_conn, arrived>>
           \/ new /\ IsOpen /\ Broken /\ m_receivers' = inserted(r)
           \/ new /\ IsOpen /\ UNCHANGED <<link, m_receivers>>
    /\ UNCHANGED <<m_trans, frames>>

\* Mutant: what is to be destroyed is erased afterwards.
RemoveReceiverLater(r) ==
    /\ r \in Here /\ \A k \in DOMAIN frames : r \notin {frames[k].at, frames[k].stop}
    /\ Len(frames) < MaxDepth
    /\ m_receivers' = erased(r)
    /\ IF IsOpen /\ equal_range(m_receivers, channel(r)) = {PlaceOf(r)} /\ ~m_trans
       THEN listening' = listening \ {channel(r)} /\ Fetch(m_receivers, Without(r)) /\ UNCHANGED <<m_conn, unheard>>
       ELSE UNCHANGED link /\ frames' = Without(r)
    /\ UNCHANGED m_trans

\* UNLISTEN for the last on a channel, by exec, which ends with get_notifs.
RemoveReceiver(r) ==
    /\ r \in Here /\ \A k \in DOMAIN frames : r \notin {frames[k].at, frames[k].stop}
    /\ Len(frames) < MaxDepth
    /\ m_receivers' = erased(r)
    /\ IF m_conn # "none" /\ equal_range(m_receivers, channel(r)) = {PlaceOf(r)}
       THEN \/ /\ IsOpen /\ listening' = listening \ {channel(r)} /\ UNCHANGED <<m_conn, unheard>>
               /\ IF m_trans THEN UNCHANGED arrived /\ frames' = Without(r) ELSE Fetch(m_receivers', Without(r))
            \/ IsOpen /\ UNCHANGED link /\ frames' = Without(r)
            \/ IsOpen /\ Broken /\ frames' = Without(r)
            \/ ~IsOpen /\ disconnect /\ frames' = Without(r)
       ELSE UNCHANGED link /\ frames' = Without(r)
    /\ UNCHANGED m_trans

-----------------------------------------------------------------------------
NoticeInit ==
    /\ m_conn = "ok" /\ listening = {} /\ unheard = {} /\ arrived = <<>>
    /\ m_receivers = <<>> /\ m_trans = FALSE /\ frames = <<>>

NoticeNext ==
    \/ Activate \/ Reset \/ DeactivateConnection \/ CloseConnection \/ Break
    \/ Notified \/ OpenTransaction \/ CloseTransaction
    \/ GetNotifs \/ Called
    \/ \E r \in Receivers : AddReceiver(r) \/ RemoveReceiver(r)

NoticeSpec == NoticeInit /\ [][NoticeNext]_noticeVars
-----------------------------------------------------------------------------
\* The iterators of get_notifs survive what the receivers do, other calls of
\* get_notifs included: it never calls, or stops at, what has been erased.
NeverDangling ==
    \A k \in DOMAIN frames : frames[k].at \in Here /\ frames[k].stop \in Here \cup {PastAll}

\* A receiver that was there when the notification was taken and still is, has
\* been called if the loop is past it, and will be if it is not: none is left
\* out and none is called twice, whoever comes and goes meanwhile.
NobodyIsLeftOut ==
    \A k \in DOMAIN frames : \A r \in frames[k].due \cap Here :
        /\ r \in frames[k].told <=> PlaceOf(r) <= PlaceOf(frames[k].at)
        /\ frames[k].stop # PastAll => PlaceOf(r) < PlaceOf(frames[k].stop)

\* An open connection listens for all its receivers, on whatever session, but for
\* those that set_up_state has lost without noticing.
ChannelsAreHeard == IsOpen => channels \subseteq listening \cup unheard

\* Whoever waits for a notification is told of it: the server sends it, and
\* get_notifs calls all those, and only those, that live.
EveryoneIsTold == NeverDangling /\ NobodyIsLeftOut /\ ChannelsAreHeard
=============================================================================
