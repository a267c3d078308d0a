-------------------------------- MODULE Client --------------------------------
(***************************************************************************)
(* What a program brings to libpqxx beside its statements: the names of    *)
(* columns and channels, the receivers it makes, how often it tries again; *)
(* and the bounds of Notices, Results and Retries.                         *)
(***************************************************************************)
EXTENDS Integers

CONSTANTS Channels,    \* names of channels, in their order: numbers
          PerChannel,  \* the receivers there can be on each of them
          MaxArrived,  \* bound: notifications waiting in libpq
          MaxDepth,    \* bound: get_notifs within its own callbacks
          Names,       \* of columns
          MaxColumns,  \* bound: columns of a PGresult
          MaxRows,     \* bound: rows of a PGresult
          Other,       \* bound: columns and rows of the second PGresult
          Wrap,        \* row_size_type goes from 0 to Wrap - 1
          Encodings,   \* of connections
          MONOBYTE,    \* the encoding of an empty result
          MaxAttempts  \* bound: attempts asked for

ASSUME ChannelsAssumption == Channels \subseteq Nat /\ PerChannel \subseteq Nat

ASSUME ResultsAssumption ==
    MaxColumns \in Nat /\ MaxRows \in Nat /\ Other \in 0 .. MaxColumns /\ Wrap \in Nat /\ Wrap > 2 * MaxColumns + 2

ASSUME AttemptsAssumption == MaxAttempts \in Nat
=============================================================================
