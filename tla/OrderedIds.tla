----------------------------- MODULE OrderedIds -----------------------------
(***************************************************************************)
(* What a source of identifiers promises its caller, with no clock, counter*)
(* or context in sight: a request is pending or not, and the last          *)
(* identifier handed out.                                                  *)
(*                                                                         *)
(* StrictSpec is the promise docs/API.md makes: each identifier is above   *)
(* the one before it.  EpochSpec is weaker: the source may start over, but *)
(* only at an identifier that carries an earlier time, so within one time  *)
(* the order holds and every break of it shows in the timestamps.          *)
(***************************************************************************)
CONSTANTS
  Id,            \* the identifiers
  NoId,          \* nothing handed out yet
  Before(_, _),  \* the order a caller sorts identifiers by
  Earlier(_, _)  \* the first identifier carries an earlier time

VARIABLES
  pending,       \* a caller waits for an identifier
  last           \* the last identifier handed out

Init == pending = FALSE /\ last = NoId

Request ==
  /\ ~pending
  /\ pending' = TRUE
  /\ UNCHANGED last

\* Answer with an identifier above the last one; the first may be any.
Issue ==
  /\ pending
  /\ pending' = FALSE
  /\ last' \in Id
  /\ last # NoId => Before(last, last')

\* Answer with one that starts over at an earlier time.
StartOver ==
  /\ pending
  /\ pending' = FALSE
  /\ last' \in Id
  /\ last # NoId
  /\ Earlier(last', last)

StrictSpec == Init /\ [][Request \/ Issue]_<<pending, last>>

EpochSpec == Init /\ [][Request \/ Issue \/ StartOver]_<<pending, last>>

=============================================================================
