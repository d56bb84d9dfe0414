--------------------------- MODULE Uuid7Ordering ---------------------------
(***************************************************************************)
(* What the generator is for: the order of the identifiers it hands out,   *)
(* how their timestamps follow the clock, and that a call ends.            *)
(***************************************************************************)
EXTENDS Uuid7Generator

\* The timestamp of u is earlier than that of v.
EarlierTime(u, v) == u.unix_ts_ms < v.unix_ts_ms

\* The generator seen as a source of ordered identifiers.
Ids == INSTANCE OrderedIds
  WITH Id <- Identifier, NoId <- NoId,
       Before <- Precedes, Earlier <- EarlierTime,
       pending <- (pc # "idle"), last <- out

Returns == pc # "idle" /\ pc' = "idle"

-----------------------------------------------------------------------------

\* The context never runs ahead of the clock: its timestamp is one the clock
\* has reached.  Exhausting the counter waits for time instead of borrowing it
\* (the loop at src/uuid7.c:84).
NeverAheadOfClock == ctx.last_timestamp_ms <= peak

\* The context remembers the identifier it wrote last, so that counting on
\* from it lands above: outside the loop the two agree field by field; inside
\* it the counter is spent and only the timestamp is still the one written.
ContextRemembersOut ==
  IF pc = "spin"
  THEN /\ IsExhausted(ctx)
       /\ out # NoId => out.unix_ts_ms = ctx.last_timestamp_ms
  ELSE /\ ctx.counter_high < HighLimit
       /\ out # NoId => out = Serialised(ctx)

\* On a clock that is never corrected backward and always read the same way,
\* each identifier is above the one before it: docs/API.md:42 holds.
StrictlyIncreasing == Ids!StrictSpec

\* On any clock, an identifier that is not above the one before it carries an
\* earlier timestamp: no two calls in a row return the same identifier or
\* break the order within a millisecond, counter wrap and re-draws included.
OrderBreaksOnlyBackInTime == Ids!EpochSpec

\* A call that did not exhaust the counter writes a timestamp that is not
\* before its reading of the clock and at most the threshold after it; a call
\* that did writes the reading that ended its loop.  However many corrections
\* add up, the identifiers do not drift away from the clock.
TimestampFollowsReading ==
  [][Returns =>
       IF pc = "called"
       THEN now <= out'.unix_ts_ms /\ out'.unix_ts_ms <= now + Threshold
       ELSE out'.unix_ts_ms \in os_time_ms(wall)]_vars

\* While readings stay within the threshold of the highest one - corrections
\* and the fallback to whole seconds taken together - the context's timestamp
\* goes back only where the counter ran out.
RegressOnlyAtExhaustion ==
  [][ctx'.last_timestamp_ms < ctx.last_timestamp_ms => pc = "spin"]_vars

\* No identifier carries an earlier timestamp than the one before it.
\* tests/test_clock_backward.c:36 says so of every regression within the
\* threshold.
TimestampNeverRegresses ==
  [][Returns /\ out # NoId => out'.unix_ts_ms >= out.unix_ts_ms]_vars

\* A call ends.  One that exhausted the counter in the last second of the
\* bounded clock has no later reading to wait for and is left out.
CallReturns ==
  pc # "idle" /\ ctx.last_timestamp_ms < FloorToSecond(MaxTime) ~> pc = "idle"

=============================================================================
