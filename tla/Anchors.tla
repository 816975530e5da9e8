------------------------------- MODULE Anchors -------------------------------
(***************************************************************************)
(* The moments of an incident as a document states them: what TimeAnchor   *)
(* accepts (app/extract/schema.py) and the durations derived from a pair   *)
(* of anchors (app/extract/derive.py).                                     *)
(*                                                                         *)
(* The string of an anchor is its shape and the wall time it names, and an *)
(* offset where one stands in it.  Beside the string an anchor has the     *)
(* timezone that the author wrote, here the offset which that stands for.  *)
(* Times are integers.                                                     *)
(***************************************************************************)
EXTENDS Integers, FiniteSets

CONSTANTS
  Times,     \* wall times a string may name
  Offsets,   \* zone offsets
  Unstated   \* no timezone was written

ASSUME AnchorsAssumption ==
  Times \subseteq Int /\ Offsets \subseteq Int /\ Unstated \notin Int

\* "2025", "2025-10" and "2025-10-20", also when there is no such year, month or day
\* ("0000", "2025-13", "2025-02-30"); "20251020" and "2025-W43-1", which
\* date.fromisoformat reads too; datetimes without and with an offset; anything else.
Shapes == {"year", "month", "day", "no year", "no month", "no day", "compact",
           "naive", "aware", "junk"}

Strings ==
  [shape : Shapes \ {"aware"}, wall : Times, offset : {0}]
    \cup [shape : {"aware"}, wall : Times, offset : Offsets]

Precisions == {"exact", "minute", "hour", "day", "month", "year", "approximate"}

\* What parsing gives: a value of one of two types, None, or ValueError, which date()
\* raises for a year or month out of range and nothing in parse_anchor catches.
parse_anchor(s) ==
  CASE s.shape \in {"year", "month", "day", "compact"} -> "date"
    [] s.shape \in {"naive", "aware"} -> "datetime"
    [] s.shape \in {"no day", "junk"} -> "None"
    [] s.shape \in {"no year", "no month"} -> "ValueError"

\* The form is read off the digits before anything is parsed.
anchor_form(s) ==
  CASE s.shape \in {"year", "no year"} -> "year"
    [] s.shape \in {"month", "no month"} -> "month"
    [] s.shape \in {"day", "no day"} -> "day"
    [] s.shape \in {"compact", "naive", "aware"} -> "datetime"
    [] s.shape = "junk" -> "None"

\* A validator turns ValueError into a refusal, as it does None.
Parses(s) == parse_anchor(s) \in {"date", "datetime"}

PrecisionMatches(s, precision) ==
  \/ precision = "approximate"
  \/ precision \in {"exact", "minute", "hour"} /\ anchor_form(s) = "datetime"
  \/ precision \in {"year", "month", "day"} /\ anchor_form(s) = precision

\* The anchors a record can hold. Nothing compares the timezone with the string.
Anchors == {a \in [at : Strings, precision : Precisions, zone : Offsets \cup {Unstated}] :
              Parses(a.at) /\ PrecisionMatches(a.at, a.precision)}

\* An action's date takes whatever parses.
ActionDates == {s \in Strings : Parses(s)}

-------------------------------------------------------------------------------
(* Durations *)

None == [given |-> FALSE]

Rank == [exact |-> 1, minute |-> 2, hour |-> 3, approximate |-> 4]

Coarser(p, q) == IF Rank[q] > Rank[p] THEN q ELSE p

\* Mutant of Comparable: no decision about zones is refused.
ComparableAnyway(start, end) ==
  /\ {start.precision, end.precision} \cap {"day", "month", "year"} = {}
  /\ parse_anchor(start.at) = "datetime" /\ parse_anchor(end.at) = "datetime"

Comparable(start, end) ==
  /\ {start.precision, end.precision} \cap {"day", "month", "year"} = {}
  /\ parse_anchor(start.at) = "datetime" /\ parse_anchor(end.at) = "datetime"
  /\ start.at.shape = end.at.shape

\* Aware datetimes are subtracted as instants, naive ones as they stand.
Seconds_between(start, end) ==
  IF Comparable(start, end)
    THEN [given |-> TRUE,
          seconds |-> (end.at.wall - end.at.offset) - (start.at.wall - start.at.offset),
          precision |-> Coarser(start.precision, end.precision)]
    ELSE None

\* What a record with these three anchors yields.
derive_durations(impact_start, detected_at, mitigated_at) ==
  [time_to_detect |-> Seconds_between(impact_start, detected_at),
   time_to_mitigate |-> Seconds_between(impact_start, mitigated_at)]

-------------------------------------------------------------------------------

\* The zone that an anchor's wall time is in: what the string says, else what the author
\* wrote beside it, else the zone z that the author had in mind.
ZoneOf(a, z) ==
  CASE a.at.shape = "aware" -> a.at.offset
    [] a.at.shape # "aware" /\ a.zone # Unstated -> a.zone
    [] OTHER -> z

\* The instant an anchor means.
Instant(a, z) == a.at.wall - ZoneOf(a, z)

\* The zones that no offset in the strings settles are never looked at (derive.py: "not
\* comparable without a timezone decision this module refuses to make", of one aware and
\* one naive anchor; schema.py: "the spike found documents that mix zones"). So a derived
\* duration is the time that passed if the strings have offsets, or if both were written
\* in one zone, and in no other case: not between 09:00 "PDT" and 17:30 "UTC". It is no
\* finer than its anchors, changes only its sign when they are exchanged, and two that are
\* measured from one start differ by what is derived between their ends.
DurationsHold(a, b, c) ==
  LET d == derive_durations(a, b, c)
      detect == d.time_to_detect
      mitigate == d.time_to_mitigate
  IN /\ detect.given =>
          /\ \A z \in Offsets :
               detect.seconds = Instant(b, z) - Instant(a, z)
                 <=> a.at.shape = "aware" \/ ZoneOf(a, z) = ZoneOf(b, z)
          /\ \A x \in {a, b} : x.precision \in DOMAIN Rank
                               /\ Rank[x.precision] <= Rank[detect.precision]
          /\ Seconds_between(b, a).seconds = -detect.seconds
     /\ detect.given /\ mitigate.given =>
          mitigate.seconds - detect.seconds = Seconds_between(b, c).seconds
===============================================================================
