---------------------------- MODULE MarketHours ----------------------------
(***************************************************************************)
(* core/market_hours: whether the market is open at a moment.  A moment    *)
(* counts time slots from Monday's first; a day has DayLength slots.       *)
(***************************************************************************)
EXTENDS Naturals

CONSTANTS
    DayLength,
    pre_open_session, regular_session, lunch_break,   \* [start, end] in slots
    enforce_lunch_break, enforce_weekends, market_24x7

MarketSession == [start : 0..(DayLength - 1), end : 0..(DayLength - 1)]

ASSUME HoursAssumption ==
    /\ DayLength \in Nat \ {0}
    /\ {pre_open_session, regular_session, lunch_break} \subseteq MarketSession
    /\ {enforce_lunch_break, enforce_weekends, market_24x7} \subseteq BOOLEAN

Weekday(moment) == (moment \div DayLength) % 7
TimeOf(moment) == moment % DayLength

\* Both ends belong to a session.
Contains(session, moment) ==
    session.start <= TimeOf(moment) /\ TimeOf(moment) <= session.end

\* The pre-open session has precedence at the slot the two sessions share.
get_market_status(moment) ==
    CASE market_24x7 -> "open"
      [] ~market_24x7 /\ enforce_weekends /\ Weekday(moment) >= 5 -> "weekend"
      [] OTHER ->
            IF Contains(pre_open_session, moment) THEN "pre_open"
            ELSE IF ~Contains(regular_session, moment) THEN "closed"
            ELSE IF enforce_lunch_break /\ Contains(lunch_break, moment) THEN "lunch_break"
            ELSE "open"

is_market_open(moment) == get_market_status(moment) \in {"open", "pre_open"}

=============================================================================
