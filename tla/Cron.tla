-------------------------------- MODULE Cron --------------------------------
(***************************************************************************)
(* parseCron and nextCronTick: the next minute after `from` whose wall      *)
(* clock in a time zone matches an expression, found day by day.  A day has *)
(* DayLength slots (an hour and a minute of the program), a year the days   *)
(* of Year; a zone is an offset that changes by `shift` slots at one        *)
(* instant.                                                                 *)
(***************************************************************************)
EXTENDS Integers, Sequences, FiniteSets, FiniteSetsExt, Functions

CONSTANTS
  DayLength, WeekLength,
  Year,             \* the days of a year: a sequence of [month, day]
  MaxDays,          \* days that are searched (366 * 4 + 2 in the program)
  Zones,            \* of [offset, at, shift]: the offset, and from the instant `at` offset + shift
  Specs,            \* expressions: [slots, day, month, weekday], each a sequence of parts of a field
  Froms,            \* instants to search from first
  MaxTime           \* bound: instants to search from

VARIABLES zone, spec, from
vars == <<zone, spec, from>>

-----------------------------------------------------------------------------
(* The fields: parts [from, to, step], or [star |-> TRUE, step]              *)

None == -1
PartValues(part, min, max) ==
  LET lo == IF part.star THEN min ELSE part.from
      hi == IF part.star THEN max ELSE part.to
  IN  {v \in lo..hi : (v - lo) % part.step = 0}
PartValid(part, min, max) ==
  part.step >= 1 /\ (part.star \/ (part.from >= min /\ part.to <= max /\ part.from <= part.to))

\* Only a literal * is a wildcard; weekday 7 is Sunday.
ParseField(parts, min, max) ==
  [values |-> UNION {PartValues(parts[i], min, max) : i \in DOMAIN parts},
   wildcard |-> Len(parts) = 1 /\ parts[1].star /\ parts[1].step = 1,
   valid |-> \A i \in DOMAIN parts : PartValid(parts[i], min, max)]
ParseCron(s) ==
  LET weekday == ParseField(s.weekday, 0, WeekLength)
  IN  [slots |-> ParseField(s.slots, 0, DayLength - 1),
       day |-> ParseField(s.day, 1, Max({d.day : d \in Range(Year)})),
       month |-> ParseField(s.month, 1, Max({d.month : d \in Range(Year)})),
       weekday |-> [weekday EXCEPT !.values = {v % WeekLength : v \in @}]]
Valid(s) == LET p == ParseCron(s) IN p.slots.valid /\ p.day.valid /\ p.month.valid /\ p.weekday.valid

-----------------------------------------------------------------------------
(* Instants and wall clocks                                                  *)

TzOffset(z, epoch) == z.offset + (IF epoch >= z.at THEN z.shift ELSE 0)
WallClock(z, epoch) ==
  LET local == epoch + TzOffset(z, epoch)
  IN  [date |-> local \div DayLength, slot |-> local % DayLength]

\* Two passes, to land on the right side of a change.
ToEpoch(z, date, slot) ==
  LET asUtc == date * DayLength + slot
      first == TzOffset(z, asUtc)
      second == TzOffset(z, asUtc - first)
  IN  asUtc - second

OfYear(date) == Year[(date % Len(Year)) + 1]

\* POSIX: a day of the month or of the week that is restricted; either, when both are.
EitherAlways(p, date) ==       \* mutant: a wildcard matches on its own
  /\ OfYear(date).month \in p.month.values
  /\ OfYear(date).day \in p.day.values \/ date % WeekLength \in p.weekday.values
DayMatches(p, date) ==
  LET dom == OfYear(date).day \in p.day.values
      dow == date % WeekLength \in p.weekday.values
  IN  /\ OfYear(date).month \in p.month.values
      /\ CASE ~p.day.wildcard /\ ~p.weekday.wildcard -> dom \/ dow
            [] ~p.day.wildcard /\ p.weekday.wildcard -> dom
            [] p.day.wildcard /\ ~p.weekday.wildcard -> dow
            [] OTHER -> TRUE

NextDayStart(z, date) == WallClock(z, ToEpoch(z, date + 1, 0))

-----------------------------------------------------------------------------
(* nextCronTick                                                              *)

\* The candidates of a day, from a slot on: instants after `from` whose wall clock exists.
Candidates(z, p, date, lower, first) ==
  {ToEpoch(z, date, s) : s \in {s \in p.slots.values : s >= lower /\ ToEpoch(z, date, s) >= first
                                                     /\ WallClock(z, ToEpoch(z, date, s)).slot = s}}

\* The slots of a day are tried in order.
FirstSlot(z, p, date, lower, first) ==
  LET ok == {s \in p.slots.values : s >= lower /\ ToEpoch(z, date, s) \in Candidates(z, p, date, lower, first)}
  IN  IF ok = {} THEN None ELSE ToEpoch(z, date, Min(ok))

NextCronTick(z, s, f) ==
  LET p == ParseCron(s)
      first == f + 1
      start == WallClock(z, first)
      search[d \in 0..MaxDays, date \in -1..(first + MaxDays * DayLength), lower \in 0..DayLength] ==
        IF d = MaxDays THEN None
        ELSE LET hit == IF DayMatches(p, date) THEN FirstSlot(z, p, date, lower, first) ELSE None
             IN  IF hit # None THEN hit ELSE search[d + 1, NextDayStart(z, date).date, 0]
  IN  search[0, start.date, start.slot]

-----------------------------------------------------------------------------
Init == zone \in Zones /\ spec \in {s \in Specs : Valid(s)} /\ from \in Froms
\* A cron task searches from its last firing.
Next ==
  /\ from < MaxTime /\ from' = NextCronTick(zone, spec, from) /\ from' # None
  /\ UNCHANGED <<zone, spec>>
Spec == Init /\ [][Next]_vars

-----------------------------------------------------------------------------
\* The reference: the instants at which a wall clock matches.  Of a wall clock that occurs twice
\* one counts, the one ToEpoch maps it to: the first west of UTC, the second east of it.
Matches(z, s, e) ==
  LET p == ParseCron(s) wc == WallClock(z, e) day == OfYear(wc.date)
      dom == day.day \in p.day.values
      dow == wc.date % WeekLength \in p.weekday.values
  IN  /\ wc.slot \in p.slots.values /\ day.month \in p.month.values
      /\ IF p.day.wildcard \/ p.weekday.wildcard THEN dom /\ dow ELSE dom \/ dow
      /\ ToEpoch(z, wc.date, wc.slot) = e
\* The clock was put back between `from` and e, by more than the time that passed.
Behind(z, f, e) ==
  LET a == WallClock(z, f + 1) b == WallClock(z, e)
  IN  b.date < a.date \/ (b.date = a.date /\ b.slot < a.slot)
Horizon == from + (MaxDays - 1) * DayLength
Firings == {e \in from + 1..Horizon : Matches(zone, spec, e) /\ ~Behind(zone, from, e)}

\* nextCronTick returns the earliest firing after `from` whose wall clock is not behind that of
\* `from`: none of those is missed at the end of a day, of a month or of a year, around a gap or a
\* repeated hour, and -1 says that there is none.  A search that starts within the first pass of
\* a repeated hour does not see the firings of the second pass with an earlier wall clock.
NextTickExact ==
  LET e == NextCronTick(zone, spec, from)
  IN  IF e # None /\ e <= Horizon THEN Firings # {} /\ e = Min(Firings) ELSE Firings = {}
=============================================================================
