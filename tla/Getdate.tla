------------------------------- MODULE Getdate -------------------------------
(***************************************************************************)
(* The dates of kadmin (krb5-admin/src/getdate.rs): a phrase of words and  *)
(* numbers is read item by item, and the items are put together into a     *)
(* time.  The unit is a minute: seconds are left out.  The zone's rules    *)
(* are those of the C library; here summer time is one hour from April to  *)
(* September.                                                              *)
(***************************************************************************)
EXTENDS Integers, Sequences, FiniteSets, SequencesExt

CONSTANTS
    Phrases,    \* what may be typed: words [w], numbers and signs as tokens
    Nows,       \* the times at which it may be typed
    West        \* the zone, in minutes west of UTC, without summer time

VARIABLES
    now,        \* when the phrase is typed
    ask,        \* "date" or "interval"
    rest,       \* the tokens still to be read
    st,         \* State
    result      \* "reading", "bad", "past", or the time found

vars == <<now, ask, rest, st, result>>

MinsPerDay == 24 * 60
Epoch == 1970
EpochEnd == 2106

-----------------------------------------------------------------------------
(* The calendar, and localtime: the C library's part. *)
Leap(y) == y % 4 = 0 /\ (y % 100 # 0 \/ y % 400 = 0)

DaysIn(y, m) ==
    IF m = 2 THEN (IF Leap(y) THEN 29 ELSE 28) ELSE IF m \in {4, 6, 9, 11} THEN 30 ELSE 31

DaysBefore(y, m) == FoldLeft(LAMBDA n, k : n + DaysIn(y, k), 0, [k \in 1 .. m - 1 |-> k])

Leaps(y) == (y \div 4) - (y \div 100) + (y \div 400)

YearStart(y) == 365 * (y - Epoch) + Leaps(y - 1) - Leaps(Epoch - 1)

YearOf(day) ==
    CHOOSE y \in Epoch + (day \div 366) .. Epoch + (day \div 365) :
        YearStart(y) <= day /\ day < YearStart(y + 1)

MonthOf(y, n) ==
    CHOOSE m \in 1 .. 12 : DaysBefore(y, m) <= n /\ n < DaysBefore(y, m) + DaysIn(y, m)

InMonth(y, m, n) == [year |-> y, month |-> m, day |-> n - DaysBefore(y, m) + 1]

InYear(y, n) == InMonth(y, MonthOf(y, n), n)

DateIn(y, day) == InYear(y, day - YearStart(y))

Date(day) == DateIn(YearOf(day), day)

Isdst(t) == Date((t - West) \div MinsPerDay).month \in 4 .. 9

LocalMinutesWest(t) == IF Isdst(t) THEN West - 60 ELSE West

At(date, local) ==
    [year |-> date.year, month |-> date.month, day |-> date.day,
     hour |-> (local % MinsPerDay) \div 60, min |-> local % 60,
     wday |-> ((local \div MinsPerDay) + 4) % 7]

Shown(local) == At(Date(local \div MinsPerDay), local)

LocalTime(t) == Shown(t - LocalMinutesWest(t))

-----------------------------------------------------------------------------
(* lookup_word: one word of each kind stands for its table. *)
Tok(t, n) == [t |-> t, n |-> n]

Words ==
    [am |-> Tok("Am", 0), pm |-> Tok("Pm", 0), february |-> Tok("Month", 2),
     july |-> Tok("Month", 7), sunday |-> Tok("Day", 0), friday |-> Tok("Day", 5),
     utc |-> Tok("Zone", 0), cet |-> Tok("Zone", -60), edt |-> Tok("DayZone", 300),
     dst |-> Tok("Dst", 0), year |-> Tok("MonthUnit", 12), month |-> Tok("MonthUnit", 1),
     week |-> Tok("MinuteUnit", 7 * MinsPerDay), hour |-> Tok("MinuteUnit", 60),
     second |-> Tok("SecUnit", 1), yesterday |-> Tok("MinuteUnit", - MinsPerDay),
     last |-> Tok("UNumber", -1), next |-> Tok("UNumber", 2), ago |-> Tok("Ago", 0),
     never |-> Tok("Never", 0)]

LookupWord(w) == IF w \in DOMAIN Words THEN Words[w] ELSE Tok("Id", 0)

Lex(phrase) == [i \in DOMAIN phrase |-> IF "w" \in DOMAIN phrase[i]
                                        THEN LookupWord(phrase[i].w) ELSE phrase[i]]

-----------------------------------------------------------------------------
(* State::parse. *)
Tk(i) == IF i <= Len(rest) THEN rest[i] ELSE Tok("End", 0)

Is(i, kind) == Tk(i).t = kind

Took(s, used) == {[st |-> s, used |-> used]}

Time(h, m, mer) ==
    [st EXCEPT !.hour = h, !.min = m, !.mer = mer, !.haveTime = @ + 1]

(* An offset is written hhmm, as a signed number. *)
Quot(a, b) == IF a < 0 THEN - ((- a) \div b) ELSE a \div b

TimeOffset(h, m, z) ==
    [Time(h, m, "H24") EXCEPT !.dst = "Off",
                              !.timezone = - (z - 100 * Quot(z, 100) + 60 * Quot(z, 100))]

DateOf(month, day, year) ==
    [st EXCEPT !.month = month, !.day = day, !.haveDate = @ + 1,
               !.year = IF year = {} THEN @ ELSE CHOOSE y \in year : TRUE]

(* rel: "ago" turns all that was said so far. *)
Rel(s, i) ==
    IF Is(i, "Ago")
    THEN Took([s EXCEPT !.haveRel = @ + 1, !.relMin = - @, !.relMonth = - @], i)
    ELSE Took([s EXCEPT !.haveRel = @ + 1], i - 1)

Colon(i) == Is(i, ":")

Meridian(i) == Is(i, "Am") \/ Is(i, "Pm")

TimeEnd(h, m, i) ==
    CASE Meridian(i) -> Took(Time(h, m, Tk(i).t), i)
      [] Is(i, "SNumber") -> Took(TimeOffset(h, m, Tk(i).n), i)
      [] OTHER -> Took(Time(h, m, "H24"), i - 1)

ClockItem ==
    CASE Is(1, "UNumber") /\ Meridian(2) -> Took(Time(Tk(1).n, 0, Tk(2).t), 2)
      [] Is(1, "UNumber") /\ Colon(2) /\ Is(3, "UNumber") /\ ~ Colon(4) -> TimeEnd(Tk(1).n, Tk(3).n, 4)
      [] Is(1, "UNumber") /\ Colon(2) /\ Is(3, "UNumber") /\ Colon(4) /\ Is(5, "UNumber") ->
             TimeEnd(Tk(1).n, Tk(3).n, 6)
      [] OTHER -> {}

Slash(i) == Is(i, "/")

DateItem ==
    CASE Is(1, "UNumber") /\ Slash(2) /\ Is(3, "UNumber") /\ Slash(4) /\ Is(5, "UNumber") ->
             Took(DateOf(Tk(1).n, Tk(3).n, {Tk(5).n}), 5)
      [] Is(1, "UNumber") /\ Slash(2) /\ Is(3, "UNumber") /\ ~ Slash(4) ->
             Took(DateOf(Tk(1).n, Tk(3).n, {}), 3)
      [] Is(1, "UNumber") /\ Is(2, "SNumber") /\ Is(3, "SNumber") ->
             Took(DateOf(- Tk(2).n, - Tk(3).n, {Tk(1).n}), 3)
      [] Is(1, "UNumber") /\ Is(2, "Month") /\ Is(3, "SNumber") ->
             Took(DateOf(Tk(2).n, Tk(1).n, {- Tk(3).n}), 3)
      [] Is(1, "UNumber") /\ Is(2, "Month") /\ Is(3, "UNumber") ->
             Took(DateOf(Tk(2).n, Tk(1).n, {Tk(3).n}), 3)
      [] Is(1, "UNumber") /\ Is(2, "Month") /\ ~ Is(3, "SNumber") /\ ~ Is(3, "UNumber") ->
             Took(DateOf(Tk(2).n, Tk(1).n, {}), 2)
      [] OTHER -> {}

Comma(i) == Is(i, ",")

(* "July 4" and "July 4, 2030". *)
MonthItem ==
    CASE Is(1, "Month") /\ Is(2, "UNumber") /\ ~ Comma(3) -> Took(DateOf(Tk(1).n, Tk(2).n, {}), 2)
      [] Is(1, "Month") /\ Is(2, "UNumber") /\ Comma(3) /\ Is(4, "UNumber") ->
             Took(DateOf(Tk(1).n, Tk(2).n, {Tk(4).n}), 4)
      [] OTHER -> {}

Weekday(ordinal, number) ==
    [st EXCEPT !.ordinal = ordinal, !.number = number, !.haveDay = @ + 1]

DayItem ==
    CASE Is(1, "UNumber") /\ Is(2, "Day") -> Took(Weekday(Tk(1).n, Tk(2).n), 2)
      [] Is(1, "Day") -> Took(Weekday(1, Tk(1).n), IF Comma(2) THEN 2 ELSE 1)
      [] OTHER -> {}

(* A unit, alone or after its number; a second is no minute. *)
Unit(n, u) ==
    CASE u.t = "MinuteUnit" -> [st EXCEPT !.relMin = @ + n * u.n]
      [] u.t = "MonthUnit" -> [st EXCEPT !.relMonth = @ + n * u.n]
      [] u.t = "SecUnit" -> st

Units == {"MinuteUnit", "MonthUnit", "SecUnit"}

UnitItem ==
    CASE Tk(1).t \in {"UNumber", "SNumber"} /\ Tk(2).t \in Units -> Rel(Unit(Tk(1).n, Tk(2)), 3)
      [] Tk(1).t \in Units -> Rel(Unit(1, Tk(1)), 2)
      [] OTHER -> {}

ZoneItem ==
    CASE Is(1, "Zone") ->
             Took([st EXCEPT !.timezone = Tk(1).n, !.haveZone = @ + 1,
                             !.dst = IF Is(2, "Dst") THEN "On" ELSE "Off"],
                  IF Is(2, "Dst") THEN 2 ELSE 1)
      [] Is(1, "DayZone") ->
             Took([st EXCEPT !.timezone = Tk(1).n, !.haveZone = @ + 1, !.dst = "On"], 1)
      [] OTHER -> {}

Items == ClockItem \cup DateItem \cup MonthItem \cup DayItem \cup UnitItem \cup ZoneItem

Item ==
    /\ result = "reading" /\ rest # <<>>
    /\ \E items \in {Items} :
           \/ /\ items = {}
              /\ result' = "bad" /\ UNCHANGED <<rest, st>>
           \/ \E o \in items :
                  /\ st' = o.st /\ rest' = SubSeq(rest, o.used + 1, Len(rest))
                  /\ UNCHANGED result
    /\ UNCHANGED <<now, ask>>

-----------------------------------------------------------------------------
(* to_seconds: the hour of 12 a.m. is 12, that of 12 p.m. is 24. *)
Hour(h, mer) ==
    CASE mer = "H24" /\ h \in 0 .. 23 -> {h}
      [] mer = "Am" /\ h \in 1 .. 12 -> {h}
      [] mer = "Pm" /\ h \in 1 .. 12 -> {h + 12}
      [] OTHER -> {}

ToMinutes(h, m, mer) == IF m \in 0 .. 59 THEN {60 * k + m : k \in Hour(h, mer)} ELSE {}

(* Mutant of Julian: the leap day of the year itself is counted too. *)
JulianPast(year, month, day) ==
    day - 1 + DaysBefore(year, month) + 365 * (year - Epoch)
    + Cardinality({i \in Epoch .. year : i % 4 = 0})

(* The years before count a leap day by whether the year itself is one of  *)
(* those divisible by 100.                                                 *)
Julian(year, month, day) ==
    day - 1 + DaysBefore(year, month) + 365 * (year - Epoch)
    + Cardinality({i \in Epoch .. year - 1 : i % 4 = 0 /\ (year % 100 # 0 \/ year % 400 = 0)})

Abs(n) == IF n < 0 THEN - n ELSE n

FullYear(y) == IF Abs(y) < 1900 THEN Abs(y) + 1900 ELSE Abs(y)

Summer(t, dst) == IF dst = "On" \/ (dst = "Maybe" /\ Isdst(t)) THEN t - 60 ELSE t

(* convert: a set with the time, or with none when there is no such date. *)
Convert(at, mer, dst, timezone) ==
    IF \/ FullYear(at.year) \notin Epoch .. EpochEnd \/ at.month \notin 1 .. 12
       \/ at.day \notin 1 .. DaysIn(FullYear(at.year), at.month)
    THEN {}
    ELSE {Summer(MinsPerDay * Julian(FullYear(at.year), at.month, at.day) + timezone + m, dst) :
              m \in ToMinutes(at.hour, at.min, mer)}

(* Mutant of DstCorrect: the hours are not put right. *)
DstCorrectNot(start, future) == future - start

DstCorrect(start, future) ==
    (future - start) +
    60 * (((LocalTime(start).hour + 1) % 24) - ((LocalTime(future).hour + 1) % 24))

Later(tm, months) == [tm EXCEPT !.month = (months % 12) + 1, !.year = months \div 12]

RelativeMonth(start, relMonth, timezone) ==
    IF relMonth = 0 THEN {0}
    ELSE {DstCorrect(start, r) :
             r \in UNION {Convert(Later(tm, 12 * (tm.year - 1900) + tm.month - 1 + relMonth),
                                  "H24", "Maybe", timezone) : tm \in {LocalTime(start)}}}

RelativeDate(start, ordinal, number) ==
    DstCorrect(start,
        start + MinsPerDay * ((number - LocalTime(start).wday + 7) % 7)
              + 7 * MinsPerDay * (IF ordinal <= 0 THEN ordinal ELSE ordinal - 1))

Repeated(s) == s.haveTime > 1 \/ s.haveZone > 1 \/ s.haveDate > 1 \/ s.haveDay > 1

(* get_date_rel: where the time starts from. *)
Start(s) ==
    IF s.haveDate + s.haveTime + s.haveDay > 0
    THEN {t \in Convert(s, s.mer, s.dst, s.timezone) : t >= 0}
    ELSE {now - (IF s.haveRel = 0 THEN 60 * LocalTime(now).hour + LocalTime(now).min ELSE 0)}

Weekly(s, t) ==
    IF s.haveDay > 0 /\ s.haveDate = 0 THEN t + RelativeDate(t, s.ordinal, s.number) ELSE t

GetDateRel(s) ==
    IF Repeated(s) THEN {}
    ELSE {Weekly(s, t) : t \in UNION {{b + s.relMin + d : d \in
              RelativeMonth(b + s.relMin, s.relMonth, s.timezone)} : b \in Start(s)}}

(* parse_date and parse_interval, whose zero is "never". *)
Finish ==
    /\ result = "reading" /\ rest = <<>>
    /\ \E found \in {GetDateRel(st)} :
           result' = IF found = {} THEN "bad"
                     ELSE IF ask = "interval" /\ found # {0} /\ \E t \in found : t < now THEN "past"
                     ELSE "ok"
    /\ UNCHANGED <<now, ask, rest, st>>

Fresh(tm) ==
    [dst |-> "Maybe", ordinal |-> 0, number |-> 0, haveDate |-> 0, haveDay |-> 0, haveRel |-> 0,
     haveTime |-> 0, haveZone |-> 0, timezone |-> LocalMinutesWest(now), day |-> tm.day,
     hour |-> 0, min |-> 0, month |-> tm.month, year |-> tm.year - 1900, mer |-> "H24",
     relMonth |-> 0, relMin |-> 0]

Never(s) ==
    [s EXCEPT !.year = 1970, !.month = 1, !.day = 1, !.dst = "Off", !.timezone = 0, !.haveDate = 1]

Init ==
    /\ now \in Nows
    /\ ask \in {"date", "interval"}
    /\ \E fresh \in {Fresh(LocalTime(now))}, p \in {Lex(q) : q \in Phrases} :
           IF p[1].t = "Never" THEN rest = Tail(p) /\ st = Never(fresh)
           ELSE rest = p /\ st = fresh
    /\ result = "reading"

Next == Item \/ Finish

Spec == Init /\ [][Next]_vars

-----------------------------------------------------------------------------
(* The minutes west that the phrase names, summer time included. *)
Named == IF st.dst = "On" THEN st.timezone - 60 ELSE st.timezone

OnlyDate == st.haveDate = 1 /\ st.haveRel = 0

(* A date with a zone is that very date there. *)
DateIsMeant(found) ==
    (OnlyDate /\ st.dst # "Maybe" /\ st.mer = "H24" /\ FullYear(st.year) < 2100) =>
        \E w \in {Shown(found - Named)} :
            /\ w.year = FullYear(st.year) /\ w.month = st.month /\ w.day = st.day
            /\ w.hour = st.hour /\ w.min = st.min

OnlyMonths ==
    st.haveRel > 0 /\ st.relMin = 0 /\ st.haveDate + st.haveTime + st.haveDay + st.haveZone = 0

(* So many months later it is the same day of the month and the same hour. *)
(* In summer the last hour of a day is taken for the first of the next.    *)
MonthsAreMeant(found) ==
    (OnlyMonths /\ (Isdst(now) => LocalTime(now).hour # 23)) =>
        \E a \in {LocalTime(now)}, b \in {LocalTime(found)} :
            /\ 12 * b.year + b.month = 12 * a.year + a.month + st.relMonth
            /\ b.day = a.day /\ b.hour = a.hour /\ b.min = a.min

OnlyDay == st.haveDay = 1 /\ st.haveDate + st.haveRel + st.haveTime + st.haveZone = 0

(* A weekday is the next of its name, at the start of that day.  In summer *)
(* the zone of now has the hour that convert takes off once more.          *)
DayIsMeant(found) ==
    (OnlyDay /\ st.ordinal >= 1 /\ ~ Isdst(now)) =>
        \E b \in {LocalTime(found)} :
            /\ b.wday = st.number /\ b.hour = 0 /\ b.min = 0
            /\ found > now + MinsPerDay * (7 * (st.ordinal - 1) - 1)
            /\ found < now + MinsPerDay * 7 * st.ordinal

(* DatesAreMeant: a date with its zone is the time at which a calendar     *)
(* shows that date there; a number of months later, the local calendar     *)
(* shows the same day and hour, across a change to or from summer time; a  *)
(* weekday is one of that name, within its week (convert, relative_month,  *)
(* relative_date, dst_correct).                                            *)
DatesAreMeant ==
    (result = "ok" /\ ask = "date") =>
        \A t \in GetDateRel(st) : DateIsMeant(t) /\ MonthsAreMeant(t) /\ DayIsMeant(t)
=============================================================================
