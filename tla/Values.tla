------------------------------- MODULE Values -------------------------------
(***************************************************************************)
(* What becomes of a value on its way into the database and out of it:     *)
(* BindParams of src/params.cpp and src/pgarrays.cpp for a parameter of a  *)
(* query, ConvertValue of src/getdata.cpp for a column of its result.      *)
(*                                                                         *)
(* A value of Python is a pair <<class, content>>, a value of the backend  *)
(* a pair <<type, content>>.  Between them travel pairs of a type and what *)
(* is on the wire, in which an integer is the number from zero on that its *)
(* bits are: a cast or a byte swap that loses the sign shows as a large    *)
(* number.                                                                 *)
(*                                                                         *)
(* Contents: the characters of a str; <<"raw", x>> for bytes; <<kind,      *)
(* negative, coefficient, scale>> for a decimal; <<y, m, d>> for a date,   *)
(* <<h, m, s, us>> for a time, both in a row for a datetime, and behind    *)
(* them the offset of its tzinfo when either is aware; <<days, seconds,    *)
(* microseconds>> for a timedelta; elements, values themselves, for a      *)
(* list.  In the backend: a number of days or microseconds since     *)
(* 2000-01-01 for a date or a timestamp, <<months, days, microseconds>>    *)
(* for an interval, <<dimensions, elements>> for an array.                 *)
(***************************************************************************)
EXTENDS JulianDate, Sequences, SequencesExt

CONSTANTS Params,       \* values a program may pass as a parameter
          Columns,      \* values of the backend that a query may return, and
          TextColumns,  \* those a script may return, which come as text
          SmallLimit,   \* the first number beyond a smallint (2^15),
          IntLimit,     \* an integer (2^31)
          LongLimit,    \* and a bigint (2^63)
          Hours,        \* hours in a day (24),
          Minutes,      \* minutes in an hour (60),
          Seconds,      \* seconds in a minute (60)
          Micros,       \* and microseconds in a second (1000000)
          MaxGroups     \* groups of four digits in a numeric

ASSUME ValuesAssumption ==
    /\ {SmallLimit, IntLimit, LongLimit} \subseteq Nat \ {0}
    /\ SmallLimit < IntLimit /\ IntLimit < LongLimit
    /\ {Hours, Minutes, Seconds, Micros} \subseteq Nat \ {0}

(* The text of a numeric has a character for each digit, and three for the *)
(* sign, the point and the end.  GetNumeric has 1024 bytes for it, or more *)
(* if the groups that were sent need more; it does not count the groups of *)
(* zeros that were not.  The numerics here are those whose text has room.  *)
ASSUME GroupsAssumption == MaxGroups \in 1..255

VARIABLES stage,    \* start, bound (the query is given to libpq), held (the
                    \* backend has the value), got, raised
          param,    \* the parameter of the query
          wire,     \* what was bound for it
          pending,  \* was it bound with an exception left set?
          column,   \* the backend's value
          format,   \* the format of the result: binary or text
          result    \* what the program gets

vars == <<stage, param, wire, pending, column, format, result>>

---------------------------------------------------------------------------
None == <<"None", 0>>
Null == <<"NULL", 0>>

(* In place of a value: an exception, or nothing yet.                      *)
Raised == <<"raised", 0>>
Nothing == <<"nothing", 0>>

Class(v) == v[1]
Content(v) == v[2]

(* A bool is an int.                                                       *)
AsInt(v) == IF Class(v) = "bool" THEN IF Content(v) THEN 1 ELSE 0
                                 ELSE Content(v)

SecondsPerDay == Hours * Minutes * Seconds
TicksPerDay == SecondsPerDay * Micros

(* The bits of a number, in a type that holds the numbers below a limit    *)
(* (2^31 in 32 bits), and the number with a sign that some bits are.       *)
Unsigned(n, limit) == n % (2 * limit)
Signed(u, limit) == IF u < limit THEN u ELSE u - 2 * limit

Fits(n, limit) == -limit <= n /\ n < limit

(* A string of C ends at the first NUL character.                          *)
CString(s) == SubSeq(s, 1, Max({i \in 0..Len(s) : \A j \in 1..i : s[j] # "nul"}))

(* A lone surrogate has no encoding in UTF-8.                              *)
Encodable(s) == "lone" \notin ToSet(s)

---------------------------------------------------------------------------
(* Parameters.  Each Bind operator gives what Params::Bind is told of a    *)
(* value, or Raised if it is refused.                                      *)

(* Type 0 leaves the type to the backend.                                  *)
BindNone(v) == Null

BindBool(v) == <<"bool", Content(v)>>

Limit(cb) == CASE cb = 2 -> SmallLimit [] cb = 4 -> IntLimit [] OTHER -> LongLimit

(* The bytes an integer needs, 0 if it does not fit in a bigint.           *)
MinLongSize(v) ==
    LET enough == {cb \in {2, 4, 8} : Fits(AsInt(v), Limit(cb))}
    IN  IF enough = {} THEN 0 ELSE Min(enough)

IntType == [cb \in {2, 4, 8} |->
              CASE cb = 2 -> "int2" [] cb = 4 -> "int4" [] OTHER -> "int8"]

BindLong(v) ==
    LET cb == MinLongSize(v)
    IN  IF cb = 0 THEN Raised ELSE <<IntType[cb], Unsigned(AsInt(v), Limit(cb))>>

(* Text format: libpq takes it as a string of C.                           *)
BindUnicode(v) ==
    IF Encodable(Content(v)) THEN <<"text", CString(Content(v))>> ELSE Raised

(* The decimal is sent as Python prints it.                                *)
BindDecimal(v) == <<"numeric", Content(v)>>

(* Mutant of BindDate: the offset keeps its sign.                          *)
BindSignedDate(v) == <<"date", dateToJulian(Content(v)) - JULIAN_START>>
BindDate(v) ==
    <<"date", Unsigned(dateToJulian(Content(v)) - JULIAN_START, IntLimit)>>

(* The days are an unsigned integer that is then widened; a tzinfo is not  *)
(* looked at.                                                              *)
BindDateTime(v) ==
    LET t == Content(v)
        days == Unsigned(dateToJulian(t) - JULIAN_START, IntLimit)
        ticks == (((days * Hours + t[4]) * Minutes + t[5]) * Seconds + t[6])
                 * Micros + t[7]
    IN  <<"timestamp", Unsigned(ticks, LongLimit)>>

BindTime(v) ==
    LET t == Content(v)
    IN  <<"time", ((t[1] * Minutes + t[2]) * Seconds + t[3]) * Micros + t[4]>>

BindDelta(v) ==
    IF Content(v)[3] # 0
    THEN Raised
    ELSE <<"interval", <<0, Unsigned(Content(v)[1], IntLimit), Content(v)[2] * Micros>>>>

BindBytes(v) == <<"bytea", Content(v)>>
BindFloat(v) == <<"float8", Content(v)>>
BindUUID(v) == <<"uuid", Content(v)>>

---------------------------------------------------------------------------
(* Arrays.  On the wire one is the size of an element and the elements.    *)

(* The elements that are not None.                                         *)
Present(items) == {i \in DOMAIN items : items[i] # None}

BindUnicodeArray(items) ==
    IF \A i \in Present(items) :
          Class(items[i]) = "str" /\ Encodable(Content(items[i]))
    THEN <<"text[]", <<0, items>>>>
    ELSE Raised

LongElement(v, cb) ==
    LET lvalue == IF MinLongSize(v) = 0 THEN -1 ELSE AsInt(v)
    IN  IF v = None THEN None ELSE <<"int", Unsigned(lvalue, Limit(cb))>>

(* Mutant of ItemSize: the size that the first element needs.              *)
FirstItemSize(items) ==
    IF Present(items) = {} THEN 0 ELSE MinLongSize(items[Min(Present(items))])
ItemSize(items) == Max({0} \cup {MinLongSize(items[i]) : i \in Present(items)})

ArrayType == [cb \in {0, 2, 4, 8} |->
                CASE cb = 0 -> "unspecified" [] cb = 2 -> "int2[]"
                  [] cb = 4 -> "int4[]" [] OTHER -> "int8[]"]

IsInt(v) == Class(v) \in {"int", "bool"}

BindLongArray(items) ==
    IF \A i \in Present(items) : IsInt(items[i])
    THEN LET cb == ItemSize(items)
         IN  <<ArrayType[cb],
               <<cb, [i \in DOMAIN items |-> LongElement(items[i], cb)]>>>>
    ELSE Raised

(* The first element that is not None decides; without one, it is text.    *)
BindArray(v) ==
    LET items == Content(v)
        first == items[Min(Present(items))]
    IN  IF Present(items) = {} \/ Class(first) = "str" THEN BindUnicodeArray(items)
        ELSE IF IsInt(first) THEN BindLongArray(items)
        ELSE Raised

(* An element too large for a bigint sets an exception that nobody looks   *)
(* at before the query is sent.                                            *)
LeavesException(v) ==
    /\ Class(v) = "list"
    /\ BindArray(v) # Raised
    /\ \E i \in Present(Content(v)) :
          IsInt(Content(v)[i]) /\ MinLongSize(Content(v)[i]) = 0

---------------------------------------------------------------------------
(* The tests of BindParams, in order: a bool is an int, a datetime a date, *)
(* and a datetime or a time with a tzinfo is one like the others.          *)

(* Mutant of Checks: dates are tested before datetimes.                    *)
DatesFirst == <<"None", "bool", "int", "str", "Decimal", "date", "datetime",
                "time", "timedelta", "float", "bytes", "bytearray", "UUID", "list">>
Checks == <<"None", "bool", "int", "str", "Decimal", "datetime", "date",
            "time", "timedelta", "float", "bytes", "bytearray", "UUID", "list">>

IsInstance(v, class) ==
    \/ Class(v) = class
    \/ Class(v) = "bool" /\ class = "int"
    \/ Class(v) = "datetime" /\ class = "date"
    \/ Class(v) = "datetimetz" /\ class \in {"datetime", "date"}
    \/ Class(v) = "timetz" /\ class = "time"

BindAs(class, v) ==
    CASE class = "None"      -> BindNone(v)
      [] class = "bool"      -> BindBool(v)
      [] class = "int"       -> BindLong(v)
      [] class = "str"       -> BindUnicode(v)
      [] class = "Decimal"   -> BindDecimal(v)
      [] class = "datetime"  -> BindDateTime(v)
      [] class = "date"      -> BindDate(v)
      [] class = "time"      -> BindTime(v)
      [] class = "timedelta" -> BindDelta(v)
      [] class = "float"     -> BindFloat(v)
      [] class \in {"bytes", "bytearray"} -> BindBytes(v)
      [] class = "UUID"      -> BindUUID(v)
      [] class = "list"      -> BindArray(v)

Bind(v) ==
    LET passed == {i \in DOMAIN Checks : IsInstance(v, Checks[i])}
    IN  IF passed = {} THEN Raised ELSE BindAs(Checks[Min(passed)], v)

---------------------------------------------------------------------------
(* The backend (external): what it makes of a parameter ...                *)

TenTo[n \in Nat] == IF n = 0 THEN 1 ELSE 10 * TenTo[n - 1]

(* The numeric a decimal means: an exponent is multiplied out, and there   *)
(* is no negative zero.                                                    *)
NumericOf(d) ==
    IF d[1] # "number" THEN <<d[1], FALSE, 0, 0>>
    ELSE <<"number", d[2] /\ d[3] # 0,
           IF d[4] < 0 THEN d[3] * TenTo[-d[4]] ELSE d[3], Max({0, d[4]})>>

Array(items) == <<IF items = <<>> THEN 0 ELSE 1, items>>

ReceiveElement(e, cb) ==
    IF Class(e) = "int" THEN <<"int", Signed(Content(e), Limit(cb))>> ELSE e

Receive(type, x) ==
    CASE type = "int2" -> <<type, Signed(x, SmallLimit)>>
      [] type = "int4" -> <<type, Signed(x, IntLimit)>>
      [] type \in {"int8", "timestamp"} -> <<type, Signed(x, LongLimit)>>
      [] type = "date" -> <<type, Signed(x, IntLimit)>>
      [] type = "interval" -> <<type, <<x[1], Signed(x[2], IntLimit), x[3]>>>>
      [] type = "numeric" ->
           IF x[1] = "Infinity" THEN Raised ELSE <<type, NumericOf(x)>>
      [] type = "text[]" ->
           IF \E i \in Present(x[2]) : "nul" \in ToSet(Content(x[2][i]))
           THEN Raised ELSE <<type, Array(x[2])>>
      [] type \in {"int2[]", "int4[]", "int8[]"} ->
           <<type, Array([i \in DOMAIN x[2] |-> ReceiveElement(x[2][i], x[1])])>>
      [] type = "unspecified" -> Raised
      [] OTHER -> <<type, x>>

(* ... and how it sends a numeric: groups of four digits, those before the *)
(* decimal point aligned to it, without zero groups at either end.         *)
Aligned(n) == n[3] * TenTo[4 * ((n[4] + 3) \div 4) - n[4]]

SendNumeric(n) ==
    LET fraction == (n[4] + 3) \div 4
        m == Aligned(n)
        all == [i \in 1..MaxGroups |-> (m \div TenTo[4 * (MaxGroups - i)]) % TenTo[4]]
        used == {i \in 1..MaxGroups : all[i] # 0}
    IN  [kind |-> n[1], negative |-> n[2], dscale |-> n[4],
         weight |-> IF used = {} THEN 0 ELSE MaxGroups - Min(used) - fraction,
         digits |-> IF used = {} THEN <<>> ELSE SubSeq(all, Min(used), Max(used))]

SendElement(e, limit) ==
    IF Class(e) = "int" THEN <<"int", Unsigned(Content(e), limit)>> ELSE e
SendArray(x, limit) == <<x[1], [i \in DOMAIN x[2] |-> SendElement(x[2][i], limit)]>>

Send(type, x) ==
    CASE type = "int2" -> Unsigned(x, SmallLimit)
      [] type \in {"int4", "date"} -> Unsigned(x, IntLimit)
      [] type \in {"int8", "timestamp", "money"} -> Unsigned(x, LongLimit)
      [] type = "interval" -> <<x[1], Unsigned(x[2], IntLimit), x[3]>>
      [] type = "numeric" -> SendNumeric(x)
      [] type = "int4[]" -> SendArray(x, IntLimit)
      [] type = "int8[]" -> SendArray(x, LongLimit)
      [] OTHER -> x

(* As text, a date is printed with its year, counted from 1 in both        *)
(* directions, and bytes in hexadecimal.                                   *)
Civil(day) ==
    LET about == (400 * day) \div 146097 + 2000
    IN  CHOOSE date \in ((about - 1)..(about + 1)) \X (1..12) \X (1..31) :
           date[3] <= DaysInMonth(date[1], date[2]) /\ DayNumber(date) = day

SendText(type, x) ==
    CASE type = "date" -> LET date == Civil(x)
                          IN  IF date[1] > 0 THEN date ELSE [date EXCEPT ![1] = 1 - @]
      [] type \in {"bytea", "uuid"} -> <<"hex", x[2]>>
      [] OTHER -> x

---------------------------------------------------------------------------
(* Results.  Each Get operator gives the value of Python that comes of     *)
(* what is on the wire.                                                    *)

(* Constructors of Python, which refuse what is out of range.              *)
MakeDate(date) == IF IsDate(date) THEN <<"date", date>> ELSE Raised
MakeTime(t) == IF t[1] < Hours THEN <<"time", t>> ELSE Raised
MakeDateTime(date, t) ==
    IF IsDate(date) THEN <<"datetime", date \o t>> ELSE Raised
MakeDelta(days, seconds) ==
    <<"timedelta", <<days + seconds \div SecondsPerDay, seconds % SecondsPerDay, 0>>>>

(* The text of the number gets its point before the last two digits.       *)
GetCash(u) ==
    LET n == Signed(u, LongLimit)
    IN  <<"Decimal", <<"number", n < 0, IF n < 0 THEN -n ELSE n, 2>>>>

(* A group of digits beyond those that were sent is zero ...               *)
Group(digits, i) == IF i \in DOMAIN digits THEN digits[i] ELSE 0

(* ... and so many groups behind the first ones are a number.              *)
Number(digits, first, count) ==
    LET Total[k \in Nat] ==
            IF k = 0 THEN 0 ELSE TenTo[4] * Total[k - 1] + Group(digits, first + k)
    IN  Total[count]

(* A weight below -1 is taken for -1; no digit at all is an empty text,    *)
(* which is refused.                                                       *)
GetNumeric(n) ==
    LET before == IF n.weight >= 0 THEN n.weight + 1 ELSE 0
        after == (n.dscale + 3) \div 4
        whole == Number(n.digits, 0, before)
        fraction == Number(n.digits, before, after) \div TenTo[4 * after - n.dscale]
    IN  IF n.kind = "NaN" THEN <<"Decimal", <<"NaN", FALSE, 0, 0>>>>
        ELSE IF whole = 0 /\ n.dscale = 0 THEN Raised
        ELSE <<"Decimal", <<"number", n.negative,
                            whole * TenTo[n.dscale] + fraction, n.dscale>>>>

(* Mutant of GetDate: the epoch is not added.                              *)
GetDateWithoutEpoch(u) == MakeDate(julianToDate(Signed(u, IntLimit)))
GetDate(u) ==
    MakeDate(julianToDate(Signed(Unsigned(u + JULIAN_START, IntLimit), IntLimit)))

(* The time of day in a number of microseconds, and the days.              *)
TimeOf(n) ==
    LET s == n \div Micros
        m == s \div Seconds
        h == m \div Minutes
    IN  <<h, m % Minutes, s % Seconds, n % Micros>>

GetTime(n) == MakeTime(TimeOf(n))

(* The number is read as unsigned.                                         *)
GetTimestamp(u) ==
    LET t == TimeOf(u)
    IN  MakeDateTime(julianToDate(t[1] \div Hours + JULIAN_START),
                     [t EXCEPT ![1] = @ % Hours])

(* Fractions of a second and hours beyond a day are dropped.               *)
GetInterval(x) ==
    LET s == Quot(x[3], Micros)
        m == Quot(s, Seconds)
        seconds == Rem(s, Seconds) + Seconds * Rem(m, Minutes)
                   + Seconds * Minutes * Rem(Quot(m, Minutes), Hours)
    IN  IF x[1] # 0 THEN Raised ELSE MakeDelta(Signed(x[2], IntLimit), seconds)

(* Mutant of GetElement: the element loses its sign.                       *)
GetUnsignedElement(e, limit) == e
GetElement(e, limit) ==
    IF Class(e) = "int" THEN <<"int", Signed(Content(e), limit)>> ELSE e
(* Only arrays of one dimension; an empty array has none.                  *)
GetArray(x, limit) ==
    IF x[1] # 1 THEN Raised
    ELSE <<"list", [i \in DOMAIN x[2] |-> GetElement(x[2][i], limit)]>>

(* All other types come as the bytes that were sent, among them int2[].    *)
ConvertValue(type, p) ==
    CASE type = "NULL"      -> None
      [] type = "text"      -> <<"str", CString(p)>>
      [] type = "int2"      -> <<"int", Signed(p, SmallLimit)>>
      [] type = "int4"      -> <<"int", Signed(p, IntLimit)>>
      [] type = "int8"      -> <<"int", Signed(p, LongLimit)>>
      [] type = "numeric"   -> GetNumeric(p)
      [] type = "money"     -> GetCash(p)
      [] type = "date"      -> GetDate(p)
      [] type = "time"      -> GetTime(p)
      [] type \in {"float4", "float8"} -> <<"float", p>>
      [] type = "timestamp" -> GetTimestamp(p)
      [] type = "bool"      -> <<"bool", p>>
      [] type = "uuid"      -> <<"UUID", p>>
      [] type = "int4[]"    -> GetArray(p, IntLimit)
      [] type = "int8[]"    -> GetArray(p, LongLimit)
      [] type = "text[]"    -> GetArray(p, LongLimit)
      [] type = "interval"  -> GetInterval(p)
      [] OTHER              -> <<"bytes", p>>

(* A column in text.  Numbers, truth values and dates are parsed; numerics *)
(* are refused; the rest is decoded as if it were binary, which gives a    *)
(* time or a timestamp far out of range, no array header, and in uuid the  *)
(* first characters of the text.                                           *)
ConvertText(type, p) ==
    CASE type = "date" -> MakeDate(p)
      [] type \in {"numeric", "money", "time", "timestamp",
                   "int4[]", "int8[]", "text[]"} -> Raised
      [] type \in {"int2", "int4", "int8"} -> <<"int", p>>
      [] OTHER -> ConvertValue(type, p)

(* An interval in text is shorter than the struct it is read as.           *)
Garbled(c, f) == Class(c) = "interval" /\ f = "text"
Garbage == <<"garbage", 0>>

Outcomes(c, f) ==
    IF Garbled(c, f) THEN {Raised, Garbage}
    ELSE IF f = "text" THEN {ConvertText(Class(c), SendText(Class(c), Content(c)))}
    ELSE {ConvertValue(Class(c), Send(Class(c), Content(c)))}

---------------------------------------------------------------------------
(* What a program can pass: a str is a sequence of characters, and dates   *)
(* and times are in the ranges of Python.                                  *)
IsClock(h, m, s, us) ==
    h \in 0..(Hours - 1) /\ m \in 0..(Minutes - 1) /\ s \in 0..(Seconds - 1) /\ us \in 0..(Micros - 1)

IsScalar(v) ==
    LET x == Content(v)
    IN  /\ Class(v) = "None" => v = None
        /\ Class(v) = "bool" => x \in BOOLEAN
        /\ Class(v) = "int" => x \in Int
        /\ Class(v) = "str" => x \in Seq(STRING)
        /\ Class(v) \in {"bytes", "bytearray", "UUID"} => x[1] = "raw"

IsSequence(s) == s \in Seq(ToSet(s))

(* Its digits are in no more than MaxGroups groups.                        *)
HasGroups(x) == Aligned(x) \div TenTo[4 * (MaxGroups - 1)] < TenTo[4]

(* A numeric has no negative zero.                                         *)
IsNumeric(x) ==
    \/ x = <<"NaN", FALSE, 0, 0>>
    \/ /\ x = <<"number", x[2], x[3], x[4]>>
       /\ x[2] \in BOOLEAN /\ x[3] \in Nat /\ x[4] \in Nat
       /\ x[2] => x[3] # 0
       /\ HasGroups(x)

IsDecimal(x) ==
    /\ x[1] \in {"number", "NaN", "Infinity"}
    /\ x[1] = "number" =>
          x[2] \in BOOLEAN /\ x[3] \in Nat /\ x[4] \in Int /\ HasGroups(NumericOf(x))

IsParam(v) ==
    LET x == Content(v)
    IN  /\ IsScalar(v)
        /\ Class(v) = "Decimal" => IsDecimal(x)
        /\ Class(v) = "date" => IsDate(x)
        /\ Class(v) \in {"time", "timetz"} => IsClock(x[1], x[2], x[3], x[4])
        /\ Class(v) \in {"datetime", "datetimetz"} =>
              IsDate(x) /\ IsClock(x[4], x[5], x[6], x[7])
        /\ Class(v) = "timedelta" => Fits(x[1], IntLimit) /\ {x[1], x[2], x[3]} \subseteq Int
        /\ Class(v) = "list" => IsSequence(x) /\ \A i \in DOMAIN x : IsScalar(x[i])

(* The types of the model, where "other" stands for all that the code does  *)
(* not know.                                                               *)
Types == {"NULL", "bool", "int2", "int4", "int8", "float4", "float8", "numeric",
          "money", "text", "bytea", "uuid", "date", "time", "timestamp", "interval",
          "int2[]", "int4[]", "int8[]", "text[]", "other"}

(* What the backend can hold: a text has no NUL, an integer the width of   *)
(* its type, an array elements of its type, but none without dimensions.   *)
IsInteger(n, limit) == n \in Int /\ Fits(n, limit)

IsArray(x) ==
    x = <<x[1], x[2]>> /\ IsSequence(x[2]) /\ (x[1] = 0 <=> x[2] = <<>>)

IsIntegers(x, limit) ==
    /\ IsArray(x)
    /\ \A i \in DOMAIN x[2] :
          \/ x[2][i] = None
          \/ x[2][i] = <<"int", Content(x[2][i])>> /\ IsInteger(Content(x[2][i]), limit)

IsTexts(x) ==
    /\ IsArray(x)
    /\ \A i \in DOMAIN x[2] : x[2][i] = None \/ Class(x[2][i]) = "str"

IsColumn(c) ==
    LET x == Content(c)
    IN  /\ Class(c) \in Types
        /\ Class(c) = "text" => x \in Seq(STRING) /\ "nul" \notin ToSet(x)
        /\ Class(c) = "int2" => IsInteger(x, SmallLimit)
        /\ Class(c) \in {"int4", "date"} => IsInteger(x, IntLimit)
        /\ Class(c) \in {"int8", "money", "timestamp"} => IsInteger(x, LongLimit)
        /\ Class(c) \in {"bytea", "uuid"} => x[1] = "raw"
        /\ Class(c) = "numeric" => IsNumeric(x)
        /\ Class(c) = "time" => x \in 0..TicksPerDay
        /\ Class(c) = "interval" => {x[1], x[2], x[3]} \subseteq Int /\ Fits(x[2], IntLimit)
        /\ Class(c) = "int4[]" => IsIntegers(x, IntLimit)
        /\ Class(c) = "int8[]" => IsIntegers(x, LongLimit)
        /\ Class(c) = "text[]" => IsTexts(x)

ASSUME ParamsAssumption == \A v \in Params : IsParam(v)

ASSUME ColumnsAssumption == \A c \in Columns \cup TextColumns : IsColumn(c)

(* The days of all dates fit an integer, in which a date is sent, and      *)
(* their ticks a bigint.  A number of days that lost its sign is so large  *)
(* that its ticks do not fit, and what is left of them is off.             *)
ASSUME RangesAssumption ==
    /\ JULIAN_START + LastDay < IntLimit
    /\ (LastDay + 1) * TicksPerDay <= LongLimit
    /\ \A days \in -2..10 : ((2 * IntLimit + days) * TicksPerDay) % (2 * LongLimit) # 0

---------------------------------------------------------------------------
Init ==
    /\ stage = "start"
    /\ param = Nothing
    /\ wire = Nothing
    /\ pending = FALSE
    /\ column = Nothing
    /\ format = "binary"
    /\ result = Nothing

(* BindParams: the parameter is bound, and the query sent, or refused.     *)
BindParams ==
    /\ stage = "start"
    /\ \E v \in Params :
          /\ param' = v
          /\ wire' = Bind(v)
          /\ pending' = LeavesException(v)
    /\ stage' = IF wire' = Raised THEN "raised" ELSE "bound"
    /\ UNCHANGED <<column, format, result>>

(* The backend executes the query, which returns its parameter.            *)
Execute ==
    /\ stage = "bound"
    /\ LET c == Receive(Class(wire), Content(wire))
       IN  IF c = Raised THEN stage' = "raised" /\ UNCHANGED column
                         ELSE stage' = "held" /\ column' = c
    /\ UNCHANGED <<param, wire, pending, format, result>>

(* Or a query without a parameter returns what the database holds.         *)
Select ==
    /\ stage = "start"
    /\ \/ column' \in Columns /\ format' = "binary"
       \/ column' \in TextColumns /\ format' = "text"
    /\ stage' = "held"
    /\ UNCHANGED <<param, wire, pending, result>>

(* The value of the column is read, unless the call ends with an exception *)
(* that was set when its parameter was bound.                              *)
ReadColumn ==
    /\ stage = "held"
    /\ \E r \in IF pending THEN {Raised} ELSE Outcomes(column, format) :
          /\ result' = r
          /\ stage' = IF r = Raised THEN "raised" ELSE "got"
    /\ UNCHANGED <<param, wire, pending, column, format>>

NextCall ==
    /\ stage \in {"got", "raised"}
    /\ stage' = "start"
    /\ param' = Nothing
    /\ wire' = Nothing
    /\ pending' = FALSE
    /\ column' = Nothing
    /\ format' = "binary"
    /\ result' = Nothing

Next ==
    \/ BindParams
    \/ Execute
    \/ Select
    \/ ReadColumn
    \/ NextCall

Spec == Init /\ [][Next]_vars

---------------------------------------------------------------------------
(* The stages, and integers on the wire that are within their bits.        *)
TypeOK ==
    /\ stage \in {"start", "bound", "held", "got", "raised"}
    /\ pending \in BOOLEAN
    /\ format \in {"binary", "text"}
    /\ Class(wire) = "int2" => Content(wire) \in 0..(2 * SmallLimit - 1)
    /\ Class(wire) \in {"int4", "date"} => Content(wire) \in 0..(2 * IntLimit - 1)
    /\ Class(wire) \in {"int8", "timestamp"} => Content(wire) \in 0..(2 * LongLimit - 1)

(* What a value of Python means in the backend.  No time or timestamp      *)
(* without time zone, which is all that is sent, means an aware one.       *)
Elements(v) ==
    [i \in DOMAIN Content(v) |->
        IF IsInt(Content(v)[i]) THEN <<"int", AsInt(Content(v)[i])>> ELSE Content(v)[i]]

Ticks(h, m, s, us) == ((h * Minutes + m) * Seconds + s) * Micros + us

Denotes(v, c) ==
    LET x == Content(v)
        y == Content(c)
        type == Class(c)
    IN  CASE Class(v) = "None" -> type = "NULL"
          [] Class(v) = "bool" -> type = "bool" /\ x = y
          [] Class(v) = "int" -> type \in {"int2", "int4", "int8"} /\ x = y
          [] Class(v) = "str" -> type = "text" /\ x = y
          [] Class(v) = "Decimal" ->
               \/ type = "numeric" /\ NumericOf(x) = y
               \/ /\ type = "money" /\ x[1] = "number" /\ x[4] = 2
                  /\ y = IF x[2] THEN -x[3] ELSE x[3]
          [] Class(v) = "float" -> type \in {"float4", "float8"} /\ x = y
          [] Class(v) \in {"bytes", "bytearray"} -> type \in {"bytea", "other"} /\ x = y
          [] Class(v) = "UUID" -> type = "uuid" /\ x = y
          [] Class(v) = "date" -> type = "date" /\ DayNumber(x) = y
          [] Class(v) = "time" -> type = "time" /\ Ticks(x[1], x[2], x[3], x[4]) = y
          [] Class(v) = "datetime" ->
               type = "timestamp"
               /\ DayNumber(x) * TicksPerDay + Ticks(x[4], x[5], x[6], x[7]) = y
          [] Class(v) = "timedelta" ->
               /\ type = "interval" /\ y[1] = 0
               /\ x[1] * TicksPerDay + x[2] * Micros + x[3] = y[2] * TicksPerDay + y[3]
          [] Class(v) = "list" ->
               /\ type \in {"int2[]", "int4[]", "int8[]", "text[]"}
               /\ Array(Elements(v)) = y
          [] OTHER -> FALSE

(* The parameters that the code changes on their way: a datetime or a time *)
(* that is aware, whose offset is lost; a datetime before 2000; a date     *)
(* before the Gregorian calendar began (in the third century both          *)
(* calendars agree); a str with a NUL; an int in a list that no bigint     *)
(* holds.                                                                  *)
Mangled(v) ==
    \/ Class(v) \in {"datetimetz", "timetz"}
    \/ Class(v) = "datetime" /\ DayNumber(Content(v)) < 0
    \/ /\ Class(v) = "date"
       /\ DayNumber(Content(v)) < DayNumber(<<1582, 10, 15>>)
       /\ DayNumber(Content(v)) \notin DayNumber(<<200, 3, 1>>)..DayNumber(<<300, 2, 28>>)
    \/ Class(v) = "str" /\ "nul" \in ToSet(Content(v))
    \/ Class(v) = "list" /\ \E i \in Present(Content(v)) :
          IsInt(Content(v)[i]) /\ MinLongSize(Content(v)[i]) = 0

(* The backend holds the value that the program passed, except for those   *)
(* that BindParams is known to change, and it does change all of these.    *)
ParamsExact ==
    param # Nothing /\ column # Nothing => (Denotes(param, column) <=> ~Mangled(param))

(* The columns that the code reads wrong: a numeric below 0.0001; an       *)
(* interval of a day of hours or with a fraction of a second; smallint[];  *)
(* in text, bytes, and a date BC.                                          *)
Misread(c, f) ==
    LET x == Content(c)
    IN  \/ /\ Class(c) = "numeric" /\ x[1] = "number"
           /\ x[3] > 0 /\ x[4] > 4 /\ x[3] < TenTo[x[4] - 4]
        \/ /\ Class(c) = "interval"
           /\ x[3] % Micros # 0 \/ x[3] \notin (1 - TicksPerDay)..(TicksPerDay - 1)
        \/ Class(c) = "int2[]"
        \/ f = "text" /\ Class(c) \in {"bytea", "uuid"}
        \/ f = "text" /\ Class(c) = "date" /\ x < FirstDay
        \/ Garbled(c, f)

(* What the program gets is the value that the backend holds, except for   *)
(* the columns that ConvertValue is known to read wrong, all of which it   *)
(* does.                                                                   *)
ResultsExact ==
    stage = "got" => (Denotes(result, column) <=> ~Misread(column, format))

(* The columns that the code cannot read: a date or timestamp beyond those *)
(* of Python; a timestamp before 2000; 24:00; zero without decimals; an    *)
(* interval with months; an empty array or one of several dimensions; the  *)
(* one day that julianToDate gets wrong; most types in text.               *)
Unreadable(c, f) ==
    LET x == Content(c)
    IN  \/ /\ Class(c) = "date" /\ f = "binary"
           /\ \/ x \notin FirstDay..LastDay
              \/ x = DayNumber(<<300, 3, 1>>)
        \/ Class(c) = "date" /\ f = "text" /\ ~IsDate(SendText("date", x))
        \/ Class(c) = "timestamp" /\ x \notin 0..((LastDay + 1) * TicksPerDay - 1)
        \/ Class(c) = "time" /\ x = TicksPerDay
        \/ Class(c) = "numeric" /\ x = <<"number", FALSE, 0, 0>>
        \/ Class(c) = "interval" /\ x[1] # 0
        \/ Class(c) \in {"int4[]", "int8[]", "text[]"} /\ x[1] # 1
        \/ f = "text" /\ Class(c) \in {"numeric", "money", "time", "timestamp",
                                       "int4[]", "int8[]", "text[]"}

(* Every column but these can be read, whatever the query's parameter was, *)
(* unless binding it left an exception.                                    *)
Readable ==
    stage \in {"got", "raised"} /\ column # Nothing /\ ~pending /\ ~Garbled(column, format)
        => (stage = "got" <=> ~Unreadable(column, format))
===========================================================================
