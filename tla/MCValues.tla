------------------------------ MODULE MCValues ------------------------------
(* Instances of Values for TLC.                                            *)
EXTENDS Values

(* Years at the edges of the calendars, of Python and of the formulas.     *)
Years == {1, 2, 4, 99, 100, 199, 200, 201, 299, 300, 301, 400, 1000, 1100, 1500,
          1581, 1582, 1583, 1600, 1700, 1899, 1900, 1999, 2000, 2001, 2004, 2100,
          2400, 9996, 9999}

Dates == {date \in Years \X (1..12) \X (1..31) : IsDate(date)}

EdgeDates == {date \in Dates : date[2] \in {1, 2, 3, 12} /\ date[3] \in {1, 28, 29, 31}}

Times == {<<0, 0, 0, 0>>, <<0, 0, 0, 1>>, <<0, 1, 2, 0>>, <<1, 2, 3, 3>>}

(* Offsets of a tzinfo, in minutes.                                        *)
Zones == {-1, 0, 1}

Numbers ==
    LET edges == {0, SmallLimit, IntLimit, LongLimit}
    IN  {n + d : n \in edges, d \in -2..1} \cup {-n + d : n \in edges, d \in -2..1}

Ints == {<<"int", n>> : n \in Numbers}

Strings == {<<>>, <<"a">>, <<"a", "b">>, <<"nul", "a">>, <<"a", "nul">>, <<"a", "lone">>}

Strs == {<<"str", s>> : s \in Strings}

(* Lists of up to two elements.                                            *)
Elems == {None, <<"bool", TRUE>>, <<"float", "f">>} \cup Ints \cup Strs
Lists == {<<"list", s>> : s \in {<<>>} \cup {<<e>> : e \in Elems}
                                \cup {<<d, e>> : d, e \in Elems}}

(* Kind, sign, coefficient and scale.                                      *)
Coefficients == {0, 1, 9, 10, 12, 100, 1234, 9999, 10000, 10001, 123456, 999999}
Decimals == {<<"number", negative, c, s>> : negative \in BOOLEAN, c \in Coefficients, s \in -2..8}
            \cup {<<"NaN", FALSE, 0, 0>>, <<"Infinity", FALSE, 0, 0>>}
Numerics == {NumericOf(d) : d \in {e \in Decimals : e[1] # "Infinity" /\ e[4] >= 0}}

Bytes == {<<"raw", <<>>>>, <<"raw", <<"b">>>>}

SomeParams ==
    {None, <<"bool", TRUE>>, <<"bool", FALSE>>, <<"float", "f">>, <<"other", 0>>}
    \cup Ints \cup Strs \cup Lists
    \cup {<<"Decimal", d>> : d \in Decimals}
    \cup {<<class, b>> : class \in {"bytes", "bytearray", "UUID"}, b \in Bytes}
    \cup {<<"date", date>> : date \in Dates}
    \cup {<<"datetime", date \o t>> : date \in EdgeDates, t \in Times}
    \cup {<<"datetimetz", date \o t \o <<zone>>>> :
             date \in EdgeDates, t \in Times, zone \in Zones}
    \cup {<<"time", t>> : t \in Times}
    \cup {<<"timetz", t \o <<zone>>>> : t \in Times, zone \in Zones}
    \cup {<<"timedelta", <<days, seconds, us>>>> :
             days \in {-2, -1, 0, 1, 999}, seconds \in 0..(SecondsPerDay - 1), us \in {0, 1}}

Days == {DayNumber(date) : date \in Dates \cup {<<0, 12, 31>>, <<-4712, 1, 1>>, <<10000, 1, 1>>,
                                                <<12000, 2, 29>>}}

EdgeDays == {DayNumber(date) : date \in EdgeDates \cup {<<0, 2, 29>>, <<0, 12, 31>>, <<10000, 1, 1>>}}

ArraysOf(Es) == {<<dims, s>> : dims \in {1, 2}, s \in {<<e>> : e \in Es} \cup {<<d, e>> : d, e \in Es}}
                \cup {<<0, <<>>>>}

IntsOf(limit) == {None} \cup {i \in Ints : Fits(Content(i), limit)}

Scalars ==
    {Null, <<"bool", TRUE>>, <<"bool", FALSE>>, <<"float4", "f">>, <<"float8", "f">>}
    \cup {<<"int2", n>> : n \in {m \in Numbers : Fits(m, SmallLimit)}}
    \cup {<<"int4", n>> : n \in {m \in Numbers : Fits(m, IntLimit)}}
    \cup {<<type, n>> : type \in {"int8", "money"}, n \in {m \in Numbers : Fits(m, LongLimit)}}
    \cup {<<"text", s>> : s \in {<<>>, <<"a">>, <<"a", "b">>}}
    \cup {<<"numeric", n>> : n \in Numerics}
    \cup {<<type, b>> : type \in {"bytea", "uuid", "other"}, b \in Bytes}
    \cup {<<"time", n>> : n \in 0..TicksPerDay}
    \cup {<<"interval", <<months, days, n>>>> :
             months \in {-1, 0, 12}, days \in {-1, 0, 1},
             n \in (-2 * TicksPerDay)..(2 * TicksPerDay)}
    \cup {<<"timestamp", day * TicksPerDay + n>> :
             day \in EdgeDays, n \in {0, 1, TicksPerDay - 1}}
    \cup {<<"int2[]", a>> : a \in ArraysOf(IntsOf(SmallLimit))}
    \cup {<<"int4[]", a>> : a \in ArraysOf(IntsOf(IntLimit))}
    \cup {<<"int8[]", a>> : a \in ArraysOf(IntsOf(LongLimit))}
    \cup {<<"text[]", a>> : a \in ArraysOf({None, <<"str", <<>>>>, <<"str", <<"a">>>>})}

SomeColumns == Scalars \cup {<<"date", day>> : day \in Days}
SomeTextColumns == Scalars \cup {<<"date", day>> : day \in EdgeDays}

(* Datetimes that the two calendars do not tell apart.                     *)
Datetimes == {v \in SomeParams : Class(v) = "datetime" /\ Content(v)[1] >= 1600}
NoColumns == {}
===========================================================================
