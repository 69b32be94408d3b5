------------------------------- MODULE NsTime -------------------------------
(***************************************************************************)
(* Time as the engine compares it: a ULONG of seconds since 1970, made of  *)
(* the DateStamp of a local file (src/nssync.c) and of the date the server *)
(* lists (src/nsdav.c), with proofs that no time is mistaken for another.  *)
(***************************************************************************)
EXTENDS Integers, TLAPS

ULong == 4294967296     \* 2^32
AmigaEpoch == 252460800 \* 1978-01-01

(***************************************************************************)
(* DateStamps: days since 1978, minutes of the day, 1/50 seconds           *)
(***************************************************************************)
DateStamps == [days : Nat, minute : 0..1439, tick : 0..2999]

ds2unix(ds) ==
  (AmigaEpoch + ds.days * 86400 + ds.minute * 60 + ds.tick \div 50) % ULong

unix2ds(t) ==
  LET s == IF t < AmigaEpoch THEN 0 ELSE t - AmigaEpoch
  IN [days |-> s \div 86400, minute |-> (s % 86400) \div 60, tick |-> (s % 60) * 50]

\* The time given to a file after a download is the server's, to the second,
\* and a time before 1978 is the first of that year.
THEOREM FileTimeKept ==
  ASSUME NEW t \in Nat, t < ULong
  PROVE  /\ unix2ds(t) \in DateStamps
         /\ ds2unix(unix2ds(t)) = IF t < AmigaEpoch THEN AmigaEpoch ELSE t
<1> DEFINE s == IF t < AmigaEpoch THEN 0 ELSE t - AmigaEpoch
           d == s \div 86400
           m == (s % 86400) \div 60
           k == (s % 60) * 50
<1>1. /\ s \in Nat /\ AmigaEpoch + s < ULong /\ AmigaEpoch \in Nat /\ ULong \in Nat
      /\ AmigaEpoch + s = IF t < AmigaEpoch THEN AmigaEpoch ELSE t
  BY SMT DEF AmigaEpoch, ULong
<1>2. unix2ds(t) = [days |-> d, minute |-> m, tick |-> k]
  BY DEF unix2ds
<1> HIDE DEF s
<1>3. d \in Nat /\ m \in 0..1439 /\ k \in 0..2999 /\ s % 60 \in 0..59
  <2>1. s % 86400 \in Nat /\ s % 86400 < 86400
    BY <1>1, SMT
  <2>2. s % 60 \in 0..59
    BY <1>1, SMT
  <2>3. m \in 0..1439
    <3>1. \A x \in Nat : x < 86400 => x \div 60 \in Nat /\ x \div 60 < 1440
      BY SMT
    <3>2. m \in Nat /\ m < 1440
      BY <2>1, <3>1, SMT
    <3> QED BY <3>2, SMT
  <2>4. s \div 86400 \in Nat
    BY <1>1, SMT
  <2> QED BY <2>2, <2>3, <2>4, SMT
<1>4. k \div 50 = s % 60
  BY <1>3, SMT
<1>5. d * 86400 + m * 60 + (s % 60) = s
  <2>1. d * 86400 + (s % 86400) = s /\ s % 86400 \in Nat
    BY <1>1, SMT
  <2>2. ((s % 86400) \div 60) * 60 + ((s % 86400) % 60) = s % 86400
    BY <2>1, SMT
  <2>3. (s % 86400) % 60 = s % 60
    BY <1>1, SMT
  <2> QED BY <1>1, <1>3, <2>1, <2>2, <2>3, SMT
<1> HIDE DEF d, m, k
<1>6. ds2unix(unix2ds(t)) = (AmigaEpoch + s) % ULong
  <2>1. AmigaEpoch + d * 86400 + m * 60 + (s % 60) = AmigaEpoch + s
    BY <1>1, <1>3, <1>5, SMT
  <2>2. ds2unix(unix2ds(t)) = (AmigaEpoch + d * 86400 + m * 60 + k \div 50) % ULong
    BY <1>2, SMT DEF ds2unix
  <2> QED BY <1>4, <2>1, <2>2
<1>7. (AmigaEpoch + s) % ULong = AmigaEpoch + s
  BY <1>1, SMT
<1>8. unix2ds(t) \in DateStamps
  BY <1>2, <1>3, SMT DEF DateStamps
<1> QED BY <1>1, <1>6, <1>7, <1>8

(***************************************************************************)
(* The dates of HTTP                                                       *)
(***************************************************************************)
mdays == <<0, 31, 59, 90, 120, 151, 181, 212, 243, 273, 304, 334>>

Leap(year) == (year % 4 = 0 /\ year % 100 # 0) \/ year % 400 = 0

\* days in parse_http_date(); months are counted from 1.
DayNumber(year, month, day) ==
  (year - 1970) * 365
    + (year - 1969) \div 4 - (year - 1901) \div 100 + (year - 1601) \div 400
    + mdays[month] + day - 1 + (IF month >= 3 /\ Leap(year) THEN 1 ELSE 0)

Seconds(days, hh, mm, ss) == (days * 86400 + hh * 3600 + mm * 60 + ss) % ULong

\* The calendar.
MonthLength(year, month) ==
  IF month = 2 THEN IF Leap(year) THEN 29 ELSE 28
  ELSE IF month \in {4, 6, 9, 11} THEN 30 ELSE 31

\* The year that follows begins as many days later as the year has.
LEMMA YearLength ==
  ASSUME NEW year \in Nat, year >= 1970
  PROVE  DayNumber(year + 1, 1, 1) = DayNumber(year, 12, 31) + 1
<1>1. (year + 1 - 1969) \div 4 = (year - 1969) \div 4 + (IF year % 4 = 0 THEN 1 ELSE 0)
  BY SMT
<1>2. (year + 1 - 1901) \div 100 = (year - 1901) \div 100 + (IF year % 100 = 0 THEN 1 ELSE 0)
  BY SMT
<1>3. (year + 1 - 1601) \div 400 = (year - 1601) \div 400 + (IF year % 400 = 0 THEN 1 ELSE 0)
  BY SMT
<1>4. (year % 400 = 0 => year % 100 = 0) /\ (year % 100 = 0 => year % 4 = 0)
  BY SMT
<1>5. mdays[1] = 0 /\ mdays[12] = 334
  BY SMT DEF mdays
<1> QED BY SMT, <1>1, <1>2, <1>3, <1>4, <1>5 DEF DayNumber, Leap

\* parse_http_date() counts the days of the calendar, from 1970 on: a day is
\* one more than the day before, over the ends of months and years.
THEOREM DatesAreCounted ==
  /\ DayNumber(1970, 1, 1) = 0
  /\ \A year \in Nat, month \in 1..12 : year >= 1970 =>
       /\ \A day \in 1..30 : DayNumber(year, month, day + 1) = DayNumber(year, month, day) + 1
       /\ month < 12 => DayNumber(year, month + 1, 1)
                          = DayNumber(year, month, MonthLength(year, month)) + 1
       /\ month = 12 => DayNumber(year + 1, 1, 1)
                          = DayNumber(year, month, MonthLength(year, month)) + 1
<1>1. DayNumber(1970, 1, 1) = 0
  BY SMT DEF DayNumber, mdays
<1>2. ASSUME NEW year \in Nat, NEW month \in 1..12, NEW day \in 1..30, year >= 1970
      PROVE  DayNumber(year, month, day + 1) = DayNumber(year, month, day) + 1
  <2>1. mdays[month] \in Nat
    BY SMT DEF mdays
  <2> QED BY SMT, <2>1 DEF DayNumber
<1>3. ASSUME NEW year \in Nat, NEW month \in 1..11, year >= 1970
      PROVE  DayNumber(year, month + 1, 1) = DayNumber(year, month, MonthLength(year, month)) + 1
  <2>1. /\ mdays[month] \in Nat /\ mdays[month + 1] \in Nat
        /\ mdays[month + 1] = mdays[month] + (IF month = 2 THEN 28 ELSE IF month \in {4, 6, 9, 11} THEN 30 ELSE 31)
    BY SMT DEF mdays
  <2>2. CASE month = 2
    BY SMT, <2>1, <2>2 DEF DayNumber, MonthLength
  <2>3. CASE month # 2
    BY SMT, <2>1, <2>3 DEF DayNumber, MonthLength
  <2> QED BY SMT, <2>2, <2>3
<1>4. ASSUME NEW year \in Nat, year >= 1970
      PROVE  DayNumber(year + 1, 1, 1) = DayNumber(year, 12, MonthLength(year, 12)) + 1
  BY SMT, <1>4, YearLength DEF MonthLength
<1> QED BY SMT, <1>1, <1>2, <1>3, <1>4

\* Until 2106 a ULONG holds the seconds, and tells times of day apart.
THEOREM SecondsAreExact ==
  ASSUME NEW days \in Nat, days < 49710, NEW hh \in 0..23, NEW mm \in 0..59, NEW ss \in 0..59
  PROVE  /\ Seconds(days, hh, mm, ss) = days * 86400 + hh * 3600 + mm * 60 + ss
         /\ Seconds(days, hh, mm, ss) \div 86400 = days
<1> DEFINE n == days * 86400 + hh * 3600 + mm * 60 + ss
<1>1. n \in Nat /\ n < ULong /\ ULong \in Nat
  BY SMT DEF ULong
<1>2. n \div 86400 = days
  BY SMT
<1> SUFFICES Seconds(days, hh, mm, ss) = n
  BY <1>2, SMT
<1> HIDE DEF n
<1>3. n % ULong = n
  BY <1>1, SMT
<1>4. Seconds(days, hh, mm, ss) = n % ULong
  BY SMT DEF Seconds, n
<1> QED BY <1>3, <1>4, SMT
=============================================================================
