--------------------------- MODULE X509DateUtils ---------------------------
(***************************************************************************)
(* How a certificate's dates become block times                            *)
(* (verifier/contracts/utils/X509DateUtils.sol), next to a calendar that   *)
(* counts the days.                                                        *)
(*                                                                         *)
(* A date in a certificate is a sequence of characters, each represented   *)
(* by its distance from '0', as the code subtracts 48 from every one.      *)
(***************************************************************************)
EXTENDS Integers, Sequences

CONSTANT LastYear   \* bound on the calendar; no date after 2299 can be read

ASSUME CalendarAssumption == LastYear \in 1970 .. 2299

MaxUint8  == 255
MaxUint16 == 256 * 256 - 1

\* Mutated form of isLeapYear: every fourth year.
isLeapYearJulian(year) == year % 4 = 0

isLeapYear(year) == year % 4 = 0 /\ (year % 100 # 0 \/ year % 400 = 0)

monthDays(year, i) ==
    IF i = 2 /\ isLeapYear(year) THEN 29
    ELSE <<31, 28, 31, 30, 31, 30, 31, 31, 30, 31, 30, 31>>[i]

\* A loop that adds up: what it has after each round.
Sums(length, n) ==
    LET sum[i \in 0 .. n] == IF i = 0 THEN 0 ELSE sum[i - 1] + length[i]
    IN  sum

MaxYears == MaxUint16 - 1970

\* The years of 31622400 and 31536000 seconds have 366 and 365 days.
yearLengths == [i \in 1 .. MaxYears |-> IF isLeapYear(1969 + i) THEN 366 ELSE 365]

monthLengths(year) == [i \in 1 .. 12 |-> monthDays(year, i)]

\* The loops over the years since 1970 and over the months of the year.  A time is
\* <<days, seconds>>, for the number days * 86400 + seconds (TLC's integers end in 2038).
toUnixTimestamp(year, month, day, hour, minute, second) ==
    << Sums(yearLengths, MaxYears)[IF year < 1970 THEN 0 ELSE year - 1970]
         + Sums(monthLengths(year), 12)[month - 1]
         + (day - 1),
       hour * 3600 + minute * 60 + second >>

----------------------------------------------------------------------------
\* UTCTime is YYMMDDHHMMSSZ, GeneralizedTime YYYYMMDDHHMMSSZ.
IsUTCTime(x509Time) == Len(x509Time) = 13

\* Where the last two digits of the year are.
Offset(x509Time) == IF IsUTCTime(x509Time) THEN 0 ELSE 2

TwoDigits(x509Time, i) ==
    x509Time[Offset(x509Time) + i] * 10 + x509Time[Offset(x509Time) + i + 1]

\* The century: a product of two uint8 operands is a uint8 and reverts when it overflows,
\* which the second digit of a four-digit year does from 3 on.
CenturyReverts(x509Time) == ~IsUTCTime(x509Time) /\ x509Time[2] * 100 > MaxUint8

Century(x509Time) ==
    IF IsUTCTime(x509Time)
    THEN IF x509Time[1] < 5 THEN 2000 ELSE 1900
    ELSE x509Time[1] * 1000 + x509Time[2] * 100

toTimestamp(x509Time) ==
    toUnixTimestamp(Century(x509Time) + TwoDigits(x509Time, 1),
                    TwoDigits(x509Time, 3), TwoDigits(x509Time, 5),
                    TwoDigits(x509Time, 7), TwoDigits(x509Time, 9), TwoDigits(x509Time, 11))

----------------------------------------------------------------------------
(* A calendar that counts days, independent of the code above. *)

VARIABLES year, month, day, days   \* the date, and the days since 1 January 1970

calendarVars == <<year, month, day, days>>

LastDay ==
    CASE month \in {4, 6, 9, 11} -> 30
      [] month = 2 /\ (year % 4 # 0 \/ year \in {2100, 2200, 2300}) -> 28
      [] month = 2 /\ year % 4 = 0 /\ year \notin {2100, 2200, 2300} -> 29
      [] OTHER -> 31

FirstDate == year = 1970 /\ month = 1 /\ day = 1 /\ days = 0

NextDay ==
    \/ /\ day < LastDay
       /\ day' = day + 1
       /\ days' = days + 1
       /\ UNCHANGED <<year, month>>
    \/ /\ day = LastDay
       /\ month < 12
       /\ month' = month + 1
       /\ day' = 1
       /\ days' = days + 1
       /\ UNCHANGED year

NewYear ==
    /\ month = 12 /\ day = LastDay
    /\ year < LastYear
    /\ year' = year + 1
    /\ month' = 1
    /\ day' = 1
    /\ days' = days + 1

\* The calendar is read again from its first page.
TurnBack ==
    /\ month = 12 /\ day = LastDay
    /\ year = LastYear
    /\ year' = 1970
    /\ month' = 1
    /\ day' = 1
    /\ days' = 0

CalendarSpec == FirstDate /\ [][NextDay \/ NewYear \/ TurnBack]_calendarVars
----------------------------------------------------------------------------
Tens(n)  == (n \div 10) % 10
Units(n) == n % 10

\* The date at hh:mm:ss in either form; 42 is 'Z' - '0'.
AsUTCTime(hh, mm, ss) ==
    << Tens(year), Units(year), Tens(month), Units(month), Tens(day), Units(day),
       Tens(hh), Units(hh), Tens(mm), Units(mm), Tens(ss), Units(ss), 42 >>

AsGeneralizedTime(hh, mm, ss) ==
    << year \div 1000, (year \div 100) % 10,
       Tens(year), Units(year), Tens(month), Units(month), Tens(day), Units(day),
       Tens(hh), Units(hh), Tens(mm), Units(mm), Tens(ss), Units(ss), 42 >>

\* Every date of the calendar that a certificate can name is read as the second it is: in
\* UTCTime through 2049, in GeneralizedTime from 2000 through 2299, at the first and the
\* last second of the day (toTimestamp: the pivot of two-digit years, leap years, the
\* lengths of the months).
DatesExact ==
    /\ year < 2050 =>
          /\ toTimestamp(AsUTCTime(0, 0, 0)) = <<days, 0>>
          /\ toTimestamp(AsUTCTime(23, 59, 59)) = <<days, 24 * 3600 - 1>>
    /\ year >= 2000 =>
          /\ ~CenturyReverts(AsGeneralizedTime(0, 0, 0))
          /\ ~CenturyReverts(AsGeneralizedTime(23, 59, 59))
          /\ toTimestamp(AsGeneralizedTime(0, 0, 0)) = <<days, 0>>
          /\ toTimestamp(AsGeneralizedTime(23, 59, 59)) = <<days, 24 * 3600 - 1>>
=============================================================================
