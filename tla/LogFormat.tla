----------------------------- MODULE LogFormat -----------------------------
(***************************************************************************)
(* The integer conversions of _safe_vsnprintf (log.c): the argument as it  *)
(* is taken, the digits as _safe_utoa and _safe_itoa write them from the   *)
(* right, the complement and the strip of negative hexadecimals.           *)
(***************************************************************************)
EXTENDS Integers, Sequences

CONSTANTS IntDigits,   \* hexadecimal digits of an int (8); a long has twice as many
          Arguments    \* what the caller passes, as 64 bits

\* How many numbers n hexadecimal digits can show.
HexNumbers[n \in 0 .. 2 * IntDigits] == IF n = 0 THEN 1 ELSE 16 * HexNumbers[n - 1]

IntRange == HexNumbers[IntDigits]
LongRange == HexNumbers[2 * IntDigits]
MinLong == -(LongRange \div 2)

ASSUME FormatAssumption ==
    /\ IntDigits \in Nat \ {0}
    /\ Arguments \subseteq MinLong .. -MinLong - 1

VARIABLES letter,      \* what is after '%' and the 'l's: "d", "u", "x", "p", or "0"
                       \* for what no case takes
          longlong,    \* have_longlong
          arg,         \* ival, or uval
          val,         \* what is left of it to write
          text,        \* the digits
          minus,       \* a '-' before them
          converting   \* "digits", "sign", "strip", "done"; "undefined" and then
                       \* "garbage"; or "unmatched" and then "done"

formatVars == <<letter, longlong, arg, val, text, minus, converting>>

Base == IF letter \in {"x", "p"} THEN 16 ELSE 10
Negative == letter # "u" /\ arg < 0

\* va_arg: the low half of the argument for an int, with its sign unless it is
\* unsigned.
Taken(c, long, a) ==
    LET range == IF long THEN LongRange ELSE IntRange
        low == a % range
    IN  IF c # "u" /\ low >= range \div 2 THEN low - range ELSE low

\* A plausible bug: a negative is negated for hexadecimal as for decimal.
Magnitude_Same(c, a) == IF c # "u" /\ a < 0 THEN -a ELSE a

\* The digits of a negative hexadecimal are written of -a - 1, to be complemented.
Magnitude(c, a) ==
    IF c # "u" /\ a < 0 THEN IF c \in {"x", "p"} THEN -a - 1 ELSE -a ELSE a

FormatInit ==
    /\ letter \in {"d", "u", "x", "p", "0"}
    /\ \E long \in BOOLEAN, a \in Arguments :
          /\ longlong = (long \/ letter = "p")
          /\ arg = Taken(letter, longlong, a)
          /\ val = Magnitude(letter, arg)
    /\ text = <<>>
    /\ minus = FALSE
    /\ converting = CASE letter = "0" -> "unmatched"
                      [] letter \in {"d", "x", "p"} /\ arg = MinLong -> "undefined"
                      [] OTHER -> "digits"

Digit ==
    /\ converting = "digits"
    /\ text' = <<val % Base>> \o text
    /\ val' = val \div Base
    /\ converting' = IF val' = 0 THEN "sign" ELSE "digits"
    /\ UNCHANGED <<letter, longlong, arg, minus>>

\* The '-' of a decimal; the digits of a hexadecimal, filled up with zeros to
\* the length of a long, each become 15 minus themselves.
Sign ==
    LET zeros == [i \in 1 .. 2 * IntDigits - Len(text) |-> 0]
        filled == zeros \o text
    IN  /\ converting = "sign"
        /\ minus' = (Negative /\ Base = 10)
        /\ text' = IF Negative /\ Base = 16
                   THEN [i \in DOMAIN filled |-> 15 - filled[i]] ELSE text
        /\ converting' = "strip"
        /\ UNCHANGED <<letter, longlong, arg, val>>

\* The half of the digits that only repeat the sign of an int goes.
Strip ==
    /\ converting = "strip"
    /\ text' = IF letter = "x" /\ ~longlong /\ arg < 0
               THEN SubSeq(text, IntDigits + 1, Len(text)) ELSE text
    /\ converting' = "done"
    /\ UNCHANGED <<letter, longlong, arg, val, minus>>

\* "%03ld", of the milliseconds of every safe line: there is no case for the '0',
\* the rest is copied as it is, and the argument stays where it was.
Unmatched ==
    /\ converting = "unmatched"
    /\ converting' = "done"
    /\ UNCHANGED <<letter, longlong, arg, val, text, minus>>

\* The negation of the least long overflows, for a hexadecimal as well: if it
\* stays negative, so do the indices of the digits.
Undefined ==
    /\ converting = "undefined"
    /\ \E d \in 0 .. 1 : text' = <<d>>
    /\ minus' \in BOOLEAN
    /\ converting' = "garbage"
    /\ UNCHANGED <<letter, longlong, arg, val>>

FormatNext == Digit \/ Sign \/ Strip \/ Undefined \/ Unmatched

FormatSpec == FormatInit /\ [][FormatNext]_formatVars

-----------------------------------------------------------------------------
(* Properties.                                                             *)

\* The number that a reader of digits gets who starts from v.
ReadOn(base, v, digits) ==
    LET read[n \in 0 .. Len(digits)] ==
            IF n = 0 THEN v ELSE read[n - 1] * base + digits[n]
    IN  read[Len(digits)]

NumberRead == ReadOn(Base, 0, text)

\* What d, u, x and p write of any argument but the least long is what snprintf
\* would write: the value and its sign, or its two's complement in hexadecimal
\* with as many digits as the type has; no zero is in front of it.
ConversionExact ==
    converting = "done" /\ letter # "0" =>
        /\ minus <=> letter = "d" /\ arg < 0
        /\ NumberRead = CASE letter = "d" -> IF arg < 0 THEN -arg ELSE arg
                          [] letter = "u" -> arg
                          [] OTHER -> arg % (IF longlong THEN LongRange ELSE IntRange)
        /\ text[1] = 0 => Len(text) = 1

\* A line shows the milliseconds that it was written at, as the same format does
\* in the lines of _log.
MillisecondsShown ==
    converting = "done" /\ letter = "0" /\ arg \in 0 .. 999 => NumberRead = arg
=============================================================================
