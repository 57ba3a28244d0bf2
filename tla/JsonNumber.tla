---------------------------- MODULE JsonNumber -----------------------------
(***************************************************************************)
(* The trimming of printf output in stream_print_number() of               *)
(* apps/netutils/json/cJSON_stream_print.c.  A double that is not an exact *)
(* int is printed with a fixed number of fraction digits ("%.14f" of the   *)
(* scaled value in the exponent form, "%.<n>f" in the plain form); the     *)
(* code then cuts the trailing zeros and a trailing dot in place, working  *)
(* on the char array str[32] with the index slen, and the exponent form    *)
(* appends "e%d" at str + slen.                                            *)
(*                                                                         *)
(* The floating-point arithmetic that chooses the form and the digits is   *)
(* left out: any digit string is a printf output the trimming can be given.*)
(***************************************************************************)
EXTENDS Integers, Sequences, SequencesExt

CONSTANTS
  FracDigits,   \* the precision printf was given
  FracChars,    \* the digits the fraction is made of
  Expo          \* the exponent of the exponent form

ASSUME FracDigits \in Nat \ {0} /\ Expo \in Nat

NUL == 0
DOT == 46
ZERO == 48

(* char str[32] after snprintf() wrote the text s into it.                 *)
StrArray(s) == [k \in 0..31 |-> IF k < Len(s) THEN s[k + 1] ELSE NUL]

(* The text of a char array: its bytes before the first NUL.               *)
CText(str) ==
  LET n == CHOOSE n \in DOMAIN str : str[n] = NUL /\ \A j \in 0..(n - 1) : str[j] /= NUL
  IN  [i \in 1..n |-> str[i - 1]]

(* while (slen > 0) { if (str[--slen] != '0') break; str[slen] = '\0'; }  *)
RECURSIVE StripZeros(_, _)
StripZeros(str, slen) ==
  IF ~(slen > 0) THEN [str |-> str, slen |-> slen]
  ELSE IF str[slen - 1] /= ZERO THEN [str |-> str, slen |-> slen - 1]
  ELSE StripZeros([str EXCEPT ![slen - 1] = NUL], slen - 1)

(* snprintf(..., "e%d", expo) for expo >= 0.                               *)
ExpoText(e) ==
  LET RECURSIVE Dec(_)
      Dec(n) == IF n < 10 THEN <<48 + n>> ELSE Dec(n \div 10) \o <<48 + (n % 10)>>
  IN  <<101>> \o Dec(e)

(* The plain form: if the text has a dot, slen -= 1, the loop, and a       *)
(* trailing dot cut.                                                       *)
FixedTrim(s) ==
  IF DOT \notin Range(s) THEN s
  ELSE LET r == StripZeros(StrArray(s), Len(s) - 1)
       IN  CText(IF r.slen > 0 /\ r.str[r.slen] = DOT
                 THEN [r.str EXCEPT ![r.slen] = NUL] ELSE r.str)

(* The exponent form: the same cut, with str[slen--] = '\0' for the dot    *)
(* and slen += 1, then "e%d" written from str + slen on.                   *)
ExpTrim(s, e) ==
  LET r     == IF DOT \in Range(s) THEN StripZeros(StrArray(s), Len(s) - 1)
               ELSE [str |-> StrArray(s), slen |-> Len(s)]
      dot   == DOT \in Range(s) /\ r.slen > 0 /\ r.str[r.slen] = DOT
      str   == IF dot THEN [r.str EXCEPT ![r.slen] = NUL] ELSE r.str
      slen  == IF DOT \in Range(s) THEN (IF dot THEN r.slen - 1 ELSE r.slen) + 1
               ELSE r.slen
      tail  == ExpoText(e) \o <<NUL>>
  IN  CText([k \in 0..31 |-> IF k >= slen /\ k < slen + Len(tail)
                              THEN tail[k - slen + 1] ELSE str[k]])

-----------------------------------------------------------------------------
(* The text printf gave: one digit, the dot and FracDigits fraction digits.*)
VARIABLE printed

Init == printed = <<49, DOT>> \o [k \in 1..FracDigits |-> ZERO]

SetDigit ==
  \E k \in 3..(FracDigits + 2), d \in FracChars : printed' = [printed EXCEPT ![k] = d]

Spec == Init /\ [][SetDigit]_printed

(* Reference: the text without its trailing zeros, and without the dot if *)
(* nothing follows it.                                                     *)
RECURSIVE WithoutTrailingZeros(_)
WithoutTrailingZeros(s) ==
  IF s /= <<>> /\ Last(s) = ZERO THEN WithoutTrailingZeros(Front(s)) ELSE s

Trimmed(s) ==
  LET t == WithoutTrailingZeros(s)
  IN  IF t /= <<>> /\ Last(t) = DOT THEN Front(t) ELSE t

(* The comments of stream_print_number() say what the cut does: "Remove   *)
(* trailing zeros" and "Remove trailing dot".  Both forms must print the  *)
(* number printf gave, to the precision printf was asked for: the text    *)
(* may keep a trailing zero, but every other digit stays, and the exponent *)
(* form ends in "e%d" of the exponent.                                     *)
TrimKeepsValue ==
  LET e == ExpoText(Expo)
      t == ExpTrim(printed, Expo)
  IN  /\ Trimmed(FixedTrim(printed)) = Trimmed(printed)
      /\ IsSuffix(e, t)
      /\ Trimmed(SubSeq(t, 1, Len(t) - Len(e))) = Trimmed(printed)

====
