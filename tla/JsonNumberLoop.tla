--------------------------- MODULE JsonNumberLoop ---------------------------
(***************************************************************************)
(* The do { ... } while (true) loop of stream_print_number() in            *)
(* apps/netutils/json/cJSON_stream_print.c for a double in the plain form  *)
(* (1.0e-6 <= |d| <= 1.0e14): d is printed with "%.<n>f", n = 15 -         *)
(* (int)log10(|d|); if the text ends in two nines after more than two     *)
(* fraction digits and round_up is still false, d += 10^-ndigits, int_d   *)
(* and id are recomputed, round_up is set and the loop starts again;      *)
(* otherwise the text is trimmed, the loop breaks and stream_puts() writes *)
(* it.                                                                      *)
(*                                                                         *)
(* d is represented by the digits printf gives for it: the integer part    *)
(* ipart and the fraction frac, both as sequences of digits 0..9.  Sig     *)
(* stands for the code's 15 and IntMax for INT_MAX.  The sign is left out: *)
(* copysign() makes a negative d step away from zero exactly as a positive *)
(* one does.  The addition d += 10^-ndigits is exact in decimal except that *)
(* it may be absorbed: when 10^-ndigits is no more than half an ulp of d   *)
(* the double does not change and printf prints the same text again.      *)
(* Whether it is absorbed is a property of d, chosen with it.              *)
(*                                                                         *)
(* int_d is (int)d: the value of cJSON_int() at entry and of int_d = d     *)
(* after a retry.  For a d whose integer part is beyond INT_MAX the        *)
(* conversion is undefined; the build gives one of the values UBInts.     *)
(***************************************************************************)
EXTENDS Integers, Sequences, SequencesExt

CONSTANTS
  Sig,         \* the significant digits the code assumes (15)
  IntMax,      \* INT_MAX
  DigitChars,  \* the digits the fractions printf gives are made of
  IntParts,    \* the integer parts printf gives
  UBInts       \* what (int)d gives for a d beyond INT_MAX

ASSUME /\ Sig \in Nat /\ Sig >= 3
       /\ IntMax \in Nat \ {0}
       /\ DigitChars \subseteq 0..9
       /\ IntParts \subseteq Seq(0..9)
       /\ UBInts \subseteq -IntMax..IntMax

JN == INSTANCE JsonNumber WITH FracDigits <- 1, FracChars <- {48}, Expo <- 0,
                               printed <- <<>>

DOT == 46

(* The characters of a sequence of digits.                                *)
DigitText(s) == [k \in DOMAIN s |-> 48 + s[k]]

(* The text snprintf() writes for the digits.                              *)
Text(i, f) == DigitText(i) \o <<DOT>> \o DigitText(f)

(* ndigits_before_dot = (int)log10(fabs(d)) for 0.1 <= |d| < 10^Sig.       *)
Before(i) == IF i = <<0>> THEN 0 ELSE Len(i) - 1

(* ndigits_after_dot = 15 - ndigits_before_dot, and 0 if that is negative. *)
After(i) == IF Sig - Before(i) < 0 THEN 0 ELSE Sig - Before(i)

(* The number a sequence of decimal digits stands for.                    *)
RECURSIVE Val(_)
Val(s) == IF s = <<>> THEN 0 ELSE Val(Front(s)) * 10 + Last(s)

(* The decimal digits of n > 0, as "%d" prints them.                      *)
RECURSIVE DecDigits(_)
DecDigits(n) == IF n < 10 THEN <<n>> ELSE DecDigits(n \div 10) \o <<n % 10>>

Whole(f) == \A k \in DOMAIN f : f[k] = 0

(* (int)d: the integer part when it fits an int, undefined otherwise.      *)
Conversions(i) == IF Val(i) <= IntMax THEN {Val(i)} ELSE UBInts

(* d <= INT_MAX && d >= INT_MIN                                            *)
InRange(i, f) == Val(i) < IntMax \/ (Val(i) = IntMax /\ Whole(f))

IsInt(i, f, n) ==
  /\ n /= 0 /\ InRange(i, f)
  /\ Whole(f) /\ n = Val(i)

(* Mutant: the retry without !round_up.                                   *)
NinesRetryAlways(f, round_up) ==
  /\ Len(f) > 2 /\ f[Len(f)] = 9 /\ f[Len(f) - 1] = 9

(* pdot && !round_up, ndigits > 2, str[slen - 1] == '9' and                *)
(* str[slen - 2] == '9'.                                                   *)
NinesRetry(f, round_up) ==
  /\ ~round_up
  /\ Len(f) > 2 /\ f[Len(f)] = 9 /\ f[Len(f) - 1] = 9

(* d += copysign(pow(10, -ndigits), d): one unit more in the last printed  *)
(* digit, with the carry into the integer part.                            *)
RoundUp(i, f) ==
  LET RECURSIVE Digits(_, _)
      Digits(n, w) == IF w = 0 THEN <<>> ELSE Digits(n \div 10, w - 1) \o <<n % 10>>
      n  == Val(i \o f) + 1
      w  == Len(i) + Len(f) + (IF n = 10^(Len(i) + Len(f)) THEN 1 ELSE 0)
      ds == Digits(n, w)
  IN  [i |-> SubSeq(ds, 1, w - Len(f)), f |-> SubSeq(ds, w - Len(f) + 1, w)]

-----------------------------------------------------------------------------
VARIABLES
  ipart,      \* the integer digits of d as printf prints them
  frac,       \* the fraction digits of d at the current precision
  int_d,      \* int_d (and id, its double)
  round_up,   \* round_up
  out,        \* the text stream_puts() wrote
  branch,     \* which snprintf() made out: "int" ("%d"), "fixed" or "none"
  pc,         \* "loop" inside the do loop, "done" after stream_puts()
  absorbed    \* d + 10^-ndigits rounds back to d

vars == <<ipart, frac, int_d, round_up, out, branch, pc, absorbed>>

(* A double of the plain form: an integer part below 10^(Sig - 2), so that *)
(* the fraction has more than two digits, and a fraction of After digits; *)
(* a zero integer part has a first fraction digit other than 0.           *)
Init ==
  /\ ipart \in IntParts
  /\ frac \in [1..After(ipart) -> DigitChars]
  /\ ipart = <<0>> => frac[1] /= 0
  /\ int_d \in Conversions(ipart)
  /\ round_up = FALSE
  /\ out = <<>>
  /\ branch = "none"
  /\ pc = "loop"
  /\ absorbed \in BOOLEAN

(* The second branch: "%d" of int_d, then stream_puts().                   *)
PrintInt ==
  /\ IsInt(ipart, frac, int_d)
  /\ out' = DigitText(DecDigits(int_d))
  /\ branch' = "int"
  /\ pc' = "done"
  /\ UNCHANGED <<ipart, frac, int_d, round_up, absorbed>>

(* The retry: round the last digit up, recompute int_d and id, set         *)
(* round_up and continue; printf prints the new d with the precision of    *)
(* its own magnitude.                                                      *)
Retry ==
  /\ ~IsInt(ipart, frac, int_d)
  /\ NinesRetry(frac, round_up)
  /\ LET r == IF absorbed THEN [i |-> ipart, f |-> frac] ELSE RoundUp(ipart, frac)
     IN  /\ ipart' = r.i
         /\ frac' = SubSeq(r.f, 1, After(r.i))
         /\ int_d' \in IF absorbed THEN {int_d} ELSE Conversions(r.i)
  /\ round_up' = TRUE
  /\ UNCHANGED <<out, branch, pc, absorbed>>

(* No retry: remove the trailing zeros and dot, break, stream_puts().      *)
PrintFixed ==
  /\ ~IsInt(ipart, frac, int_d)
  /\ ~NinesRetry(frac, round_up)
  /\ out' = JN!FixedTrim(Text(ipart, frac))
  /\ branch' = "fixed"
  /\ pc' = "done"
  /\ UNCHANGED <<ipart, frac, int_d, round_up, absorbed>>

Loop == pc = "loop" /\ (PrintInt \/ Retry \/ PrintFixed)

(* The number is printed; the caller goes on with the rest of the tree.   *)
Terminating == pc = "done" /\ UNCHANGED vars

Next == Loop \/ Terminating

Spec == Init /\ [][Next]_vars

-----------------------------------------------------------------------------
====
