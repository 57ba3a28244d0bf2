---------------------------- MODULE MCJsonPrint ----------------------------
(* The bytes, numbers, names and buffers the printer is checked on: every  *)
(* kind of escape (backslash, quote, short escapes \b \n \t, "\u" for 1   *)
(* and for 31 just below the printable range), the first printable byte,  *)
(* a slash, a letter and a byte above 127; zero, a negative and a         *)
(* two-digit int; a name that needs escaping; an empty buffer and one     *)
(* with a byte of each hex digit kind.                                     *)
EXTENDS JsonPrint

MCStrChars == {1, 8, 9, 10, 31, 32, 34, 47, 92, 97, 200}
MCInts == {0, -7, 12}
MCNames == {<<97>>, <<34, 9>>}
MCStrs == {<<>>, <<92, 1, 200>>}
MCBlobs == {<<>>, <<10, 255>>}
====
