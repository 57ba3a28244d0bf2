-------------------------- MODULE MCJsonNumberLoop --------------------------
(* The plain-form loop of stream_print_number() with 5 significant digits *)
(* in place of 15: integer parts of one to three digits, fractions of      *)
(* three to five digits made of 0, 5 and 9, and INT_MAX scaled to 99 so   *)
(* that a rounded-up d can be an integer both inside and outside the int  *)
(* range.                                                                  *)
EXTENDS JsonNumberLoop

MCIntParts == {<<0>>, <<5>>, <<9>>, <<9, 9>>, <<9, 9, 9>>}

====
