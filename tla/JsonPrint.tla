----------------------------- MODULE JsonPrint -----------------------------
(***************************************************************************)
(* The streaming cJSON printer of apps/netutils/json/cJSON_stream_print.c. *)
(* Text is a sequence of byte codes; stream_print_value() and its helpers  *)
(* are RECURSIVE operators from a cJSON tree to the bytes it hands to the  *)
(* stream's putc function, and putc_string() is the step function those   *)
(* bytes are folded through by cJSON_Print_String() and cJSON_Print_Buf(). *)
(*                                                                         *)
(* A cJSON item is a record by type: "null", "false", "true", "int" (a     *)
(* number whose double is an exact int), "negzero" (the double -0.0),     *)
(* "str", "buf" (cJSON_Buffer), "arr" and "obj"; the children of an        *)
(* object are records [name, val].  Strings are sequences of non-NUL      *)
(* bytes, as C strings are.                                                *)
(***************************************************************************)
EXTENDS Integers, Sequences, FiniteSets, SequencesExt

CONSTANTS
  StrChars,   \* the bytes strings and names are made of
  Ints,       \* the integral numbers items hold
  Names,      \* the names object children have
  Strs,       \* the string values inside arrays and objects
  Blobs,      \* the contents of cJSON_Buffer items
  TopStrLen,  \* the length of the strings printed as a whole document
  BufLens     \* the buffer sizes cJSON_Print_Buf() is given

ASSUME /\ StrChars \subseteq 1..255 /\ Ints \subseteq Int
       /\ TopStrLen \in Nat /\ BufLens \subseteq Nat

(* ASCII codes of the punctuation the printer emits.                        *)
NUL == 0
TAB == 9
LF == 10
SPACE == 32
QUOTE == 34
LPAREN == 40
RPAREN == 41
COMMA == 44
MINUS == 45
COLON == 58
LBRACK == 91
BSLASH == 92
RBRACK == 93
LBRACE == 123
RBRACE == 125

NullWord  == <<110, 117, 108, 108>>        \* "null"
FalseWord == <<102, 97, 108, 115, 101>>    \* "false"
TrueWord  == <<116, 114, 117, 101>>        \* "true"
NegZero   == <<45, 48, 46, 48>>            \* "-0.0"

(* A digit as printed by "%d", "%x" and "%X".                              *)
DecDigit(d) == 48 + d
HexLower(d) == IF d < 10 THEN 48 + d ELSE 87 + d
HexUpper(d) == IF d < 10 THEN 48 + d ELSE 55 + d

(* snprintf("%d") of a non-negative int.                                   *)
RECURSIVE Decimal(_)
Decimal(n) == IF n < 10 THEN <<DecDigit(n)>>
              ELSE Decimal(n \div 10) \o <<DecDigit(n % 10)>>

(* stream_print_number(), for the doubles that are zero or hold an int:    *)
(* signbit() tells "0" from "-0.0", and a non-zero int is printed "%d".   *)
PrintNumber(v) ==
  CASE v.type = "negzero"        -> NegZero
    [] v.type = "int" /\ v.n = 0 -> <<DecDigit(0)>>
    [] v.type = "int" /\ v.n < 0 -> <<MINUS>> \o Decimal(-v.n)
    [] v.type = "int" /\ v.n > 0 -> Decimal(v.n)

(* stream_print_buffer(): "(" then every byte as "%02X", then ")".         *)
PrintBuffer(b) ==
  <<LPAREN>>
    \o FlattenSeq([i \in DOMAIN b |-> <<HexUpper(b[i] \div 16), HexUpper(b[i] % 16)>>])
    \o <<RPAREN>>

(* The letter after the backslash for the bytes with a short escape.       *)
ShortEscape == (BSLASH :> BSLASH) @@ (QUOTE :> QUOTE) @@ (8 :> 98)
                 @@ (12 :> 102) @@ (LF :> 110) @@ (13 :> 114) @@ (TAB :> 116)

(* Mutant: the unit separator 31 is taken for a printable byte.            *)
PrintedRawOffByOne(c) == c >= 31 /\ c /= QUOTE /\ c /= BSLASH

(* The test of stream_print_string_ptr() for a byte copied as it is:       *)
(* (unsigned char)*ptr > 31, and neither a quote nor a backslash.          *)
PrintedRaw(c) == c > 31 /\ c /= QUOTE /\ c /= BSLASH

(* One byte of a string: raw, or a backslash and its short escape, or      *)
(* "u%04x" of the unsigned byte.                                           *)
EscapeByte(c) ==
  IF PrintedRaw(c) THEN <<c>>
  ELSE <<BSLASH>> \o
       IF c \in DOMAIN ShortEscape THEN <<ShortEscape[c]>>
       ELSE <<117, DecDigit(0), DecDigit(0), HexLower(c \div 16), HexLower(c % 16)>>

(* A NULL char pointer, as cJSON_name() returns for a child without name;  *)
(* no C string holds a NUL byte, so no string is this sequence.           *)
NullPtr == <<NUL>>

(* stream_print_string_ptr(): a NULL string prints nothing at all.         *)
PrintStringPtr(s) ==
  IF s = NullPtr THEN <<>>
  ELSE <<QUOTE>> \o FlattenSeq([i \in DOMAIN s |-> EscapeByte(s[i])]) \o <<QUOTE>>

IfFmt(fmt, text) == IF fmt THEN text ELSE <<>>

(* The tabs of a for loop counting up to n: none when n < 1.              *)
Tabs(n) == IF n < 1 THEN <<>> ELSE [k \in 1..n |-> TAB]

(* stream_print_value(), stream_print_array(), stream_print_object().      *)
RECURSIVE PrintValue(_, _, _), PrintArray(_, _, _), PrintObject(_, _, _)

PrintValue(v, depth, fmt) ==
  CASE v.type = "null"                -> NullWord
    [] v.type = "false"               -> FalseWord
    [] v.type = "true"                -> TrueWord
    [] v.type \in {"int", "negzero"}  -> PrintNumber(v)
    [] v.type = "str"                 -> PrintStringPtr(v.s)
    [] v.type = "buf"                 -> PrintBuffer(v.b)
    [] v.type = "arr"                 -> PrintArray(v.kids, depth, fmt)
    [] v.type = "obj"                 -> PrintObject(v.kids, depth, fmt)

(* The children at depth + 1, separated by "," and, formatted, " ".        *)
PrintArray(kids, depth, fmt) ==
  <<LBRACK>>
    \o FlattenSeq([i \in DOMAIN kids |->
          PrintValue(kids[i], depth + 1, fmt)
            \o IF i < Len(kids) THEN <<COMMA>> \o IfFmt(fmt, <<SPACE>>) ELSE <<>>])
    \o <<RBRACK>>

(* Formatted, every child is on a line of its own indented by depth tabs,  *)
(* with a tab after the colon, and the closing brace by depth - 1 tabs.    *)
PrintObject(kids, depth, fmt) ==
  <<LBRACE>> \o IfFmt(fmt, <<LF>>)
    \o FlattenSeq([i \in DOMAIN kids |->
          IfFmt(fmt, Tabs(depth))
            \o PrintStringPtr(kids[i].name) \o <<COLON>> \o IfFmt(fmt, <<TAB>>)
            \o PrintValue(kids[i].val, depth + 1, fmt)
            \o (IF i < Len(kids) THEN <<COMMA>> ELSE <<>>)
            \o IfFmt(fmt, <<LF>>)])
    \o IfFmt(fmt, Tabs(depth - 1)) \o <<RBRACE>>

(* cJSON_Print_Stream(): the whole item from depth 0.                      *)
PrintStream(v, fmt) == PrintValue(v, 0, fmt)

(* A byte of the caller's memory the printer has not written.              *)
Unwritten == -1

(* struct putc_string_priv_s over a buffer of buflen bytes; mem also holds *)
(* the byte just past the buffer, so that a write there shows.             *)
Priv(buflen) ==
  [mem |-> [k \in 0..buflen |-> Unwritten], buflen |-> buflen, numput |-> 0]

(* Mutant: the byte at buf[buflen] is still written.                       *)
PutcStringPastEnd(p, c) ==
  IF p.numput > p.buflen THEN [p EXCEPT !.numput = @ + 1]
  ELSE [p EXCEPT !.mem[p.numput] = c, !.numput = @ + 1]

(* putc_string(): past the end of the buffer only count, else store.      *)
PutcString(p, c) ==
  IF p.numput >= p.buflen THEN [p EXCEPT !.numput = @ + 1]
  ELSE [p EXCEPT !.mem[p.numput] = c, !.numput = @ + 1]

-----------------------------------------------------------------------------
(***************************************************************************)
(* Reference: a reader of JSON text (RFC 8259), extended by the "(HEX)"    *)
(* form cJSON gives buffers, whose numbers are the integers and -0.0.     *)
(* Each reader returns [ok, val, rest]: whether a value was read, the      *)
(* value, and the text after it.                                           *)
(***************************************************************************)
Fail == [ok |-> FALSE, val |-> NullPtr, rest |-> <<>>]

Ok(val, rest) == [ok |-> TRUE, val |-> val, rest |-> rest]

Drop(s, n) == SubSeq(s, n + 1, Len(s))

IsDigit(c) == c \in 48..57

HexValue(c) == CASE c \in 48..57  -> c - 48
                 [] c \in 65..70  -> c - 55
                 [] c \in 97..102 -> c - 87

IsHex(c) == c \in (48..57) \cup (65..70) \cup (97..102)

(* The byte each short escape stands for ("\/" included).                  *)
Unescape == [c \in Range(ShortEscape) |-> CHOOSE b \in DOMAIN ShortEscape :
                                            ShortEscape[b] = c] @@ (47 :> 47)

(* The number of bytes at the head of s that are in the set C.            *)
LeadingIn(s, C) == Cardinality({i \in DOMAIN s : \A j \in 1..i : s[j] \in C})

SkipWs(s) == Drop(s, LeadingIn(s, {SPACE, TAB, LF, 13}))

Digits(s) == SubSeq(s, 1, LeadingIn(s, 48..57))

(* A number: "-"? int frac?, whose fraction must be zero.                  *)
ReadNumber(s) ==
  LET neg  == Head(s) = MINUS
      u    == IF neg THEN Tail(s) ELSE s
      ip   == Digits(u)
      frac == Len(ip) < Len(u) /\ u[Len(ip) + 1] = 46
      fp   == IF frac THEN Digits(Drop(u, Len(ip) + 1)) ELSE <<>>
      mag  == FoldLeft(LAMBDA a, d : 10 * a + d - 48, 0, ip)
  IN  IF \/ ip = <<>> \/ (Len(ip) > 1 /\ Head(ip) = 48)
         \/ (frac /\ fp = <<>>) \/ \E i \in DOMAIN fp : fp[i] /= 48
      THEN Fail
      ELSE Ok(IF neg /\ mag = 0 THEN [type |-> "negzero"]
              ELSE [type |-> "int", n |-> IF neg THEN -mag ELSE mag],
              Drop(u, Len(ip) + (IF frac THEN 1 + Len(fp) ELSE 0)))

(* The bytes of a string up to its closing quote; control bytes must be    *)
(* escaped.                                                                *)
RECURSIVE ReadString(_, _)
ReadString(s, acc) ==
  CASE s = <<>> -> Fail
    [] Head(s) = QUOTE -> Ok(acc, Tail(s))
    [] Head(s) = BSLASH /\ Len(s) >= 2 /\ s[2] \in DOMAIN Unescape ->
         ReadString(Drop(s, 2), Append(acc, Unescape[s[2]]))
    [] Head(s) = BSLASH /\ Len(s) >= 6 /\ s[2] = 117 /\ \A i \in 3..6 : IsHex(s[i]) ->
         ReadString(Drop(s, 6), Append(acc, 16 * HexValue(s[5]) + HexValue(s[6])
                                             + 256 * (16 * HexValue(s[3]) + HexValue(s[4]))))
    [] Head(s) = BSLASH -> Fail
    [] Head(s) < 32 -> Fail
    [] OTHER -> ReadString(Tail(s), Append(acc, Head(s)))

(* The bytes of a buffer, two upper- or lower-case hex digits each.        *)
RECURSIVE ReadHex(_, _)
ReadHex(s, acc) ==
  CASE s = <<>> -> Fail
    [] Head(s) = RPAREN -> Ok([type |-> "buf", b |-> acc], Tail(s))
    [] Len(s) >= 2 /\ IsHex(s[1]) /\ IsHex(s[2]) ->
         ReadHex(Drop(s, 2), Append(acc, 16 * HexValue(s[1]) + HexValue(s[2])))
    [] OTHER -> Fail

RECURSIVE ReadValue(_), ReadElements(_, _), ReadMembers(_, _)

(* After an element or member: "," to go on, or the closing bracket.      *)
Separator(r, close) ==
  LET t == SkipWs(r.rest)
  IN  CASE ~r.ok \/ t = <<>> -> "fail"
        [] Head(t) = COMMA   -> "more"
        [] Head(t) = close   -> "done"
        [] OTHER             -> "fail"

ReadElements(s, acc) ==
  LET r   == ReadValue(s)
      t   == SkipWs(r.rest)
      sep == Separator(r, RBRACK)
  IN  CASE sep = "more" -> ReadElements(Tail(t), Append(acc, r.val))
        [] sep = "done" -> Ok([type |-> "arr", kids |-> Append(acc, r.val)], Tail(t))
        [] sep = "fail" -> Fail

ReadMembers(s, acc) ==
  LET t   == SkipWs(s)
      k   == IF t /= <<>> /\ Head(t) = QUOTE THEN ReadString(Tail(t), <<>>) ELSE Fail
      u   == SkipWs(k.rest)
      r   == IF k.ok /\ u /= <<>> /\ Head(u) = COLON THEN ReadValue(Tail(u)) ELSE Fail
      w   == SkipWs(r.rest)
      m   == [name |-> k.val, val |-> r.val]
      sep == Separator(r, RBRACE)
  IN  CASE sep = "more" -> ReadMembers(Tail(w), Append(acc, m))
        [] sep = "done" -> Ok([type |-> "obj", kids |-> Append(acc, m)], Tail(w))
        [] sep = "fail" -> Fail

ReadValue(s) ==
  LET t == SkipWs(s)
      c == IF t = <<>> THEN NUL ELSE Head(t)
      inner == SkipWs(Tail(t))
      Empty(close) == inner /= <<>> /\ Head(inner) = close
      Word(w, v) == IF Len(t) >= Len(w) /\ SubSeq(t, 1, Len(w)) = w
                    THEN Ok(v, Drop(t, Len(w))) ELSE Fail
  IN  CASE c = 110 -> Word(NullWord, [type |-> "null"])
        [] c = 102 -> Word(FalseWord, [type |-> "false"])
        [] c = 116 -> Word(TrueWord, [type |-> "true"])
        [] c = MINUS \/ IsDigit(c) -> ReadNumber(t)
        [] c = QUOTE ->
             LET r == ReadString(Tail(t), <<>>)
             IN  IF r.ok THEN Ok([type |-> "str", s |-> r.val], r.rest) ELSE Fail
        [] c = LPAREN -> ReadHex(Tail(t), <<>>)
        [] c = LBRACK /\ Empty(RBRACK) -> Ok([type |-> "arr", kids |-> <<>>], Drop(inner, 1))
        [] c = LBRACK -> ReadElements(inner, <<>>)
        [] c = LBRACE /\ Empty(RBRACE) -> Ok([type |-> "obj", kids |-> <<>>], Drop(inner, 1))
        [] c = LBRACE -> ReadMembers(inner, <<>>)
        [] OTHER -> Fail

(* The value a whole text denotes, or Fail.                                *)
ReadDocument(s) ==
  LET r == ReadValue(s)
  IN  IF r.ok /\ SkipWs(r.rest) = <<>> THEN r ELSE Fail

(* The C string held by a buffer: its bytes before the first NUL.          *)
CString(mem) ==
  LET k == CHOOSE k \in DOMAIN mem : mem[k] = NUL /\ \A j \in 0..(k - 1) : mem[j] /= NUL
  IN  [i \in 1..k |-> mem[i - 1]]

-----------------------------------------------------------------------------
(* The items printed: scalars, the strings of up to TopStrLen bytes, the   *)
(* arrays and objects of up to two scalar children, and those holding one  *)
(* such container.                                                         *)
Scalars ==
  {[type |-> t] : t \in {"null", "false", "true", "negzero"}}
    \cup {[type |-> "int", n |-> k] : k \in Ints}
    \cup {[type |-> "str", s |-> s] : s \in Strs}
    \cup {[type |-> "buf", b |-> b] : b \in Blobs}

Containers(E) ==
  {[type |-> "arr", kids |-> k] : k \in BoundedSeq(E, 2)}
    \cup {[type |-> "obj", kids |-> k] : k \in BoundedSeq([name : Names, val : E], 2)}

Items ==
  LET flat == Containers(Scalars)
  IN  Scalars \cup flat
        \cup {[type |-> "str", s |-> s] : s \in BoundedSeq(StrChars, TopStrLen)}
        \cup {[type |-> "arr", kids |-> <<c>>] : c \in flat}
        \cup {[type |-> "obj", kids |-> <<[name |-> n, val |-> c]>>] : n \in Names, c \in flat}

(***************************************************************************)
(* A caller's call of cJSON_Print(), cJSON_PrintUnformatted() or         *)
(* cJSON_Print_Buf().  The printer's bytes are computed when the call     *)
(* starts (text); every stream_putc() of them is a step of its own, so    *)
(* the counting pass, the malloc(), the filling pass and the terminating  *)
(* NUL of cJSON_Print_String() happen in the code's order.                *)
(***************************************************************************)
VARIABLES
  item,   \* the item printed
  fmt,    \* formatted or not
  call,   \* "string" (cJSON_Print_String) or "buf" (cJSON_Print_Buf)
  text,   \* the bytes stream_print_value() hands to the stream, in order
  pos,    \* the index in text of the next byte to put
  priv,   \* struct putc_string_priv_s
  num,    \* num_chars of the counting pass, or the count returned
  out,    \* the string cJSON_Print_String() returns (NullPtr: NULL)
  pc      \* "idle", "count", "fill", "buf" or "done"

vars == <<item, fmt, call, text, pos, priv, num, out, pc>>

Init ==
  /\ item = [type |-> "null"] /\ fmt = FALSE /\ call = "string"
  /\ text = <<>> /\ pos = 1 /\ priv = Priv(0) /\ num = 0 /\ out = NullPtr
  /\ pc = "idle"

(* cJSON_Print_String(): priv over a NULL buffer of length 0, and the     *)
(* first cJSON_Print_Stream() with putc_string().                          *)
PrintStringStart(v, f) ==
  /\ pc = "idle"
  /\ item' = v /\ fmt' = f /\ call' = "string"
  /\ text' = PrintStream(v, f) /\ pos' = 1 /\ priv' = Priv(0)
  /\ pc' = "count"
  /\ UNCHANGED <<num, out>>

cJSON_Print(v) == PrintStringStart(v, TRUE)

cJSON_PrintUnformatted(v) == PrintStringStart(v, FALSE)

(* cJSON_Print_Buf() into the caller's buffer of buflen bytes.            *)
cJSON_Print_Buf(v, f, buflen) ==
  /\ pc = "idle"
  /\ item' = v /\ fmt' = f /\ call' = "buf"
  /\ text' = PrintStream(v, f) /\ pos' = 1 /\ priv' = Priv(buflen)
  /\ pc' = "buf"
  /\ UNCHANGED <<num, out>>

(* stream_putc(): the stream's putc_fn, putc_string(), gets the next byte. *)
Putc ==
  /\ pc \in {"count", "fill", "buf"}
  /\ pos <= Len(text)
  /\ priv' = PutcString(priv, text[pos])
  /\ pos' = pos + 1
  /\ UNCHANGED <<item, fmt, call, text, num, out, pc>>

(* After the counting pass: num_chars = numput, malloc(num_chars + 1)      *)
(* succeeds, and priv is reset over the new buffer for the second pass.   *)
Alloc ==
  /\ pc = "count" /\ pos > Len(text)
  /\ num' = priv.numput
  /\ priv' = Priv(priv.numput)
  /\ pos' = 1
  /\ pc' = "fill"
  /\ UNCHANGED <<item, fmt, call, text, out>>

(* malloc() fails: cJSON_Print_String() returns NULL.                      *)
AllocFail ==
  /\ pc = "count" /\ pos > Len(text)
  /\ num' = priv.numput /\ out' = NullPtr
  /\ pc' = "done"
  /\ UNCHANGED <<item, fmt, call, text, pos, priv>>

(* After the second pass: the DEBUGASSERT (checked as a property) and     *)
(* out[num_chars] = '\0'.                                                  *)
Terminate ==
  /\ pc = "fill" /\ pos > Len(text)
  /\ out' = [priv.mem EXCEPT ![num] = NUL]
  /\ pc' = "done"
  /\ UNCHANGED <<item, fmt, call, text, pos, priv, num>>

(* cJSON_Print_Buf() returns priv.numput.                                  *)
ReturnBuf ==
  /\ pc = "buf" /\ pos > Len(text)
  /\ num' = priv.numput
  /\ pc' = "done"
  /\ UNCHANGED <<item, fmt, call, text, pos, priv, out>>

(* The caller is done with the result and may print again.                *)
Finish ==
  /\ pc = "done"
  /\ item' = [type |-> "null"] /\ fmt' = FALSE /\ call' = "string"
  /\ text' = <<>> /\ pos' = 1 /\ priv' = Priv(0) /\ num' = 0 /\ out' = NullPtr
  /\ pc' = "idle"

Next ==
  \/ pc = "idle" /\ \E v \in Items : cJSON_Print(v) \/ cJSON_PrintUnformatted(v)
  \/ pc = "idle" /\ \E v \in Items, f \in BOOLEAN, n \in BufLens : cJSON_Print_Buf(v, f, n)
  \/ Putc \/ Alloc \/ AllocFail \/ Terminate \/ ReturnBuf \/ Finish

Spec == Init /\ [][Next]_vars

-----------------------------------------------------------------------------
(* cJSON_Print() and cJSON_PrintUnformatted() return NULL or a NUL-        *)
(* terminated text from which a JSON reader gets back exactly the item    *)
(* printed: every control byte, quote and backslash of a string or name   *)
(* is escaped, the separators are where a reader needs them, and the      *)
(* filling pass put as many bytes as the counting pass counted (the       *)
(* DEBUGASSERT), so the NUL lands right after the text.                    *)
PrintedTextReadsBack ==
  (pc = "done" /\ call = "string" /\ out /= NullPtr) =>
    LET d == ReadDocument(CString(out))
    IN  priv.numput = num /\ d.ok /\ d.val = item

(* cJSON_Print_Buf() into a buffer shorter than, as long as or longer than *)
(* the text returns the text's full length, holds the text's first buflen *)
(* bytes, and never writes the byte past the buffer; it writes no         *)
(* terminating NUL.                                                        *)
PrintBufBounded ==
  (pc = "done" /\ call = "buf") =>
    /\ num = Len(text)
    /\ \A k \in 0..priv.buflen :
         priv.mem[k] = IF k < priv.buflen /\ k < Len(text) THEN text[k + 1] ELSE Unwritten

====
