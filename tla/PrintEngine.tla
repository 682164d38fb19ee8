---------------------------- MODULE PrintEngine ----------------------------
(***************************************************************************)
(* The loader's print library (src/JosPkg/Application/Loader/print.c):    *)
(* SPrint/VSPrint into a caller's buffer, PoolPrint/VPoolPrint and         *)
(* CatPrint into pool.  Each call zeroes a PRINT_STATE and runs _Print,    *)
(* which reads the format one character at a time, formats items into     *)
(* scratch, puts characters into a PRINT_STRING_LEN buffer (PPUTC) and     *)
(* hands the buffer to an Output callback whenever it fills, when an       *)
(* attribute changes and at the end (PFLUSH).  Output is _SPrint, which    *)
(* appends with truncation at maxlen, or _PoolPrint, which first grows     *)
(* the pool with ReallocatePool.                                           *)
(*                                                                         *)
(* One action per step of _Print's loops; PPUTC is one action per         *)
(* character, with the PFLUSH and Output call it makes.  A character is   *)
(* a one-letter string, or CR, LF, NUL; memory nobody wrote is JUNK.       *)
(* ReallocatePool may fail; the new pool is zeroed (AllocateZeroPool).     *)
(* The PRINT_STATE is always zeroed (_PoolCatPrint 267), so every          *)
(* attribute is 0 and PSETATTR reduces to its PFLUSH.                      *)
(***************************************************************************)
EXTENDS Integers, SequencesExt

CONSTANTS
  PRINT_STRING_LEN, \* chars of _Print's Buffer, and _PoolPrint's growth step
  Jobs,             \* the calls: [call, fmt, args, size, pool]
  UintnModulus,     \* stands for 2^64: UINTN arithmetic wraps modulo it
  NoLimitCap,       \* chars of the caller's buffer when StrSize is 0
  NULL              \* a NULL string argument (model value)

NUL == "NUL"
JUNK == "JUNK"
CR == "CR"
LF == "LF"
NoWidth == -1         \* FieldWidth = (UINTN) -1

DigitChar == <<"0", "1", "2", "3", "4", "5", "6", "7", "8", "9">>
Hex == DigitChar \o <<"A", "B", "C", "D", "E", "F">>
Digit == Range(DigitChar)

VARIABLES
  job,        \* the call being made
  pc,         \* "fmt": outer loop; "dir": inside a %; "put": PPUTC; "done"
  fi,         \* ps->fmt.Index
  ai,         \* va_args taken so far
  item,       \* the PRINT_ITEM being parsed
  pending,    \* characters PITEM or the outer loop still has to PPUTC
  chunk,      \* ps->Buffer up to ps->Pos
  plen,       \* ps->Len
  spc,        \* the POOL_PRINT: [str, null, len, maxlen]
  emitted,    \* every character PPUTC was given, in order
  delivered,  \* every character handed to Output, in order
  overflow,   \* a write fell outside ps->Buffer or spc->str
  failed      \* a ReallocatePool of this call returned NULL

vars == <<job, pc, fi, ai, item, pending, chunk, plen, spc, emitted,
          delivered, overflow, failed>>

-----------------------------------------------------------------------------
(* Conversions *)

RECURSIVE HexDigits(_)
HexDigits(v) == IF v = 0 THEN <<>> ELSE HexDigits(v \div 16) \o <<Hex[(v % 16) + 1]>>

\* ValueToHex (584-613): nibbles from the low end into str[], copied back
\* reversed; 0 is "0".
ValueToHex(v) == IF v = 0 THEN <<"0">> ELSE HexDigits(v)

RECURSIVE DecDigits(_)
DecDigits(v) == IF v = 0 THEN <<>> ELSE DecDigits(v \div 10) \o <<DigitChar[(v % 10) + 1]>>

\* Plausible fault: the countdown table in the wrong order.
caSwapped == <<3, 2, 1>>

ca == <<3, 1, 2>>

\* The copy-out loop of ValueToString: c -= 1; a comma when c reaches 0.
RECURSIVE Group(_, _)
Group(ds, c) ==
  IF ds = <<>> THEN <<>>
  ELSE IF c - 1 = 0 THEN <<",", Head(ds)>> \o Group(Tail(ds), 3)
  ELSE <<Head(ds)>> \o Group(Tail(ds), c - 1)

\* ValueToString (615-659): sign, decimal digits, a comma every three
\* digits from the right when Comma.
ValueToString(comma, v) ==
  IF v = 0 THEN <<"0">>
  ELSE LET ds == DecDigits(IF v < 0 THEN -v ELSE v)
       IN (IF v < 0 THEN <<"-">> ELSE <<>>)
            \o Group(ds, (IF comma THEN ca[(Len(ds) % 3) + 1] ELSE 999) + 1)

-----------------------------------------------------------------------------
(* The output side *)

\* Plausible fault: the truncation's subtraction with its operands swapped.
TakeSwapped(s, text) ==
  IF s.len + Len(text) > s.maxlen THEN s.len - s.maxlen ELSE Len(text)

\* _SPrint (168-207): how many characters fit, where the copy ends, and
\* where the terminator goes.
Take(s, text) ==
  IF s.len + Len(text) > s.maxlen THEN (s.maxlen - s.len) % UintnModulus ELSE Len(text)
CopyEnd(s, text) == s.len + Take(s, text)
NulAt(s, text) ==
  IF CopyEnd(s, text) < s.maxlen THEN {CopyEnd(s, text)}
  ELSE IF s.maxlen # 0 THEN {s.maxlen} ELSE {}
SPrintWrites(s, text) == (s.len .. CopyEnd(s, text) - 1) \cup NulAt(s, text)

\* Plausible fault: CopyMem to spc->str, not spc->str + spc->len.
SPrintOutAtStart(s, text) ==
  [s EXCEPT
     !.str = [i \in DOMAIN s.str |->
                IF i - 1 \in 0 .. CopyEnd(s, text) - s.len - 1 THEN text[i]
                ELSE IF i - 1 \in NulAt(s, text) THEN NUL
                ELSE s.str[i]],
     !.len = CopyEnd(s, text)]

SPrintOut(s, text) ==
  [s EXCEPT
     !.str = [i \in DOMAIN s.str |->
                IF i - 1 \in s.len .. CopyEnd(s, text) - 1 THEN text[i - s.len]
                ELSE IF i - 1 \in NulAt(s, text) THEN NUL
                ELSE s.str[i]],
     !.len = CopyEnd(s, text)]

\* A write of _SPrint through a NULL str or past the end of str.
Wild(s, text) == \E i \in SPrintWrites(s, text) : s.null \/ i >= Len(s.str)

\* Plausible fault: ReallocatePool told the old size is 0, so nothing is
\* copied into the new pool.
GrownNoCopy(s, text, ok) ==
  LET newlen == s.len + Len(text) + 1 + PRINT_STRING_LEN
  IN IF ~(s.len + Len(text) + 1 > s.maxlen) THEN s
     ELSE IF ok THEN [str |-> [i \in 1..newlen |-> NUL], null |-> FALSE,
                      len |-> s.len, maxlen |-> newlen]
     ELSE [str |-> <<>>, null |-> TRUE, len |-> 0, maxlen |-> 0]

\* _PoolPrint (210-252): grow to len + StrLen + 1 + PRINT_STRING_LEN
\* when the text and its terminator do not fit; ReallocatePool copies the
\* len characters in use, or fails and the POOL_PRINT is emptied.
Grows(s, text) == s.len + Len(text) + 1 > s.maxlen
Grown(s, text, ok) ==
  LET newlen == s.len + Len(text) + 1 + PRINT_STRING_LEN
  IN IF ~Grows(s, text) THEN s
     ELSE IF ok THEN [str |-> [i \in 1..newlen |-> IF i <= s.len THEN s.str[i] ELSE NUL],
                      null |-> FALSE, len |-> s.len, maxlen |-> newlen]
     ELSE [str |-> <<>>, null |-> TRUE, len |-> 0, maxlen |-> 0]

\* PFLUSH (457-466): *Pos = 0, Output(Context, Buffer), Pos = Buffer.
\* bad: a write earlier in the same step fell outside its buffer.
PFLUSH(text, bad) ==
  /\ chunk' = <<>>
  /\ delivered' = delivered \o text
  /\ \E ok \in IF job.call # "SPrint" /\ Grows(spc, text) THEN BOOLEAN ELSE {TRUE} :
       LET s == IF job.call = "SPrint" THEN spc ELSE Grown(spc, text, ok)
       IN /\ spc' = SPrintOut(s, text)
          /\ overflow' = (overflow \/ bad \/ Len(text) >= PRINT_STRING_LEN \/ Wild(s, text))
          /\ failed' = (failed \/ ~ok)

NoFlush == UNCHANGED <<delivered, spc, failed>>

-----------------------------------------------------------------------------
(* _Print (813-1094) *)

\* PGETC (507-520) on the format; past its end it reads the terminator.
FmtChar(i) == IF i < Len(job.fmt) THEN job.fmt[i + 1] ELSE NUL

Arg == job.args[ai + 1]

\* 883-894: the item set up for each %.
NewItem == [fw |-> NoWidth, w |-> 0, toField |-> FALSE, pad |-> " ",
            before |-> TRUE, comma |-> FALSE, long |-> FALSE, text |-> <<>>]

\* PITEM (522-580): the item's length is capped by FieldWidth; Width grows
\* to the length; spaces fill FieldWidth before (or after, for '-') and
\* Pad fills Width before the item.
ItemText(it) ==
  LET n  == IF it.fw = NoWidth \/ Len(it.text) <= it.fw THEN Len(it.text) ELSE it.fw
      fw == IF it.fw = NoWidth THEN n ELSE it.fw
      w  == IF n > it.w THEN n ELSE it.w
      gap == [i \in 1..fw - w |-> " "]
  IN (IF it.before THEN gap ELSE <<>>)
       \o [i \in 1..w - n |-> it.pad] \o SubSeq(it.text, 1, n)
       \o (IF it.before THEN <<>> ELSE gap)

\* PPUTC of '\n' puts a '\r' first.
Cooked(s) == FlattenSeq([i \in DOMAIN s |-> IF s[i] = LF THEN <<CR, LF>> ELSE <<s[i]>>])

FlagChars == {"0", "-", ",", ".", "l", "N", "H", "E", "g", "D", "r"}
AttrChars == {"n", "h", "e"}
WidthChars == {"*"} \cup (Digit \ {"0"})
ItemChars == {"%", "a", "s", "c", "x", "X", "u", "d"}

\* 876-881: a character other than '%' is put.
Literal ==
  /\ pc = "fmt"
  /\ FmtChar(fi) \notin {"%", NUL}
  /\ pending' = Cooked(<<FmtChar(fi)>>)
  /\ fi' = fi + 1
  /\ pc' = "put"
  /\ UNCHANGED <<job, ai, item, chunk, plen, spc, emitted, delivered, overflow, failed>>

\* 883-896: '%' starts an item.
Percent ==
  /\ pc = "fmt"
  /\ FmtChar(fi) = "%"
  /\ item' = NewItem
  /\ fi' = fi + 1
  /\ pc' = "dir"
  /\ UNCHANGED <<job, ai, pending, chunk, plen, spc, emitted, delivered, overflow, failed>>

\* 909-923, 967-969, 986-990, 1010-1020, 1036-1039, 1053-1063,
\* 1078-1083: flags; 'N', 'H', 'E' set Attr to a zero attribute
\* and 'g', 'D', 'r' print nothing, so the loop reads on.
Flag ==
  /\ pc = "dir"
  /\ FmtChar(fi) \in FlagChars
  /\ LET c == FmtChar(fi)
     IN item' = CASE c = "0" -> [item EXCEPT !.pad = "0"]
                  [] c = "-" -> [item EXCEPT !.before = FALSE]
                  [] c = "," -> [item EXCEPT !.comma = TRUE]
                  [] c = "." -> [item EXCEPT !.toField = TRUE]
                  [] c = "l" -> [item EXCEPT !.long = TRUE]
                  [] OTHER   -> item
  /\ fi' = fi + 1
  /\ UNCHANGED <<job, pc, ai, pending, chunk, plen, spc, emitted, delivered, overflow, failed>>

RECURSIVE DigitRun(_)
DigitRun(i) == IF FmtChar(i) \in Digit THEN <<FmtChar(i)>> \o DigitRun(i + 1) ELSE <<>>

RECURSIVE NumberOf(_)
NumberOf(ds) ==
  IF ds = <<>> THEN 0
  ELSE 10 * NumberOf(Front(ds)) + CHOOSE d \in 0..9 : DigitChar[d + 1] = Last(ds)

\* 925-944: '*' takes the width from the arguments; a digit run is read
\* whole into *WidthParse, which '.' pointed at FieldWidth.
Width ==
  /\ pc = "dir"
  /\ FmtChar(fi) \in WidthChars
  /\ LET star == FmtChar(fi) = "*"
         n    == IF star THEN Arg ELSE NumberOf(DigitRun(fi))
     IN /\ item' = IF item.toField THEN [item EXCEPT !.fw = n] ELSE [item EXCEPT !.w = n]
        /\ fi' = fi + (IF star THEN 1 ELSE Len(DigitRun(fi)))
        /\ ai' = ai + (IF star THEN 1 ELSE 0)
  /\ UNCHANGED <<job, pc, pending, chunk, plen, spc, emitted, delivered, overflow, failed>>

\* 1041-1051, PSETATTR (468-483): 'n', 'h', 'e' flush before the
\* attribute changes; the loop reads on.
Attribute ==
  /\ pc = "dir"
  /\ FmtChar(fi) \in AttrChars
  /\ PFLUSH(chunk, FALSE)
  /\ fi' = fi + 1
  /\ UNCHANGED <<job, pc, ai, item, pending, plen, emitted>>

\* The item a character makes (901-907, 946-965, 971-1008, 1065-1069),
\* with
\* the va_args it takes.
ItemOf(c) ==
  CASE c = "%" -> [item EXCEPT !.text = <<"%">>]
    [] c \in {"a", "s"} ->
         [item EXCEPT !.text = IF Arg = NULL THEN <<"(", "n", "u", "l", "l", ")">> ELSE Arg]
    [] c = "c" -> [item EXCEPT !.text = <<Arg>>]
    [] c = "X" -> [item EXCEPT !.w = IF item.long THEN 16 ELSE 8, !.pad = "0",
                               !.text = ValueToHex(Arg)]
    [] c = "x" -> [item EXCEPT !.text = ValueToHex(Arg)]
    [] c \in {"u", "d"} -> [item EXCEPT !.text = ValueToString(item.comma, Arg)]
    [] OTHER -> [item EXCEPT !.text = <<"?">>]

ArgsOf(c) == IF c \in ItemChars \ {"%"} THEN 1 ELSE 0

\* 1072-1076, 1086-1088: an item ends the directive; PITEM queues its characters.
Item ==
  /\ pc = "dir"
  /\ LET c == FmtChar(fi)
     IN /\ c \notin FlagChars \cup AttrChars \cup WidthChars \cup {NUL}
        /\ item' = ItemOf(c)
        /\ pending' = Cooked(ItemText(ItemOf(c)))
        /\ pc' = IF ItemText(ItemOf(c)) = <<>> THEN "fmt" ELSE "put"
        /\ ai' = ai + ArgsOf(c)
  /\ fi' = fi + 1
  /\ UNCHANGED <<job, chunk, plen, spc, emitted, delivered, overflow, failed>>

\* Plausible fault: End taken as Buffer + PRINT_STRING_LEN.
PutLate ==
  /\ pc = "put"
  /\ LET b   == chunk \o <<Head(pending)>>
         bad == Len(chunk) >= PRINT_STRING_LEN
     IN IF Len(b) >= PRINT_STRING_LEN
        THEN PFLUSH(b, bad)
        ELSE chunk' = b /\ NoFlush /\ overflow' = (overflow \/ bad)
  /\ plen' = plen + 1
  /\ emitted' = emitted \o <<Head(pending)>>
  /\ pending' = Tail(pending)
  /\ pc' = IF Tail(pending) = <<>> THEN "fmt" ELSE "put"
  /\ UNCHANGED <<job, fi, ai, item>>

\* PPUTC (485-505): *Pos = c, Pos += 1, Len += 1; at End (the buffer's
\* last slot) PFLUSH.
Put ==
  /\ pc = "put"
  /\ LET b   == chunk \o <<Head(pending)>>
         bad == Len(chunk) >= PRINT_STRING_LEN
     IN IF Len(b) >= PRINT_STRING_LEN - 1
        THEN PFLUSH(b, bad)
        ELSE chunk' = b /\ NoFlush /\ overflow' = (overflow \/ bad)
  /\ plen' = plen + 1
  /\ emitted' = emitted \o <<Head(pending)>>
  /\ pending' = Tail(pending)
  /\ pc' = IF Tail(pending) = <<>> THEN "fmt" ELSE "put"
  /\ UNCHANGED <<job, fi, ai, item>>

\* 1089-1093: the format's terminator ends the loop; PFLUSH.
Finish ==
  /\ pc = "fmt"
  /\ FmtChar(fi) = NUL
  /\ PFLUSH(chunk, FALSE)
  /\ fi' = fi + 1
  /\ pc' = "done"
  /\ UNCHANGED <<job, ai, item, pending, plen, emitted>>

\* The POOL_PRINT a call starts from: VSPrint (310-317) wraps the caller's
\* StrSize bytes, maxlen = StrSize / 2 - 1 (modulo 2^64: 0 means no
\* limit); VPoolPrint (384-385) zeroes it; CatPrint takes the caller's.
CallerBuffer(j) ==
  CASE j.call = "SPrint" ->
         [str |-> [i \in 1..IF j.size = 0 THEN NoLimitCap ELSE j.size \div 2 |-> JUNK],
          null |-> FALSE, len |-> 0, maxlen |-> (j.size \div 2 - 1) % UintnModulus]
    [] j.call = "PoolPrint" -> [str |-> <<>>, null |-> TRUE, len |-> 0, maxlen |-> 0]
    [] j.call = "CatPrint" -> j.pool

Init ==
  /\ job \in Jobs
  /\ spc = CallerBuffer(job)
  /\ pc = "fmt" /\ fi = 0 /\ ai = 0 /\ item = NewItem
  /\ pending = <<>> /\ chunk = <<>> /\ plen = 0
  /\ emitted = <<>> /\ delivered = <<>>
  /\ overflow = FALSE /\ failed = FALSE

Next == Literal \/ Percent \/ Flag \/ Width \/ Attribute \/ Item \/ Put \/ Finish

Spec == Init /\ [][Next]_vars

-----------------------------------------------------------------------------
(* Properties *)

TypeOK ==
  /\ pc \in {"fmt", "dir", "put", "done"}
  /\ fi \in Nat /\ ai \in Nat /\ plen \in Nat
  /\ chunk \in Seq(STRING) /\ pending \in Seq(STRING)
  /\ emitted \in Seq(STRING) /\ delivered \in Seq(STRING)
  /\ spc \in [str : Seq(STRING), null : BOOLEAN, len : Nat, maxlen : Nat]
  /\ overflow \in BOOLEAN /\ failed \in BOOLEAN

\* The string a caller reads from a POOL_PRINT: up to the first NUL.
Terminated(s) == ~s.null /\ \E i \in DOMAIN s.str : s.str[i] = NUL
CString(s) == SubSeq(s.str, 1, Min({i \in DOMAIN s.str : s.str[i] = NUL}) - 1)

\* No write of PPUTC, PFLUSH, _SPrint or _PoolPrint lands outside
\* _Print's Buffer or the POOL_PRINT's str (or goes through a NULL str),
\* whatever the format, the StrSize and the ReallocatePool failures: the
\* flush at End leaves room for the '\r' of a newline and for PFLUSH's
\* terminator, and the truncation leaves room for _SPrint's.
NoWildWrite == ~overflow

\* When SPrint returns, the caller's buffer holds, up to its terminator,
\* the first maxlen characters _Print produced, over all the flushes it
\* made, and the returned length is theirs (for a buffer of at least two
\* characters: with one, maxlen is 0 and nothing is written).
SPrintReturnsPrefix ==
  job.call = "SPrint" /\ pc = "done" /\ spc.maxlen > 0 =>
    LET n == IF Len(emitted) < spc.maxlen THEN Len(emitted) ELSE spc.maxlen
    IN /\ Terminated(spc)
       /\ CString(spc) = SubSeq(emitted, 1, n)
       /\ spc.len = n

\* The text a CatPrint call appends to (none for PoolPrint).
OldText == IF job.call = "CatPrint" THEN CString(job.pool) ELSE <<>>

\* When PoolPrint or CatPrint returns and no ReallocatePool of the call
\* failed, the pool holds the earlier text followed by everything _Print
\* produced, terminated, and len counts it: growing by len + StrLen + 1
\* keeps the text and its terminator inside the pool.
PoolHoldsText ==
  job.call # "SPrint" /\ pc = "done" /\ ~failed =>
    /\ Terminated(spc)
    /\ CString(spc) = OldText \o emitted
    /\ spc.len = Len(CString(spc))

\* PoolPrint and CatPrint return NULL or a pool holding the earlier text
\* followed by everything _Print produced ("Allocated buffer with the
\* formatted string printed in it"), even when a ReallocatePool fails.
PoolResultComplete ==
  job.call # "SPrint" /\ pc = "done" /\ ~spc.null =>
    /\ Terminated(spc)
    /\ CString(spc) = OldText \o emitted

\* Reference conversions: the digits of m from the most significant, by
\* place value.
Places(m, b) == CHOOSE k \in 1..9 : b^(k - 1) <= m /\ m < b^k
InBase(m, b, digits) ==
  [i \in 1..Places(m, b) |-> digits[((m \div b^(Places(m, b) - i)) % b) + 1]]

RECURSIVE Thousands(_)
Thousands(ds) ==
  IF Len(ds) <= 3 THEN ds
  ELSE Thousands(SubSeq(ds, 1, Len(ds) - 3)) \o <<",">> \o SubSeq(ds, Len(ds) - 2, Len(ds))

DecimalRef(comma, v) ==
  IF v = 0 THEN <<"0">>
  ELSE LET ds == InBase(IF v < 0 THEN -v ELSE v, 10, DigitChar)
       IN (IF v < 0 THEN <<"-">> ELSE <<>>) \o (IF comma THEN Thousands(ds) ELSE ds)

\* Every number _Print formats with 'u' or 'd' becomes its sign and
\* decimal digits, with commas exactly between groups of three from the
\* right when ',' was given (ValueToString starts its countdown from the
\* ca[] entry for the digit count modulo 3), and every positive number
\* formatted with 'x' or 'X' becomes its hex digits without leading zeros.
ConversionsCorrect ==
  [][ pc = "dir" =>
        /\ FmtChar(fi) \in {"u", "d"} => item'.text = DecimalRef(item.comma, Arg)
        /\ FmtChar(fi) \in {"x", "X"} /\ Arg > 0 => item'.text = InBase(Arg, 16, Hex) ]_vars

=============================================================================
