--------------------------- MODULE MCPrintEngine ---------------------------
(***************************************************************************)
(* Calls of the print library for TLC.  A Buffer of 4 characters flushes  *)
(* every 3, so most formats flush mid-item, and a "\r\n" can fall on both *)
(* sides of a flush.  Each format is printed by SPrint into buffers of 0  *)
(* (no limit), 1, 2 and 4 characters, by PoolPrint, and by CatPrint onto  *)
(* the pool a PoolPrint of "b" leaves.                                     *)
(***************************************************************************)
EXTENDS PrintEngine

\* Digit counts 1 to 7, each modulo 3, signed and unsigned.
MCCommaValues == {7, 999, 1000, 65535, 123456, 1234567, -1000, -999999}

\* Formats with the va_args they take: every flag, width form, attribute
\* and item kind, digit runs, an empty and a NULL string, "%%", the
\* no-item 'g' and an unknown character.
MCFormats == {
  [fmt |-> <<"a", "b", LF, "c">>, args |-> <<>>],
  [fmt |-> <<"%", "5", "d">>, args |-> <<-12>>],
  [fmt |-> <<"%", ",", "d">>, args |-> <<1234>>],
  [fmt |-> <<"%", "-", ".", "3", "s">>, args |-> <<<<"a", "b">>>>],
  [fmt |-> <<"%", "x", "%", "X">>, args |-> <<255, 10>>],
  [fmt |-> <<"a", "%", "h", "s">>, args |-> <<NULL>>],
  [fmt |-> <<"%", "*", "c">>, args |-> <<3, "b">>],
  [fmt |-> <<"%", "%", "%", "g", "z">>, args |-> <<>>],
  [fmt |-> <<"%", "l", "u", "%", "N", "0", "1", "2", "d">>, args |-> <<7, 0>>],
  [fmt |-> <<"%", "s", "%", "a">>, args |-> <<<<>>, <<LF>>>>]}
  \cup {[fmt |-> <<"%", ",", "d">>, args |-> <<v>>] : v \in MCCommaValues}
  \cup {[fmt |-> <<"%", "x">>, args |-> <<v>>] : v \in {4096, 65535, 1234567}}

NoPool == [str |-> <<>>, null |-> TRUE, len |-> 0, maxlen |-> 0]

\* The POOL_PRINT PoolPrint(L"b") returns: 1 + 1 + PRINT_STRING_LEN
\* zeroed characters holding "b".
PriorPool == [str |-> <<"b", NUL, NUL, NUL, NUL, NUL>>, null |-> FALSE,
              len |-> 1, maxlen |-> 6]

MCJobs ==
  {[call |-> "SPrint", size |-> z, pool |-> NoPool, fmt |-> f.fmt, args |-> f.args] :
      z \in {0, 2, 4, 8}, f \in MCFormats}
  \cup {[call |-> c, size |-> 0, pool |-> IF c = "CatPrint" THEN PriorPool ELSE NoPool,
         fmt |-> f.fmt, args |-> f.args] : c \in {"PoolPrint", "CatPrint"}, f \in MCFormats}

=============================================================================
