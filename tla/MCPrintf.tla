-------------------------------- MODULE MCPrintf --------------------------------
(***************************************************************************)
(* Instances of kprintf for TLC: all formats of up to four characters of   *)
(* an alphabet with every specifier, and words of two hexadecimal      *)
(* digits.  Short formats are given every word, long ones those at the     *)
(* ends of the ranges and at a change of the number of digits.             *)
(***************************************************************************)
EXTENDS Printf

Alphabet == {"k", "newline", "%", "s", "c", "d", "i", "u", "x", "X", "p"}
Words == 0 .. Word - 1
Corners == {0, 1, 9, 10, 16, 100, LONG_MIN - 1, LONG_MIN, LONG_MIN + 1, Word - 1}
AllFormats ==
    UNION {[1 .. n -> Alphabet] : n \in 0 .. 3}
      \cup {f \in [1 .. 4 -> {"%", "k", "d", "x", "s"}] : f[1] # "k"}
FewWords == [n \in 0 .. 4 |-> IF n <= 2 THEN Words ELSE Corners]
SomeStrings == {NullPointer, <<>>, <<"k", "%">>}
SomeCharacters == {"k", "%"}

=============================================================================
