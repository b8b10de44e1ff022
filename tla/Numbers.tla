------------------------------- MODULE Numbers -------------------------------
(***************************************************************************)
(* The conversions between numbers and text: kprintf's of kfs1 and kfs2,   *)
(* hex_print of kfs2, and print_dec, print_hex, katoi and katoi_hex of     *)
(* kfs3.  A text is a sequence of characters.                              *)
(***************************************************************************)
EXTENDS Integers, Sequences, FiniteSets
LOCAL INSTANCE SequencesExt

CONSTANT Nibbles   \* the hexadecimal digits of a word, 8

ASSUME NumbersAssumption == Nibbles \in Nat \ {0}

Word == 16 ^ Nibbles
LONG_MIN == Word \div 2        \* as an unsigned word
Signed(w) == IF w >= LONG_MIN THEN w - Word ELSE w

lowercase == <<"0", "1", "2", "3", "4", "5", "6", "7", "8", "9",
               "a", "b", "c", "d", "e", "f">>
uppercase == [i \in 1 .. 16 |-> IF i <= 10 THEN lowercase[i]
                                ELSE <<"A", "B", "C", "D", "E", "F">>[i - 10]]

----------------------------------------------------------------------------
(* Numbers to text *)

\* The loops that divide by the base until nothing is left take as many turns
\* as there are powers of the base (10 or 16) up to n, none for 0.
Turns(n, base) == Cardinality({k \in 0 .. 2 * Nibbles : base ^ k <= n})

\* The digits of n, the most significant first; no digit for 0.
DigitsOf(n, base) ==
    [i \in 1 .. Turns(n, base) |-> (n \div (base ^ (Turns(n, base) - i))) % base]
Chars(digits, chars) == [i \in DOMAIN digits |-> chars[digits[i] + 1]]
Numeral(n, base, chars) == IF n = 0 THEN <<"0">> ELSE Chars(DigitsOf(n, base), chars)

ft_putnbr_u(n) == Numeral(n, 10, lowercase)

\* The smallest number has a text of its own: its negative is no int.
ft_putnbr(nb) ==
    IF nb >= 0 THEN ft_putnbr_u(nb) ELSE <<"-">> \o ft_putnbr_u(-nb)

\* Mutant: the digits are put out in the order they are found.
ft_print_hexa_x_Backwards(n, chars) == Reverse(Numeral(n, 16, chars))
ft_print_hexa_x(n, chars) == Numeral(n, 16, chars)
ft_print_adress(n) == Numeral(n, 16, lowercase)

\* How many digits kprintf counts.
ft_memlen(n, base) == Turns(n, base)
ft_intlen(nb) ==
    IF nb = 0 THEN 1 ELSE IF nb < 0 THEN ft_memlen(-nb, 10) + 1 ELSE ft_memlen(nb, 10)

\* All the digits of a word, leading zeros too, by shifts.
Shifted(n, places) ==
    [i \in 1 .. places |-> uppercase[((n \div (16 ^ (places - i))) % 16) + 1]]
hex_print(n) == <<"0", "x">> \o Shifted(n, Nibbles)
print_hex(n) == <<"0", "x">> \o Shifted(n, Nibbles)
print_hex_short(n) == Shifted(n, Nibbles \div 2)

\* dec_str has room for DecRoom digits.
DecRoom == 11
print_dec(n) ==
    LET text == Numeral(n, 10, lowercase)
    IN  IF Len(text) > DecRoom THEN SubSeq(text, Len(text) - DecRoom + 1, Len(text))
        ELSE text

----------------------------------------------------------------------------
(* Text to numbers, as the shell reads them *)

DigitValue(c) ==
    LET places == {i \in 1 .. 16 : c \in {lowercase[i], uppercase[i]}}
    IN  IF places = {} THEN 16 ELSE CHOOSE i \in 0 .. 15 : i + 1 \in places

\* The digits of the base at the start of the text.
Leading(text, base) ==
    SelectInSeq(text, LAMBDA c : DigitValue(c) >= base)
DigitsIn(text, base) ==
    IF Leading(text, base) = 0 THEN text ELSE SubSeq(text, 1, Leading(text, base) - 1)
Read(text, base) ==
    FoldLeft(LAMBDA result, c : (result * base + DigitValue(c)) % Word,
             0, DigitsIn(text, base))

katoi(text) == Read(text, 10)

HasPrefix(text) == Len(text) >= 2 /\ text[1] = "0" /\ text[2] \in {"x", "X"}

katoi_hex(text) ==
    Read(IF HasPrefix(text) THEN SubSeq(text, 3, Len(text)) ELSE text, 16)

=============================================================================
