-------------------------------- MODULE Printf --------------------------------
(***************************************************************************)
(* kprintf of kfs1 and kfs2 (printf/srcs), one call of it; beside it the   *)
(* functions of kfs2 and kfs3 that print a single number.                  *)
(*                                                                         *)
(* format is what is left of the format string, sc_len the count kprintf   *)
(* keeps, out the characters it has given to the screen and result what it *)
(* has returned.  A string ends where its sequence ends.                   *)
(*                                                                         *)
(* va_list is a pointer to the pointer to the next argument, and va_start  *)
(* writes through it without giving it a value.  arg is what it happens to *)
(* point to: memory nobody uses, a variable of the kernel, or kprintf's    *)
(* own frame, after which anything may happen.                             *)
(*                                                                         *)
(* text and taken are history variables: the whole format, and for each    *)
(* argument its specifier, its value and what was printed for it.          *)
(***************************************************************************)
EXTENDS Numbers
LOCAL INSTANCE SequencesExt
LOCAL INSTANCE FiniteSetsExt

CONSTANTS
    Formats,     \* the format strings considered
    Operands,    \* length of a format -> the words passed to numeric specifiers
    Strings,     \* the strings passed for %s
    Characters   \* the characters passed for %c

NullPointer == <<"NULL">>
Specifiers == {"s", "c", "d", "i", "x", "X", "p", "u", "%"}
Printers == {"hex_print", "print_hex", "print_hex_short", "print_dec"}
NotReturned == -2

ASSUME PrintfAssumption ==
    \A f \in Formats : Len(f) \in DOMAIN Operands /\ Operands[Len(f)] \subseteq 0 .. Word - 1

VARIABLES pc, arg, variable, format, sc_len, out, result, text, taken

vars == <<pc, arg, variable, format, sc_len, out, result, text, taken>>

----------------------------------------------------------------------------
(* What each specifier prints, and by how much it raises sc_len *)

Printed(chars, n) == [out |-> chars, len |-> n]
NullText == <<"(", "n", "u", "l", "l", ")">>

ft_choice_s(str) ==
    IF str = NullPointer THEN Printed(NullText, 6) ELSE Printed(str, Len(str))
ft_choice_c(ch) == Printed(<<ch>>, 1)
ft_choice_d_i(w) == Printed(ft_putnbr(Signed(w)), ft_intlen(Signed(w)))

ft_choice_u(w) ==
    IF w = 0 THEN Printed(<<"0">>, 1) ELSE Printed(ft_putnbr_u(w), ft_memlen(w, 10))
ft_choice_p(w) ==
    IF w = 0 THEN Printed(<<"0", "x", "0">>, 3)
    ELSE Printed(<<"0", "x">> \o ft_print_adress(w), 2 + ft_memlen(w, 16))
ft_choice_x(c, w) ==
    Printed(ft_print_hexa_x(w, IF c = "x" THEN lowercase ELSE uppercase),
            IF w = 0 \/ w = LONG_MIN THEN ft_memlen(w, 16) + 1 ELSE ft_memlen(w, 16))
ft_choice_pourcent == Printed(<<"%">>, 1)

Choice(c, v) ==
    CASE c = "s" -> ft_choice_s(v)
      [] c = "c" -> ft_choice_c(v)
      [] c \in {"d", "i"} -> ft_choice_d_i(v)
      [] c \in {"x", "X"} -> ft_choice_x(c, v)
      [] c = "p" -> ft_choice_p(v)
      [] c = "u" -> ft_choice_u(v)

\* What a caller may pass for it.
Arguments(c) ==
    CASE c = "s" -> Strings
      [] c = "c" -> Characters
      [] OTHER -> Operands[Len(text)]

----------------------------------------------------------------------------
(* Actions *)

Init ==
    /\ pc = "start"
    /\ arg \in {"spare", "variable", "frame"}
    /\ variable = "its own"
    /\ text \in Formats
    /\ format = text
    /\ sc_len = 0
    /\ out = <<>>
    /\ result = NotReturned
    /\ taken = <<>>

\* init_format_state and va_start.
Start ==
    /\ pc = "start"
    /\ pc' = IF arg = "frame" THEN "astray" ELSE "loop"
    /\ variable' = IF arg = "variable" THEN "overwritten" ELSE variable
    /\ UNCHANGED <<arg, format, sc_len, out, result, text, taken>>

\* ft_strchr: the characters before the next "%".  Mutant: all that are left.
TextLength_All(f) == Len(f)
TextLength(f) == IF Contains(f, "%") THEN SelectInSeq(f, LAMBDA c : c = "%") - 1 ELSE Len(f)

ft_read_text ==
    LET n == TextLength(format) IN
    /\ pc = "loop" /\ format # <<>> /\ format[1] # "%"
    /\ out' = out \o SubSeq(format, 1, n)
    /\ sc_len' = sc_len + n
    /\ format' = SubSeq(format, TextLength(format) + 1, Len(format))
    /\ UNCHANGED <<pc, arg, variable, result, text, taken>>

AtSpecifier == pc = "loop" /\ Len(format) >= 2 /\ format[1] = "%"
Next2 == SubSeq(format, 3, Len(format))

\* ft_read_arg, with the next argument.
ft_read_arg ==
    /\ AtSpecifier /\ format[2] \in Specifiers \ {"%"}
    /\ \E v \in Arguments(format[2]) :
         LET printed == Choice(format[2], v) IN
         /\ out' = out \o printed.out
         /\ sc_len' = sc_len + printed.len
         /\ taken' = Append(taken, [specifier |-> format[2], value |-> v,
                                    chars |-> printed.out])
    /\ format' = Next2
    /\ UNCHANGED <<pc, arg, variable, result, text>>

ft_read_pourcent ==
    /\ AtSpecifier /\ format[2] = "%"
    /\ out' = out \o ft_choice_pourcent.out
    /\ sc_len' = sc_len + ft_choice_pourcent.len
    /\ format' = Next2
    /\ UNCHANGED <<pc, arg, variable, result, text, taken>>

\* No specifier, or the end of the string, behind "%".  Mutant: the end is not
\* noticed.
Unknown_NotAtEnd == Len(format) >= 2 /\ format[1] = "%" /\ format[2] \notin Specifiers
Unknown ==
    /\ format # <<>> /\ format[1] = "%"
    /\ Len(format) >= 2 => format[2] \notin Specifiers

Return(value) ==
    /\ result' = value
    /\ pc' = "done"
    /\ UNCHANGED <<arg, variable, format, sc_len, text, taken>>

ReturnError == pc = "loop" /\ Unknown /\ out' = out \o NullText /\ Return(-1)
ReturnLength == pc = "loop" /\ format = <<>> /\ Return(sc_len) /\ UNCHANGED out

\* One number, printed in one call.
PrintNumber(printer, w) ==
    LET chars == CASE printer = "hex_print" -> hex_print(w)
                   [] printer = "print_hex" -> print_hex(w)
                   [] printer = "print_hex_short" -> print_hex_short(w)
                   [] printer = "print_dec" -> print_dec(w)
    IN  /\ pc = "start" /\ text = <<>> /\ arg = "spare"
        /\ out' = chars
        /\ taken' = <<[specifier |-> printer, value |-> w, chars |-> chars]>>
        /\ pc' = "printed"
        /\ UNCHANGED <<arg, variable, format, sc_len, result, text>>

Next ==
    \/ Start \/ ft_read_text \/ ft_read_arg \/ ft_read_pourcent
    \/ ReturnError \/ ReturnLength
    \/ \E printer \in Printers, w \in 0 .. Word - 1 : PrintNumber(printer, w)

\* A call runs to its end: no interrupt is ever enabled.
Spec == Init /\ [][Next]_vars /\ WF_vars(Next)

----------------------------------------------------------------------------
(* Properties *)

TypeOK ==
    /\ pc \in {"start", "loop", "done", "printed", "astray"}
    /\ sc_len \in Nat
    /\ result \in Nat \cup {-1, NotReturned}
    /\ (result # NotReturned) = (pc = "done")
    /\ variable \in {"its own", "overwritten"}

\* ft_printf.c:141: kprintf returns the number of characters printed, but
\* ft_choice.c:123 counts one too many for %x of LONG_MIN.
Overcounted == {i \in DOMAIN taken : taken[i].specifier \in {"x", "X"} /\ taken[i].value = LONG_MIN}
CountsOutput ==
    pc # "printed" /\ result # -1 => sc_len = Len(out) + Cardinality(Overcounted)

\* Where the format has a "%" that is not the second of a pair.
Begins(f) ==
    LET begins[i \in 0 .. Len(f)] == i > 0 /\ f[i] = "%" /\ ~begins[i - 1]
    IN  {i \in DOMAIN f : begins[i]}
WellFormed(f) ==
    \A i \in Begins(f) : i < Len(f) /\ f[i + 1] \in Specifiers

\* kprintf fails exactly on the formats that have a "%" without a specifier.
FailsOnlyIfMalformed == pc = "done" => (result = -1) = ~WellFormed(text)

\* What has been printed is the format with each specifier replaced, in order,
\* by what was printed for its argument: no character or argument is lost,
\* repeated or used in place of another.
Directives(f) == {i \in Begins(f) : i < Len(f) /\ f[i + 1] # "%"}
NthArgument(f, i) == Cardinality({j \in Directives(f) : j <= i})
Replaced(f) ==
    FlattenSeq([i \in DOMAIN f |->
        IF i \in Directives(f) THEN taken[NthArgument(f, i)].chars
        ELSE IF i \in Begins(f) THEN <<"%">>
        ELSE IF i - 1 \in Begins(f) THEN <<>> ELSE <<f[i]>>])
IsReplaced ==
    pc = "done" /\ result # -1 =>
        Len(taken) = Cardinality(Directives(text)) /\ out = Replaced(text)

\* kprintf prints the format, counts what it prints and fails when it should.
PrintsFormat == TypeOK /\ IsReplaced /\ CountsOutput /\ FailsOnlyIfMalformed

\* The digits printed for a number, read back by the shell's own functions,
\* are that number, and kprintf pads none with zeros.
Unsigned(chars) == IF chars[1] = "-" THEN Tail(chars) ELSE chars
ReadsBack(t) ==
    CASE t.specifier \in {"d", "i"} ->
           /\ (t.chars[1] = "-") = (Signed(t.value) < 0)
           /\ katoi(Unsigned(t.chars)) = IF Signed(t.value) < 0 THEN Word - t.value ELSE t.value
      [] t.specifier \in {"u", "print_dec"} -> katoi(t.chars) = t.value
      [] t.specifier \in {"x", "X", "p", "hex_print", "print_hex"} ->
           katoi_hex(t.chars) = t.value
      [] t.specifier = "print_hex_short" ->
           katoi_hex(t.chars) = t.value % (16 ^ (Nibbles \div 2))
      [] OTHER -> TRUE
Padded(t) == t.specifier \in {"d", "i", "u", "x", "X"} /\ Len(t.chars) > 1
               /\ Unsigned(t.chars)[1] = "0"
NumbersReadBack == \A i \in DOMAIN taken : ReadsBack(taken[i]) /\ ~Padded(taken[i])

\* Every call returns.
Returns == <>(pc \in {"done", "printed", "astray"})

(* What the comments say, and the code does not do. *)

\* ft_printf.c:141: "Returns: Number of characters printed, or -1 on error".
ReturnsLength == pc = "done" /\ result # -1 => result = Len(out)

\* ft_printf.h:49: va_start is to "Initialize va_list to point after the last
\* named parameter", and prints nothing and changes no variable of the kernel.
VariablesKept == variable = "its own"

=============================================================================
