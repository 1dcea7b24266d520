------------------------------ MODULE Serialize ------------------------------
(***************************************************************************)
(* base64::encode() and decode() (src/src/lib/serialize/base64.cpp), and   *)
(* turbo::str::split() and join() (serialize/str.h, str_join.h).  Bytes    *)
(* and the characters of base64 are their numbers; the others' are any     *)
(* values.                                                                 *)
(***************************************************************************)
EXTENDS Integers, Sequences, SequencesExt

\* "0123456789ABCDEFGHIJKLMNOPQRSTUVWXYZ^_abcdefghijklmnopqrstuvwxyz" in ASCII, which is in its order.
base64_chars == [d \in 0..63 |-> d + (IF d < 10 THEN 48 ELSE IF d < 36 THEN 55 ELSE IF d < 38 THEN 58 ELSE 59)]
Equals == 61

is_base64(c) == c \in 48..57 \cup 65..90 \cup 97..122 \cup {94, 95}

\* base64_chars.find(): npos is 255 in an unsigned char.
Digit(c) == IF is_base64(c) THEN CHOOSE d \in 0..63 : base64_chars[d] = c ELSE 255

\* Three bytes, the missing ones 0, are four digits; those of missing bytes alone become '='.
encode(bytes) ==
    LET n == Len(bytes)
        Byte(i) == IF i <= n THEN bytes[i] ELSE 0
        Digits(a, b, c) == <<a \div 4, (a % 4) * 16 + b \div 16, (b % 16) * 4 + c \div 64, c % 64>>
        Group(i) == LET g == 3 * ((i - 1) \div 4) IN Digits(Byte(g + 1), Byte(g + 2), Byte(g + 3))
        Padded(i) == (i - 1) % 4 > n - 3 * ((i - 1) \div 4)
    IN [i \in 1..(4 * ((n + 2) \div 3)) |->
            IF Padded(i) THEN Equals ELSE base64_chars[Group(i)[((i - 1) % 4) + 1]]]

\* Variant: one for each character.
RestOf(r) == r

\* How many bytes the last r characters, fewer than four, are good for.
Rest(r) == IF r = 0 THEN 0 ELSE r - 1

\* Up to the first '=' or foreign character, four at a time; and of the rest what is whole.
decode(chars) ==
    LET stop == SelectInSeq(chars, LAMBDA c : c = Equals \/ ~is_base64(c))
        m == IF stop = 0 THEN Len(chars) ELSE stop - 1
        At(i) == IF i <= m THEN Digit(chars[i]) ELSE Digit(0)
        Bytes(a, b, c, d) == <<(a * 4 + ((b \div 16) % 4)) % 256, (b % 16) * 16 + ((c \div 4) % 16), ((c % 4) * 64 + d) % 256>>
        Group(j) == LET g == 4 * ((j - 1) \div 3) IN Bytes(At(g + 1), At(g + 2), At(g + 3), At(g + 4))
    IN [j \in 1..(3 * (m \div 4) + Rest(m % 4)) |-> Group(j)[((j - 1) % 3) + 1]]

split(input, delim, ignoreEmpty) ==
    LET Cut(tokens, c) == IF c = delim THEN Append(tokens, <<>>)
                                       ELSE [tokens EXCEPT ![Len(tokens)] = Append(@, c)]
        All == IF input = <<>> THEN <<>> ELSE FoldLeft(Cut, <<<<>>>>, input)
    IN SelectSeq(All, LAMBDA token : ~ignoreEmpty \/ token # <<>>)

join(tokens, delim) ==
    IF tokens = <<>> THEN <<>> ELSE FoldLeft(LAMBDA text, t : text \o <<delim>> \o t, Head(tokens), Tail(tokens))

=============================================================================
