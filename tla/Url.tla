---------------------------------- MODULE Url ----------------------------------
(***************************************************************************)
(* Url (src/src/lib/http/Url.cpp).  Characters are their numbers, of a     *)
(* signed char.                                                            *)
(***************************************************************************)
EXTENDS Serialize, TLC

\* encode()'s switch on c >> 4, whose cases fall through to the last.
Escaped(c) ==
    \/ c \div 16 = 5 /\ c \in {91, 93}     \* '[', ']'
    \/ c \div 16 = 4 /\ c = 64             \* '@'
    \/ c \div 16 = 3 /\ c >= 58            \* ':' and above
    \/ c \div 16 = 2                       \* punctuation and the space

HexLetter(d) == IF d < 10 THEN 48 + d ELSE 87 + d

EncodeText(text) ==
    FlattenSeq([i \in DOMAIN text |-> LET c == text[i] IN
        IF Escaped(c) THEN <<37, HexLetter(c \div 16), HexLetter(c % 16)>> ELSE <<c>>])

IsHexLetter(c) == c \in 48..57 \cup 65..70 \cup 97..102
HexValue(c) == IF c < 58 THEN c - 48 ELSE IF c < 71 THEN c - 55 ELSE c - 87

\* strtoul() of two characters, as a char: what is not two digits is a digit, 0 or, with a '-', negative.
CharOf(c, d) ==
    IF ~IsHexLetter(c) THEN 0
    ELSE IF ~IsHexLetter(d) THEN HexValue(c)
    ELSE LET n == 16 * HexValue(c) + HexValue(d) IN IF n > 127 THEN n - 256 ELSE n

\* A '%' with two characters after it that stand for a character from the space on is that character;
\* left is how many characters of text are passed over already.
DecodeText(text) ==
    LET Step(s, i) ==
            IF s.left > 0 THEN [s EXCEPT !.left = @ - 1]
            ELSE IF text[i] = 37 /\ i + 2 <= Len(text) /\ CharOf(text[i + 1], text[i + 2]) >= 32
            THEN [left |-> 2, res |-> Append(s.res, CharOf(text[i + 1], text[i + 2]))]
            ELSE [s EXCEPT !.res = Append(@, text[i])]
    IN FoldLeftDomain(Step, [left |-> 0, res |-> <<>>], text).res

FindChar(text, c) == SelectInSeq(text, LAMBDA d : d = c)

baseUrl(url) == LET pos == FindChar(url, 63) IN IF pos = 0 THEN url ELSE SubSeq(url, 1, pos - 1)
components(url) == split(baseUrl(url), 47, TRUE)

queryString(url) == LET pos == FindChar(url, 63) IN
    IF pos = 0 \/ pos = Len(url) THEN <<>> ELSE SubSeq(url, pos + 1, Len(url))

\* A token without a value, or with an empty one, is a name by itself, the '=' included.
params(url) ==
    LET Add(ps, token) == LET equal == FindChar(token, 61) IN
            IF equal = 0 \/ equal = Len(token) THEN (token :> <<>>) @@ ps
            ELSE (SubSeq(token, 1, equal - 1) :> DecodeText(SubSeq(token, equal + 1, Len(token)))) @@ ps
    IN FoldLeft(Add, [k \in {} |-> <<>>], split(queryString(url), 38, FALSE))

-----------------------------------------------------------------------------
(* Texts put into URLs *)

CONSTANTS Char, MaxChars

VARIABLE text

Init == text = <<>>
Next == Len(text) < MaxChars /\ \E c \in Char : text' = Append(text, c)

\* decode() undoes encode(), whatever the text; and a text that was encoded is taken out of a URL's path
\* and its parameters as it was put in, next to others, but for an empty one.
TextsThroughUrls ==
    LET code == EncodeText(text)
        back == EncodeText(Reverse(text))
        url == <<47, 97, 47, 47>> \o code \o <<47>> \o back \o <<63, 97, 61>> \o code \o <<38, 98, 61>> \o back
        a == IF text = <<>> THEN <<97, 61>> ELSE <<97>>
        b == IF text = <<>> THEN <<98, 61>> ELSE <<98>>
    IN /\ DecodeText(code) = text
       /\ params(url) = (a :> text) @@ (b :> Reverse(text))
       /\ components(url) = <<<<97>>>> \o IF text = <<>> THEN <<>> ELSE <<code, back>>

=============================================================================
