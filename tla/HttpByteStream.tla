--------------------------- MODULE HttpByteStream ---------------------------
(***************************************************************************)
(* A response written piece by piece: HttpByteStream puts a header before  *)
(* the first piece and makes a chunk of each, in the letters of HttpParser.*)
(* What it has is the record [status, wroteHeader, out]; out is what the   *)
(* inner stream has taken, which may be less than it was given.            *)
(***************************************************************************)
EXTENDS Integers, Sequences, SequencesExt

NewStream == [status |-> 200, wroteHeader |-> FALSE, out |-> <<>>]

DigitLetter == <<"0", "1", "2", "3", "4", "5", "6", "7", "8", "9", "a", "b", "c", "d", "e", "f">>
RECURSIVE StrBase(_, _)
StrBase(base, n) ==
    IF n < base THEN <<DigitLetter[n + 1]>> ELSE StrBase(base, n \div base) \o <<DigitLetter[(n % base) + 1]>>
Str(n) == StrBase(10, n)
HexStr(n) == StrBase(16, n)

\* The words for a status; every other code is a server's error.
Verbose(code) ==
    CASE code = 200 -> <<"Success">> [] code = 201 -> <<"Created">> [] code = 202 -> <<"Accepted">>
      [] code = 203 -> <<"Partial", "SP", "Content">> [] code = 400 -> <<"Bad", "SP", "Request">>
      [] code = 404 -> <<"File", "SP", "Not", "SP", "Found">> [] code = 406 -> <<"Not", "SP", "Acceptable">>
      [] OTHER -> <<"Internal", "SP", "Server", "SP", "Error">>

CRLF == <<"CR", "LF">>

\* A call of the inner stream's write(): of the calls that are short it takes so many letters,
\* of the others all.  What it answers is ignored.
Taken(letters, call, short) == IF call \in DOMAIN short THEN SubSeq(letters, 1, short[call]) ELSE letters

WriteHeader(s, short) ==
    LET header == <<"H", "T", "T", "P", "/", "1", ".", "1", "SP">> \o Str(s.status) \o <<"SP">> \o Verbose(s.status)
                  \o CRLF \o <<"t", "ransfer-", "encoding", ":", "SP", "c", "h", "unked">> \o CRLF \o CRLF
    IN  [s EXCEPT !.wroteHeader = TRUE, !.out = @ \o Taken(header, "header", short)]

\* The chunk's length, its data and its end, whatever became of the ones before.
Write(s, data, short) ==
    LET begun == IF s.wroteHeader THEN s ELSE WriteHeader(s, short) IN
    [begun EXCEPT !.out = @ \o Taken(HexStr(Len(data)) \o CRLF, "length", short)
                            \o Taken(data, "data", short) \o Taken(CRLF, "end", short)]

SetStatus(s, code) == [s EXCEPT !.status = code]
Reset(s) == [s EXCEPT !.wroteHeader = FALSE, !.status = 200]

=============================================================================
