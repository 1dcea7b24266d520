------------------------------- MODULE MCHttp -------------------------------
(***************************************************************************)
(* HttpParser on messages of every form, cut into buffers in every         *)
(* way; URLs, and responses in several threads.                            *)
(***************************************************************************)
EXTENDS HttpMessages, HttpCallbacks

Get == Request("GET", <<"G", "ET">>, <<"/">>, Version11, <<>>)
ContentLengthName == <<"c", "o", "n", "t", "ent-length">>
TransferName == <<"t", "ransfer-", "encoding">>
ConnectionName == <<"c", "o", "n", "n", "ection">>
UpgradeName == <<"u", "p", "grade">>
LengthOf(n) == Header(ContentLengthName, Str(n))
IsChunked == Header(TransferName, <<"c", "h", "unked">>)
IsClose == Header(ConnectionName, <<"c", "l", "ose">>)
IsKept == Header(ConnectionName, <<"k", "eep-", "alive">>)
Other == Header(<<"c", "o", "n", "x">>, <<"y", "SP", ",", "z">>)

Post(headers, framing, body) ==
    Carrying(Request("POST", <<"P", "O", "ST">>, <<"/", "a", "?", "b", "=", "1">>, Version11, headers), framing, body)
Answer(code, headers, framing, body) ==
    Carrying(Response(Version11, code, <<"words", "SP", "more">>, headers), framing, body)

\* A stream in letters, what is heard of it and the error it ends in.
Raw(letters, calls, errno) == [wire |-> letters, heard |-> calls, errno |-> errno, refusals |-> {}, skips |-> FALSE]
GetLine == <<"G", "ET", "SP", "/", "SP">> \o Version11 \o CRLF
Begun == <<<<"message_begin", <<>>>>>>
Slash == <<<<"url", <<"/">>>>>>
LengthHeard == <<"header_field", ContentLengthName>>
Text(method, upgrade, headers) ==
    MessageHeard([Request(method, <<>>, <<"/">>, Version11, headers) EXCEPT !.facts = <<method, 0, upgrade>>])

\* Requests of every method, in the form that has no version and no header.
MethodLetters == [
    DELETE |-> <<"D", "ELETE">>, GET |-> <<"G", "ET">>, HEAD |-> <<"H", "E", "AD">>,
    POST |-> <<"P", "O", "ST">>, PUT |-> <<"P", "U", "T">>, OPTIONS |-> <<"O", "PTIONS">>,
    TRACE |-> <<"T", "RACE">>, COPY |-> <<"C", "O", "P", "Y">>, LOCK |-> <<"L", "OCK">>,
    MKCOL |-> <<"M", "K", "C", "OL">>, MOVE |-> <<"M", "O", "VE">>,
    PROPFIND |-> <<"P", "R", "O", "P", "F", "IND">>, PROPPATCH |-> <<"P", "R", "O", "P", "P", "ATCH">>,
    SEARCH |-> <<"S", "E", "ARCH">>, UNLOCK |-> <<"U", "N", "L", "OCK">>, REPORT |-> <<"R", "EPORT">>,
    MKACTIVITY |-> <<"M", "K", "A", "CTIVITY">>, CHECKOUT |-> <<"C", "H", "ECKOUT">>,
    MERGE |-> <<"M", "E", "RGE">>, MSEARCH |-> <<"M", "-", "SEARCH">>, NOTIFY |-> <<"N", "OTIFY">>,
    SUBSCRIBE |-> <<"S", "U", "BSCRIBE">>, UNSUBSCRIBE |-> <<"U", "N", "S", "UBSCRIBE">>,
    PATCH |-> <<"P", "A", "TCH">>, PURGE |-> <<"P", "U", "R", "GE">>,
    MKCALENDAR |-> <<"M", "K", "C", "A", "LENDAR">>]
OldRequest(method, letters, url) ==
    Message(letters \o <<"SP">> \o url \o CRLF, <<<<"url", url>>>>, <<method, 0, FALSE>>, <<>>)
Methods == {StreamOf(<<OldRequest(m, MethodLetters[m], <<"/">>)>>) : m \in DOMAIN MethodLetters}

\* URLs that name a scheme, a server, a query and a fragment; CONNECT's is a server, and an upgrade.
Urls == {StreamOf(<<OldRequest("GET", <<"G", "ET">>, url)>>) : url \in {
    <<"a", "b", ":", "/", "/", "a", "@", "b", ":", "8", "/", "a", "?", "?", "b", "#", "a", "?">>,
    <<"a", ":", "/", "/", "b">>, <<"a", ":", "/", "/", "b", "?", "#", "#", "c">>, <<"*">>}}
Connect == Message(<<"C", "O", "N", "NECT", "SP", "b", ":", "8">> \o CRLF, <<<<"url", <<"b", ":", "8">>>>>>,
                   <<"CONNECT", 0, TRUE>>, <<>>)

Framed == {StreamOf(ms) : ms \in {
    <<Get, Post(<<LengthOf(2), Other>>, "length", <<<<"CR", "x">>>>), Get>>,
    <<Post(<<LengthOf(9), IsChunked>>, "chunked", <<<<"x", "LF">>, <<"y">>>>), Get>>,
    <<[Post(<<IsChunked>>, "chunked", <<<<"x">>>>) EXCEPT !.trailers = <<Other>>], Get>>,
    <<Answer(204, <<>>, "none", <<>>), Answer(304, <<LengthOf(0)>>, "length", <<>>), Answer(100, <<>>, "none", <<>>)>>,
    <<Answer(200, <<LengthOf(10)>>, "length", <<<<"a", "b", "c", "d", "e", "f", "g", "h", "i", "j">>>>),
      Response(Version11, 404, <<>>, <<LengthOf(0)>>)>>,
    <<[Response(Version10, 200, <<>>, <<IsKept, LengthOf(1)>>) EXCEPT !.framing = "length", !.body = <<<<"x">>>>],
      Answer(200, <<>>, "eof", <<<<"x", "CR", "LF", "y">>>>)>>}}

\* Lines that end with LF alone, a value that is folded, values that are empty or come on the next line,
\* several tokens in one value, and words that only begin like those the parser knows.
Lines == {
    Raw(<<"G", "ET", "SP", "/", "SP">> \o Version11 \o <<"LF">> \o <<"x", ":", "SP", "y", "LF", "LF">>,
        Text("GET", FALSE, <<Header(<<"x">>, <<"y">>)>>), "OK"),
    Raw(GetLine \o <<"x", ":", "y", "CR", "LF", "SP", "z", "CR", "LF">> \o IsKept.name
           \o <<":", "CR", "LF", "TAB", "k", "eep-", "alive", "SP", "SP", "CR", "LF">> \o CRLF,
        Text("GET", FALSE, <<Header(<<"x">>, <<"y", "SP", "z">>), Header(IsKept.name, IsKept.value \o <<"SP", "SP">>)>>), "OK"),
    Raw(GetLine \o ContentLengthName \o <<":", "LF", "x", ":", "SP">> \o CRLF \o CRLF,
        Text("GET", FALSE, <<Header(ContentLengthName, <<>>), Header(<<"x">>, <<>>)>>), "OK"),
    StreamOf(<<[Request("GET", <<"G", "ET">>, <<"/">>, Version10,
                    <<Header(<<"p", "roxy-", "connection">>, <<"u", "p", ",", "c", "l", ",", "k", "eep-", "alive">>)>>)
                  EXCEPT !.framing = "none"], Get>>),
    StreamOf(<<Request("GET", <<"G", "ET">>, <<"/">>, Version11, <<Header(ConnectionName \o <<"s">>, IsClose.value),
                   Header(ConnectionName, <<"c", "l", "ose", "x">>), Header(TransferName, <<"c", "h", "y">>)>>), Get>>),
    StreamOf(<<[Request("GET", <<"G", "ET">>, <<"/">>, Version11, <<Header(UpgradeName, <<"x">>),
                   Header(ConnectionName, <<"k", "eep-", "alive", ",", "u", "p", "grade">>)>>)
                  EXCEPT !.facts = <<"GET", 0, TRUE>>]>>)}

\* Streams that break a rule, with the error that says which.
Broken == {
    Then(StreamOf(<<Post(<<IsClose>>, "none", <<>>)>>), CRLF \o <<"G">>, "CLOSED_CONNECTION"),
    Then(StreamOf(<<Answer(200, <<IsClose, LengthOf(1)>>, "length", <<<<"x">>>>)>>), <<"H">>, "CLOSED_CONNECTION"),
    Then(StreamOf(<<Answer(204, <<>>, "none", <<>>)>>), <<"G">>, "INVALID_CONSTANT"),
    Raw(<<"CR", "LF", "B">>, <<>>, "INVALID_METHOD"),
    Raw(<<"H", "A">>, Begun, "INVALID_CONSTANT"),
    Raw(<<"P", "U", "R", "x">>, Begun, "INVALID_METHOD"),
    Raw(<<"G", "ET", "SP", "/", "SP", "x">>, Begun \o Slash, "INVALID_CONSTANT"),
    Raw(<<"G", "ET", "SP", "SP", "/", "TAB">>, Begun \o Slash, "INVALID_URL"),
    Raw(<<"G", "ET", "SP", "b", "SP">>, Begun \o <<<<"url", <<"b">>>>>>, "INVALID_URL"),
    Raw(<<"G", "ET", "SP", "/", "SP", "SP", "H", "T", "T", "x">>, Begun \o Slash, "STRICT"),
    Raw(<<"G", "ET", "SP", "/", "SP", "H", "T", "T", "P", "/", "1", "0", "0", "0">>, Begun \o Slash, "INVALID_VERSION"),
    Raw(<<"G", "ET", "SP", "/", "SP", "H", "T", "T", "P", "/", "0">>, Begun \o Slash, "INVALID_VERSION"),
    Raw(<<"G", "ET", "SP", "/", "SP", "H", "T", "T", "P", "/", "1", ".", "1", "SP">>, Begun \o Slash, "INVALID_VERSION"),
    Raw(<<"G", "ET", "SP", "/", "SP", "H", "T", "T", "P", "/", "1", ".", "x">>, Begun \o Slash, "INVALID_VERSION"),
    Raw(<<"G", "ET", "SP", "/", "CR", "x">>, Begun \o Slash, "LF_EXPECTED"),
    Raw(Version11 \o <<"SP", "SP", "x">>, Begun, "INVALID_STATUS"),
    Raw(Version11 \o <<"SP", "1", "0", "0", "0">>, Begun, "INVALID_STATUS"),
    Raw(GetLine \o <<":">>, Begun \o Slash, "INVALID_HEADER_TOKEN"),
    Raw(GetLine \o <<"x", "SP">>, Begun \o Slash \o <<<<"header_field", <<"x">>>>>>, "INVALID_HEADER_TOKEN"),
    Raw(GetLine \o <<"x", ":", "CR", "x">>, Begun \o Slash \o <<<<"header_field", <<"x">>>>>>, "STRICT"),
    Raw(GetLine \o <<"CR", "x">>, Begun \o Slash, "STRICT"),
    Raw(GetLine \o ContentLengthName \o <<":", "x">>, Begun \o Slash \o <<LengthHeard>>, "INVALID_CONTENT_LENGTH"),
    Raw(GetLine \o ContentLengthName \o <<":", "1", "x", "CR">>,
        Begun \o Slash \o <<LengthHeard, <<"header_value", <<"1">>>>>>, "INVALID_CONTENT_LENGTH"),
    Raw(GetLine \o ContentLengthName \o <<":", "2", "5", "7", "CR">>,
        Begun \o Slash \o <<LengthHeard, <<"header_value", <<"2", "5", "7">>>>>>, "INVALID_CONTENT_LENGTH"),
    Raw(Wire(Post(<<IsChunked>>, "none", <<>>)) \o <<"x">>, Front(MessageHeard(Post(<<IsChunked>>, "none", <<>>))),
        "INVALID_CHUNK_SIZE"),
    Raw(Wire(Post(<<IsChunked>>, "none", <<>>)) \o <<"1", "0", "f">>, Front(MessageHeard(Post(<<IsChunked>>, "none", <<>>))),
        "INVALID_CONTENT_LENGTH"),
    Raw(Wire(Post(<<IsChunked>>, "none", <<>>)) \o <<"1", "SP", "x", "CR", "x">>,
        Front(MessageHeard(Post(<<IsChunked>>, "none", <<>>))), "STRICT"),
    Raw(Wire(Post(<<IsChunked>>, "none", <<>>)) \o <<"1", ";", "CR", "LF", "x", "x">>,
        Front(MessageHeard(Post(<<IsChunked>>, "none", <<>>))) \o <<<<"body", <<"x">>>>>>, "STRICT"),
    Raw(Wire(Post(<<IsChunked>>, "none", <<>>)) \o <<"1", "CR", "LF", "x", "CR", "CR">>,
        Front(MessageHeard(Post(<<IsChunked>>, "none", <<>>))) \o <<<<"body", <<"x">>>>>>, "STRICT"),
    Raw(Wire(Post(<<IsChunked>>, "none", <<>>)) \o <<"1", "x">>, Front(MessageHeard(Post(<<IsChunked>>, "none", <<>>))),
        "INVALID_CHUNK_SIZE"),
    Raw(Wire(Post(<<LengthOf(3)>>, "length", <<<<"x", "y">>>>)),
        Front(MessageHeard(Post(<<LengthOf(3)>>, "length", <<<<"x", "y">>>>))), "INVALID_EOF_STATE"),
    Raw(GetLine \o Concat([i \in 1..20 |-> <<"x", ":", "y", "CR", "LF">>]),
        Begun \o Slash \o Concat([i \in 1..20 |-> HeaderHeard(Header(<<"x">>, <<"y">>))]), "HEADER_OVERFLOW")}

\* Listeners that refuse.
Refused == {[StreamOf(<<[Post(<<IsChunked>>, "chunked", <<<<"x">>>>) EXCEPT !.trailers = <<Other>>]>>)
                EXCEPT !.refusals = {"message_begin", "url", "header_field", "header_value", "headers_complete", "body",
                                     "message_complete"}],
            [StreamOf(<<Answer(200, <<>>, "eof", <<<<"x">>>>)>>) EXCEPT !.refusals = {"status", "message_complete"}],
            [StreamOf(<<Connect>>) EXCEPT !.refusals = {"message_complete"}]}

\* The answer to a HEAD, which has the length of a body and none, before another answer, to a listener
\* that says so.
HeadAnswered == [StreamOf(<<Answer(200, <<LengthOf(1)>>, "length", <<>>), Answer(200, <<LengthOf(0)>>, "length", <<>>)>>)
                    EXCEPT !.skips = TRUE]

\* Responses as HttpByteStream writes them, in pieces that end with an empty one; after that it may be
\* reset and write another.  An empty piece before the end is taken for the end.
Pieces == {<<>>, <<<<"x">>>>, <<<<"x", "CR", "LF">>, <<"0">>>>, <<[i \in 1..17 |-> "x"]>>}
Full == <<>>    \* no call of the inner stream is short
Wrote(s, code, pieces) == FoldLeft(LAMBDA t, data : Write(t, data, Full), SetStatus(s, code), Append(pieces, <<>>))
Meaning(code, pieces) ==
    MessageHeard(Carrying(Response(Version11, code, Verbose(code), <<IsChunked>>), "chunked", pieces))
Written ==
    {Raw(Wrote(NewStream, 404, a).out, Meaning(404, a), "OK") : a \in Pieces}
    \cup {Raw(Write(Reset(Wrote(NewStream, code, <<<<"x">>>>)), <<>>, Full).out,
              Meaning(code, <<<<"x">>>>) \o Meaning(200, <<>>), "OK") : code \in {203, 406, 500}}
    \cup {Raw(Write(Wrote(NewStream, 200, <<>>), <<"y">>, Full).out, Meaning(200, <<>>), "INVALID_CONSTANT")}

\* One call of the inner stream is short, and the next chunk is written all the same.  A part of the data
\* makes what follows count as data, and the chunk then does not end where it should; a header that is
\* cut off may be taken for another.
Shortly(data, short) == Write(Write(NewStream, data, short), <<>>, Full).out
ChunkedBegun == Front(Meaning(200, <<>>))
WrittenShort ==
    {Raw(Shortly(<<"x", "y">>, "data" :> 1), ChunkedBegun \o <<<<"body", <<"x", "CR">>>>>>, "STRICT"),
     Raw(Shortly(<<"x", "y">>, "data" :> 0), ChunkedBegun \o <<<<"body", CRLF>>>>, "STRICT"),
     Raw(Shortly(<<"x">>, "end" :> 0), ChunkedBegun \o <<<<"body", <<"x">>>>>>, "STRICT"),
     Raw(Shortly(<<"x">>, "length" :> 0), ChunkedBegun, "INVALID_CHUNK_SIZE"),
     Raw(Shortly(<<"x">>, "header" :> 0), <<>>, "INVALID_METHOD"),
     Raw(Write(NewStream, <<>>, "header" :> 11).out,
         MessageHeard(Response(Version11, 200, <<>>, <<>>)), "OK")}

Stream == Methods \cup Urls \cup {StreamOf(<<Connect>>)} \cup Framed \cup Lines \cup Broken \cup Refused
          \cup Written \cup WrittenShort
NoStream == StreamOf(<<>>)
Type == {"both"}
MaxHeader == 90
MaxLength == 255

UrlLetter == {"a", "8", ".", ":", "/", "@", "[", "]", "?", "#", "SP"}
UrlPrefix == {<<>>, <<"a", ":", "/", "/", "b">>}
MaxMore == 4
NoParts == [schema |-> <<>>, userinfo |-> <<>>, host |-> <<>>, port |-> <<>>, path |-> <<>>, query |-> <<>>,
            fragment |-> <<>>]
Meant ==    \* a fragment comes after a path or a query
    {c \in {[NoParts EXCEPT !.schema = <<"a", "b">>, !.host = h, !.userinfo = i, !.port = n, !.path = t, !.query = q, !.fragment = f] :
        h \in {<<"b", ".", "8">>, <<"a", ":", ":", "8">>}, i \in {<<>>, <<"a", ":", "b">>},
        n \in {<<>>, <<"8", "0">>, <<"6", "5", "5", "3", "6">>, <<"6", "5", "5", "3", "5">>},
        t \in {<<>>, <<"/">>, <<"/", "a", "/", "b">>}, q \in {<<>>, <<"b", "=", "?">>}, f \in {<<>>, <<"a", "?">>}} :
        c.fragment # <<>> => c.path # <<>> \/ c.query # <<>>}
    \cup {[NoParts EXCEPT !.host = <<"b">>, !.port = <<"8">>]}

Char == {-61, 9, 32, 37, 38, 50, 61, 63, 64, 91, 97, 122}    \* one of a pair, TAB, and " %&2=?@[az"
MaxChars == 4

VARIABLES
    part,                                                                  \* the part that moves
    stream, refused, parser, busy, p, end, mark, heard, ended,             \* HttpParser
    url, connect, meant,                                                   \* HttpUrl
    text                                                                   \* Url

H == INSTANCE HttpParser
U == INSTANCE HttpUrl
T == INSTANCE Url

parts == <<stream, refused, parser, busy, p, end, mark, heard, ended>>
urls == <<url, connect, meant, text>>
allVars == <<part, parts, urls, callbackVars>>

Idle == U!Init /\ T!Init /\ CallbacksInit /\ (part # "urls" => url = <<>> /\ ~connect)
InitPart ==
    /\ part \in {"parser", "urls", "texts", "callbacks"}
    /\ (IF part = "parser" THEN H!Init ELSE H!InitOf(NoStream)) /\ Idle

\* A stream ends with its end or an error, and in no other state; the other parts may stop anywhere.
Over == (part = "parser" => H!Over) /\ UNCHANGED allVars

Move ==
    /\ UNCHANGED part
    /\ \/ part = "parser" /\ H!Next /\ UNCHANGED <<urls, callbackVars>>
       \/ part = "urls" /\ U!Next /\ UNCHANGED <<parts, text, callbackVars>>
       \/ part = "texts" /\ T!Next /\ UNCHANGED <<parts, url, connect, meant, callbackVars>>
       \/ part = "callbacks" /\ CallbacksNext /\ UNCHANGED <<parts, urls>>
       \/ Over

\* The parser alone, with the listener that expects no body.
SkipSpec == part = "parser" /\ H!InitOf(HeadAnswered) /\ Idle /\ [][Move]_allVars

-----------------------------------------------------------------------------
\* The parts' properties, stated and explained in their modules.
Delivered == part = "parser" => H!Delivered
Asserted == part = "parser" => H!Asserted /\ H!RefusalEnds
NoLetterForEver == H!NoLetterForEver
NoBodyIfSkipped == H!NoBodyIfSkipped
PartsRight == (part = "urls" => U!PartsRight) /\ (part = "texts" => T!TextsThroughUrls)

=============================================================================
