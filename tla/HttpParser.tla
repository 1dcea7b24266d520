----------------------------- MODULE HttpParser -----------------------------
(***************************************************************************)
(* http_parser_execute() as turbolib's HttpParser drives it: a stream is   *)
(* handed over in buffers cut anywhere, and callbacks tell what is in it.  *)
(*                                                                         *)
(* A letter is the shortest run of bytes that the parser tells apart: CR,  *)
(* LF, SP, a digit, a delimiter, or a piece of a word it knows.  A step is *)
(* a round of execute()'s loop, one case of its switch.                    *)
(***************************************************************************)
EXTENDS HttpLetters, Sequences, SequencesExt

CONSTANTS
    Stream,      \* what may be sent: records of its letters (wire), the callbacks that may return an
                 \* error (refusals), whether on_headers_complete() returns 1 (skips), and its meaning
    Type,        \* the types a parser is created with, of "request", "response" and "both"
    Nothing,
    MaxHeader,   \* HTTP_MAX_HEADER_SIZE, in letters
    MaxLength    \* ULLONG_MAX

DataCallback == {"header_field", "header_value", "url", "body", "status"}
Callback == DataCallback \cup {"message_begin", "headers_complete", "message_complete"}

VARIABLES
    stream,    \* what is sent, one of Stream
    refused,   \* the callback that returns an error, or Nothing
    parser,    \* struct http_parser
    busy,      \* whether execute() runs
    p,         \* the letter it is at
    end,       \* the last letter of its buffer
    mark,      \* of each data callback: where its data starts in this buffer, or 0
    heard,     \* the calls so far, data in successive calls of a callback joined
    ended      \* whether the end of the stream was told

vars == <<stream, refused, parser, busy, p, end, mark, heard, ended>>

-----------------------------------------------------------------------------
(* Methods. *)

MethodString == [
    DELETE |-> <<"D", "ELETE">>, GET |-> <<"G", "ET">>, HEAD |-> <<"H", "E", "AD">>,
    POST |-> <<"P", "O", "ST">>, PUT |-> <<"P", "U", "T">>,
    CONNECT |-> <<"C", "O", "N", "NECT">>, OPTIONS |-> <<"O", "PTIONS">>, TRACE |-> <<"T", "RACE">>,
    COPY |-> <<"C", "O", "P", "Y">>, LOCK |-> <<"L", "OCK">>, MKCOL |-> <<"M", "K", "C", "OL">>,
    MOVE |-> <<"M", "O", "VE">>, PROPFIND |-> <<"P", "R", "O", "P", "F", "IND">>,
    PROPPATCH |-> <<"P", "R", "O", "P", "P", "ATCH">>, SEARCH |-> <<"S", "E", "ARCH">>,
    UNLOCK |-> <<"U", "N", "L", "OCK">>, REPORT |-> <<"R", "EPORT">>,
    MKACTIVITY |-> <<"M", "K", "A", "CTIVITY">>, CHECKOUT |-> <<"C", "H", "ECKOUT">>,
    MERGE |-> <<"M", "E", "RGE">>, MSEARCH |-> <<"M", "-", "SEARCH">>, NOTIFY |-> <<"N", "OTIFY">>,
    SUBSCRIBE |-> <<"S", "U", "BSCRIBE">>, UNSUBSCRIBE |-> <<"U", "N", "S", "UBSCRIBE">>,
    PATCH |-> <<"P", "A", "TCH">>, PURGE |-> <<"P", "U", "R", "GE">>,
    MKCALENDAR |-> <<"M", "K", "C", "A", "LENDAR">>]

\* The method that the first letter makes it expect.
FirstGuess == [l \in {"C", "D", "G", "H", "L", "M", "N", "O", "P", "R", "S", "T", "U"} |->
    CASE l = "C" -> "CONNECT" [] l = "D" -> "DELETE" [] l = "G" -> "GET" [] l = "H" -> "HEAD"
      [] l = "L" -> "LOCK" [] l = "M" -> "MKCOL" [] l = "N" -> "NOTIFY" [] l = "O" -> "OPTIONS"
      [] l = "P" -> "POST" [] l = "R" -> "REPORT" [] l = "S" -> "SUBSCRIBE" [] l = "T" -> "TRACE"
      [] l = "U" -> "UNLOCK"]

\* The method to expect instead, when at this place this letter comes.
BetterGuess(method, index, l) ==
    CASE method = "CONNECT" /\ index = 1 /\ l = "H" -> "CHECKOUT"
      [] method = "CONNECT" /\ index = 2 /\ l = "P" -> "COPY"
      [] method = "MKCOL" /\ index = 1 /\ l = "O" -> "MOVE"
      [] method = "MKCOL" /\ index = 1 /\ l = "E" -> "MERGE"
      [] method = "MKCOL" /\ index = 1 /\ l = "-" -> "MSEARCH"
      [] method = "MKCOL" /\ index = 2 /\ l = "A" -> "MKACTIVITY"
      [] method = "MKCOL" /\ index = 3 /\ l = "A" -> "MKCALENDAR"
      [] method = "SUBSCRIBE" /\ index = 1 /\ l = "E" -> "SEARCH"
      [] method = "POST" /\ index = 1 /\ l = "R" -> "PROPFIND"
      [] method = "POST" /\ index = 1 /\ l = "U" -> "PUT"
      [] method = "POST" /\ index = 1 /\ l = "A" -> "PATCH"
      [] method = "PUT" /\ index = 2 /\ l = "R" -> "PURGE"
      [] method = "UNLOCK" /\ index = 2 /\ l = "S" -> "UNSUBSCRIBE"
      [] method = "PROPFIND" /\ index = 4 /\ l = "P" -> "PROPPATCH"
      [] OTHER -> Nothing

-----------------------------------------------------------------------------
(* The parser's state and the steps it is made of. *)

\* F_SKIPBODY is 1 << 6, and flags has six bits.
FlagBits == {"chunked", "keep_alive", "close", "connection_upgrade", "trailing", "upgrade"}
Flagged(flags, f) == flags \cup ({f} \cap FlagBits)

BodyState == {"chunk_data", "chunk_data_almost_done", "chunk_data_done", "body_identity",
              "body_identity_eof", "message_done"}
UrlState == {"req_path", "req_schema", "req_schema_slash", "req_schema_slash_slash",
             "req_server_start", "req_server", "req_server_with_at", "req_query_string_start",
             "req_query_string", "req_fragment_start", "req_fragment"}

NewParser(type) ==
    [type |-> type, flags |-> {}, header_state |-> "general", index |-> 0, nread |-> 0,
     state |-> CASE type = "request" -> "start_req" [] type = "response" -> "start_res"
                 [] OTHER -> "start_req_or_res",
     content_length |-> 0, http_major |-> 0, http_minor |-> 0, status_code |-> 0,
     method |-> "DELETE", http_errno |-> "OK", upgrade |-> FALSE]

NeedsEof(q) ==
    /\ q.type # "request"
    /\ q.status_code \div 100 # 1 /\ q.status_code \notin {204, 304}
    /\ "skipbody" \notin q.flags
    /\ "chunked" \notin q.flags /\ q.content_length = MaxLength

ShouldKeepAlive(q) ==
    /\ IF q.http_major > 0 /\ q.http_minor > 0
       THEN "close" \notin q.flags
       ELSE "keep_alive" \in q.flags
    /\ ~NeedsEof(q)

StartState(q) == IF q.type = "request" THEN "start_req" ELSE "start_res"
NewMessage(q) == [q EXCEPT !.state = IF ShouldKeepAlive(q) THEN StartState(q) ELSE "dead"]
AnyLength(q) == [q EXCEPT !.flags = {}, !.content_length = MaxLength]

ch == stream.wire[p]

\* The parser once this letter is counted.
ParsingHeader == parser.state \notin BodyState
counted == [parser EXCEPT !.nread = IF ParsingHeader THEN @ + 1 ELSE @]

In(states) == busy /\ p <= end /\ parser.state \in states /\ counted.nread <= MaxHeader

\* q with n letters more of its header, unless that is too large.
Measured(q, n) == [q EXCEPT
    !.nread = @ + n,
    !.http_errno = IF @ = "OK" /\ q.nread + n > MaxHeader THEN "HEADER_OVERFLOW" ELSE @]

\* What execute()'s cases end in: on to the letter at, unless q has met an error.
Go(q, at) ==
    /\ parser' = q /\ p' = at /\ busy' = (q.http_errno = "OK")
    /\ UNCHANGED <<stream, refused, end, ended, mark, heard>>
Continue(q) == Go(q, p + 1)
Reexecute(q) == Go(q, p)
Error(e) == Go([parser EXCEPT !.http_errno = e], p)
StrictCheck(bad) == bad /\ Error("STRICT")

\* One more call of cb with this data: the data of calls that follow each other is one.
Heard(cb, data) ==
    IF cb \in DataCallback /\ heard # <<>> /\ Last(heard)[1] = cb
    THEN Front(heard) \o <<<<cb, Last(heard)[2] \o data>>>>
    ELSE Append(heard, <<cb, data>>)

\* Variant: what a data callback returns is ignored.
AnsweredByNotices(q, cb) ==
    IF cb = refused /\ cb \notin DataCallback THEN [q EXCEPT !.http_errno = "CB_" \o cb] ELSE q

\* q after a call of cb, which may refuse.
Answered(q, cb) == IF cb = refused THEN [q EXCEPT !.http_errno = "CB_" \o cb] ELSE q

Call(q, cb, data, at) ==
    /\ heard' = Heard(cb, data)
    /\ parser' = Answered(q, cb) /\ busy' = (Answered(q, cb).http_errno = "OK")
    /\ p' = at
    /\ UNCHANGED <<stream, refused, end, ended>>
Notify(q, cb) == Call(q, cb, <<>>, p + 1) /\ UNCHANGED mark
Mark(q, cb) ==
    /\ parser' = q /\ p' = p + 1
    /\ mark' = IF mark[cb] = 0 THEN [mark EXCEPT ![cb] = p] ELSE mark
    /\ UNCHANGED <<stream, refused, busy, end, ended, heard>>
Data(q, cb, last, at) ==
    IF mark[cb] = 0 THEN Go(q, at)
    ELSE Call(q, cb, SubSeq(stream.wire, mark[cb], last), at) /\ mark' = [mark EXCEPT ![cb] = 0]

-----------------------------------------------------------------------------
(* parseBuffer(). *)

InitOf(s) ==
    /\ stream = s
    /\ refused \in stream.refusals \cup {Nothing}
    /\ parser \in {NewParser(t) : t \in Type}
    /\ busy = FALSE /\ ended = FALSE
    /\ p = 1 /\ end = 0
    /\ mark = [cb \in DataCallback |-> 0]
    /\ heard = <<>>
Init == \E s \in Stream : InitOf(s)

\* Variant: a status that goes on in the next buffer is forgotten.
MarksAtForgetful(at) == [cb \in DataCallback |->
    IF \/ cb = "header_field" /\ parser.state = "header_field"
       \/ cb = "header_value" /\ parser.state = "header_value"
       \/ cb = "url" /\ parser.state \in UrlState
    THEN at ELSE 0]

\* Where data goes on that an earlier buffer began.
MarksAt(at) == [cb \in DataCallback |->
    IF \/ cb = "header_field" /\ parser.state = "header_field"
       \/ cb = "header_value" /\ parser.state = "header_value"
       \/ cb = "url" /\ parser.state \in UrlState
       \/ cb = "status" /\ parser.state = "res_status"
    THEN at ELSE 0]

\* The next n letters; none of them is read after an error.
ParseBuffer ==
    /\ ~busy /\ ~ended /\ parser.http_errno = "OK"
    /\ \E n \in 1..(Len(stream.wire) - end) :
        /\ end' = end + n
        /\ p' = end + 1
        /\ mark' = MarksAt(end + 1)
        /\ busy' = TRUE
    /\ UNCHANGED <<stream, refused, parser, heard, ended>>

\* parseBuffer() of nothing tells it that the stream is over.
ParseEnd ==
    /\ ~busy /\ ~ended /\ end = Len(stream.wire) /\ parser.http_errno = "OK"
    /\ ended' = TRUE
    /\ \/ /\ parser.state = "body_identity_eof"
          /\ heard' = Heard("message_complete", <<>>)
          /\ parser' = IF refused = "message_complete"
                       THEN [parser EXCEPT !.http_errno = "CB_message_complete"] ELSE parser
       \/ parser.state \in {"dead", "start_req_or_res", "start_res", "start_req"} /\ UNCHANGED <<parser, heard>>
       \/ /\ parser.state \notin {"body_identity_eof", "dead", "start_req_or_res", "start_res", "start_req"}
          /\ parser' = [parser EXCEPT !.http_errno = "INVALID_EOF_STATE"]
          /\ UNCHANGED heard
    /\ UNCHANGED <<stream, refused, busy, p, end, mark>>

\* At the end of a buffer the data seen of it is handed over; one mark at most is set.
Finish ==
    /\ busy /\ p > end
    /\ LET open == {cb \in DataCallback : mark[cb] # 0} IN
        IF open = {}
        THEN busy' = FALSE /\ UNCHANGED <<parser, heard>>
        ELSE LET cb == CHOOSE cb \in open : TRUE IN
            /\ busy' = FALSE
            /\ heard' = Heard(cb, SubSeq(stream.wire, mark[cb], p - 1))
            /\ parser' = IF cb = refused THEN [parser EXCEPT !.http_errno = "CB_" \o cb] ELSE parser
    /\ mark' = [cb \in DataCallback |-> 0]
    /\ UNCHANGED <<stream, refused, p, end, ended>>

HeaderOverflow ==
    /\ busy /\ p <= end /\ counted.nread > MaxHeader
    /\ Error("HEADER_OVERFLOW")

-----------------------------------------------------------------------------
(* The start line. *)

Dead ==
    /\ In({"dead"})
    /\ IF ch \in Newline THEN Continue(counted) ELSE Error("CLOSED_CONNECTION")

StartReqOrRes ==
    /\ In({"start_req_or_res"})
    /\ \/ ch \in Newline /\ Continue(counted)
       \/ ch = "H" /\ Notify([AnyLength(counted) EXCEPT !.state = "res_or_resp_H"], "message_begin")
       \/ /\ ch \notin Newline \cup {"H"}
          /\ Reexecute([AnyLength(counted) EXCEPT !.type = "request", !.state = "start_req"])

ResOrRespH ==
    /\ In({"res_or_resp_H"})
    /\ \/ ch = "T" /\ Continue([counted EXCEPT !.type = "response", !.state = "res_HT"])
       \/ /\ ch = "E"
          /\ Continue([counted EXCEPT !.type = "request", !.method = "HEAD", !.index = 2, !.state = "req_method"])
       \/ ch \notin {"T", "E"} /\ Error("INVALID_CONSTANT")

\* A newline before a response begins a message too.
StartRes ==
    /\ In({"start_res"})
    /\ IF ch \in Newline \cup {"H"}
       THEN Notify([AnyLength(counted) EXCEPT !.state = IF ch = "H" THEN "res_H" ELSE @], "message_begin")
       ELSE Error("INVALID_CONSTANT")

\* The states in which one letter alone will do, with it and the state it leads to.
OneLetter == [
    res_H |-> <<"T", "res_HT">>, res_HT |-> <<"T", "res_HTT">>, res_HTT |-> <<"P", "res_HTTP">>,
    res_HTTP |-> <<"/", "res_first_http_major">>, res_line_almost_done |-> <<"LF", "header_field_start">>,
    req_http_H |-> <<"T", "req_http_HT">>, req_http_HT |-> <<"T", "req_http_HTT">>,
    req_http_HTT |-> <<"P", "req_http_HTTP">>, req_http_HTTP |-> <<"/", "req_first_http_major">>,
    header_almost_done |-> <<"LF", "header_value_lws">>,
    header_value_discard_ws_almost_done |-> <<"LF", "header_value_discard_lws">>]

Constant ==
    /\ In(DOMAIN OneLetter)
    /\ \/ StrictCheck(ch # OneLetter[parser.state][1])
       \/ ch = OneLetter[parser.state][1] /\ Continue([counted EXCEPT !.state = OneLetter[parser.state][2]])

FirstMajor ==
    /\ In({"res_first_http_major", "req_first_http_major"})
    /\ LET req == parser.state = "req_first_http_major" IN
        IF IsNum(ch) /\ (req => ch # "0")
        THEN Continue([counted EXCEPT !.http_major = Digit[ch],
                                      !.state = IF req THEN "req_http_major" ELSE "res_http_major"])
        ELSE Error("INVALID_VERSION")

Major ==
    /\ In({"res_http_major", "req_http_major"})
    /\ LET next == IF parser.state = "req_http_major" THEN "req_first_http_minor" ELSE "res_first_http_minor" IN
        IF ch = "." THEN Continue([counted EXCEPT !.state = next])
        ELSE IF IsNum(ch) /\ parser.http_major * 10 + Digit[ch] <= 999
        THEN Continue([counted EXCEPT !.http_major = @ * 10 + Digit[ch]])
        ELSE Error("INVALID_VERSION")

FirstMinor ==
    /\ In({"res_first_http_minor", "req_first_http_minor"})
    /\ LET next == IF parser.state = "req_first_http_minor" THEN "req_http_minor" ELSE "res_http_minor" IN
        IF IsNum(ch) THEN Continue([counted EXCEPT !.http_minor = Digit[ch], !.state = next])
        ELSE Error("INVALID_VERSION")

\* A response's version ends at a blank, a request's at the end of its line.
Minor ==
    /\ In({"res_http_minor", "req_http_minor"})
    /\ LET req == parser.state = "req_http_minor" IN
        IF ~req /\ ch = "SP" THEN Continue([counted EXCEPT !.state = "res_first_status_code"])
        ELSE IF req /\ ch = "CR" THEN Continue([counted EXCEPT !.state = "req_line_almost_done"])
        ELSE IF req /\ ch = "LF" THEN Continue([counted EXCEPT !.state = "header_field_start"])
        ELSE IF IsNum(ch) /\ parser.http_minor * 10 + Digit[ch] <= 999
        THEN Continue([counted EXCEPT !.http_minor = @ * 10 + Digit[ch]])
        ELSE Error("INVALID_VERSION")

LineEnd(l) == IF l = "CR" THEN "res_line_almost_done" ELSE "header_field_start"

FirstStatusCode ==
    /\ In({"res_first_status_code"})
    /\ \/ IsNum(ch) /\ Continue([counted EXCEPT !.status_code = Digit[ch], !.state = "res_status_code"])
       \/ ch = "SP" /\ Continue(counted)
       \/ ~IsNum(ch) /\ ch # "SP" /\ Error("INVALID_STATUS")

StatusCode ==
    /\ In({"res_status_code"})
    /\ IF IsNum(ch) /\ parser.status_code * 10 + Digit[ch] <= 999
       THEN Continue([counted EXCEPT !.status_code = @ * 10 + Digit[ch]])
       ELSE IF ch = "SP" THEN Continue([counted EXCEPT !.state = "res_status_start"])
       ELSE IF ch \in Newline THEN Continue([counted EXCEPT !.state = LineEnd(ch)])
       ELSE Error("INVALID_STATUS")

Status ==
    \/ /\ In({"res_status_start"})
       /\ IF ch \in Newline THEN Continue([counted EXCEPT !.state = LineEnd(ch)])
          ELSE Mark([counted EXCEPT !.state = "res_status", !.index = 0], "status")
    \/ /\ In({"res_status"})
       /\ IF ch \in Newline THEN Data([counted EXCEPT !.state = LineEnd(ch)], "status", p - 1, p + 1)
          ELSE Continue(counted)

StartReq ==
    /\ In({"start_req"})
    /\ \/ ch \in Newline /\ Continue(counted)
       \/ /\ ch \in DOMAIN FirstGuess
          /\ Notify([AnyLength(counted) EXCEPT !.method = FirstGuess[ch], !.index = 1, !.state = "req_method"],
                    "message_begin")
       \/ ch \notin Newline \cup DOMAIN FirstGuess /\ Error("INVALID_METHOD")

ReqMethod ==
    /\ In({"req_method"})
    /\ LET matcher == MethodString[parser.method]
           better == BetterGuess(parser.method, parser.index, ch)
           next == [counted EXCEPT !.index = @ + 1]
       IN IF parser.index = Len(matcher) /\ ch = "SP"
          THEN Continue([next EXCEPT !.state = "req_spaces_before_url"])
          ELSE IF parser.index < Len(matcher) /\ ch = matcher[parser.index + 1] THEN Continue(next)
          ELSE IF better # Nothing THEN Continue([next EXCEPT !.method = better])
          ELSE Error("INVALID_METHOD")

UrlLetter(next) ==
    IF next = "dead" THEN Error("INVALID_URL") ELSE Mark([counted EXCEPT !.state = next], "url")

SpacesBeforeUrl ==
    /\ In({"req_spaces_before_url"})
    /\ IF ch = "SP" THEN Continue(counted)
       ELSE UrlLetter(ParseUrlChar(IF parser.method = "CONNECT" THEN "req_server_start" ELSE parser.state, ch))

\* A URL may end once there is a server or a path; without a version it is HTTP/0.9.
Url ==
    /\ In(UrlState)
    /\ IF parser.state \in {"req_schema", "req_schema_slash", "req_schema_slash_slash", "req_server_start"}
       THEN UrlLetter(ParseUrlChar(parser.state, ch))
       ELSE IF ch = "SP" THEN Data([counted EXCEPT !.state = "req_http_start"], "url", p - 1, p + 1)
       ELSE IF ch \in Newline
       THEN Data([counted EXCEPT !.http_major = 0, !.http_minor = 9,
                     !.state = IF ch = "CR" THEN "req_line_almost_done" ELSE "header_field_start"],
                 "url", p - 1, p + 1)
       ELSE UrlLetter(ParseUrlChar(parser.state, ch))

HttpStart ==
    /\ In({"req_http_start"})
    /\ \/ ch = "H" /\ Continue([counted EXCEPT !.state = "req_http_H"])
       \/ ch = "SP" /\ Continue(counted)
       \/ ch \notin {"H", "SP"} /\ Error("INVALID_CONSTANT")

ReqLineAlmostDone ==
    /\ In({"req_line_almost_done"})
    /\ IF ch = "LF" THEN Continue([counted EXCEPT !.state = "header_field_start"]) ELSE Error("LF_EXPECTED")

-----------------------------------------------------------------------------
(* The headers. *)

\* Variant: the state is left as it is at a bare LF.
HeaderFieldStartStays ==
    /\ In({"header_field_start"})
    /\ \/ ch = "CR" /\ Continue([counted EXCEPT !.state = "headers_almost_done"])
       \/ ch = "LF" /\ Reexecute(counted)
       \/ IsToken(ch) /\ Mark([counted EXCEPT !.index = 0, !.state = "header_field"], "header_field")
       \/ ch \notin Newline /\ ~IsToken(ch) /\ Error("INVALID_HEADER_TOKEN")

HeaderFieldStart ==
    /\ In({"header_field_start"})
    /\ \/ ch = "CR" /\ Continue([counted EXCEPT !.state = "headers_almost_done"])
       \/ ch = "LF" /\ Reexecute([counted EXCEPT !.state = "headers_almost_done"])
       \/ /\ IsToken(ch)
          /\ Mark([counted EXCEPT !.index = 0, !.state = "header_field",
                      !.header_state = CASE ch = "c" -> "C"
                                         [] ch = "p" -> "matching_proxy_connection"
                                         [] ch = "t" -> "matching_transfer_encoding"
                                         [] ch = "u" -> "matching_upgrade"
                                         [] OTHER -> "general"], "header_field")
       \/ ch \notin Newline /\ ~IsToken(ch) /\ Error("INVALID_HEADER_TOKEN")

\* One letter more of the word that q matches: on to matched at its last, to lost at a wrong one.
Matching(q, word, l, matched, lost) ==
    LET i == q.index + 1 IN
    [q EXCEPT !.index = i,
              !.header_state = IF i >= Len(word) \/ l # word[i + 1] THEN lost
                               ELSE IF i = Len(word) - 1 THEN matched ELSE @]

\* One letter more of the name of a header.
FieldLetter(q, l) ==
    LET to(h) == [q EXCEPT !.index = @ + 1, !.header_state = h] IN
    CASE q.header_state = "C" -> to(IF l = "o" THEN "CO" ELSE "general")
      [] q.header_state = "CO" -> to(IF l = "n" THEN "CON" ELSE "general")
      [] q.header_state = "CON" ->
           to(CASE l = "n" -> "matching_connection" [] l = "t" -> "matching_content_length" [] OTHER -> "general")
      [] q.header_state = "matching_connection" -> Matching(q, Connection, l, "connection", "general")
      [] q.header_state = "matching_proxy_connection" -> Matching(q, ProxyConnection, l, "connection", "general")
      [] q.header_state = "matching_content_length" -> Matching(q, ContentLength, l, "content_length", "general")
      [] q.header_state = "matching_transfer_encoding" ->
           Matching(q, TransferEncoding, l, "transfer_encoding", "general")
      [] q.header_state = "matching_upgrade" -> Matching(q, Upgrade, l, "upgrade", "general")
      [] OTHER -> [q EXCEPT !.header_state = "general"]

\* The first place from p on that is not of these letters, in this buffer.
RunEnd(Of(_)) == CHOOSE i \in p..(end + 1) :
    /\ \A j \in p..(i - 1) : Of(stream.wire[j])
    /\ i <= end => ~Of(stream.wire[i])

\* The name's letters in this buffer, counted once more together.
HeaderField ==
    /\ In({"header_field"})
    /\ LET last == RunEnd(IsToken)
           q == Measured(FoldLeft(FieldLetter, counted, SubSeq(stream.wire, p, last - 1)), last - p)
       IN IF q.http_errno # "OK" \/ last > end THEN Go(q, last)
          ELSE IF stream.wire[last] = ":"
          THEN Data([q EXCEPT !.state = "header_value_discard_ws"], "header_field", last - 1, last + 1)
          ELSE Error("INVALID_HEADER_TOKEN")

HeaderValueDiscardWs ==
    /\ In({"header_value_discard_ws"})
    /\ ch \in Blank \cup Newline
    /\ Continue([counted EXCEPT !.state =
           CASE ch = "CR" -> "header_value_discard_ws_almost_done"
             [] ch = "LF" -> "header_value_discard_lws"
             [] OTHER -> @])

\* The first letter of a value or, after a line that was folded, of the rest of it.
HeaderValueStart ==
    /\ In({"header_value_discard_ws", "header_value_start"})
    /\ parser.state = "header_value_discard_ws" => ch \notin Blank \cup Newline
    /\ LET q == [counted EXCEPT !.state = "header_value", !.index = 0]
           to(h) == Mark([q EXCEPT !.header_state = h], "header_value")
       IN CASE parser.header_state = "upgrade" ->
                 Mark([q EXCEPT !.flags = Flagged(@, "upgrade"), !.header_state = "general"], "header_value")
            [] parser.header_state = "transfer_encoding" ->
                 to(IF ch = "c" THEN "matching_transfer_encoding_chunked" ELSE "general")
            [] parser.header_state = "content_length" ->
                 IF IsNum(ch) THEN Mark([q EXCEPT !.content_length = Digit[ch]], "header_value")
                 ELSE Error("INVALID_CONTENT_LENGTH")
            [] parser.header_state = "connection" ->
                 to(CASE ch = "k" -> "matching_connection_keep_alive"
                      [] ch = "c" -> "matching_connection_close"
                      [] ch = "u" -> "matching_connection_upgrade"
                      [] OTHER -> "matching_connection_token")
            [] parser.header_state = "matching_connection_token_start" -> to(parser.header_state)
            [] OTHER -> to("general")

\* The length with one digit more, in the integers the code computes it in; a length that would
\* come near to MaxLength is refused.
Longer(length, base, d) == (length * base + d) % (MaxLength + 1)
TooLong(length, base) == (MaxLength - base) \div base < length

FlagOf == [connection_keep_alive |-> "keep_alive", connection_close |-> "close",
           connection_upgrade |-> "connection_upgrade", transfer_encoding_chunked |-> "chunked"]
ConnectionState == {"connection_keep_alive", "connection_close", "connection_upgrade"}

\* One letter more of the value of a header.
ValueLetter(q, l) ==
    LET h == q.header_state
        to(state) == [q EXCEPT !.header_state = state]
    IN CASE h = "content_length" ->
              IF l = "SP" THEN q
              ELSE IF IsNum(l) /\ ~TooLong(q.content_length, 10)
              THEN [q EXCEPT !.content_length = Longer(@, 10, Digit[l])]
              ELSE [q EXCEPT !.http_errno = "INVALID_CONTENT_LENGTH"]
         [] h = "matching_transfer_encoding_chunked" ->
              Matching(q, Chunked, l, "transfer_encoding_chunked", "general")
         [] h = "matching_connection_token_start" ->
              to(CASE l = "k" -> "matching_connection_keep_alive"
                   [] l = "c" -> "matching_connection_close"
                   [] l = "u" -> "matching_connection_upgrade"
                   [] IsToken(l) -> "matching_connection_token"
                   [] OTHER -> "general")
         [] h = "matching_connection_keep_alive" ->
              Matching(q, KeepAlive, l, "connection_keep_alive", "matching_connection_token")
         [] h = "matching_connection_close" ->
              Matching(q, Close, l, "connection_close", "matching_connection_token")
         [] h = "matching_connection_upgrade" ->
              Matching(q, Upgrade, l, "connection_upgrade", "matching_connection_token")
         [] h = "matching_connection_token" ->
              IF l = "," THEN [q EXCEPT !.header_state = "matching_connection_token_start", !.index = 0] ELSE q
         [] h \in ConnectionState ->
              IF l = ","
              THEN [q EXCEPT !.flags = Flagged(@, FlagOf[h]), !.index = 0,
                             !.header_state = "matching_connection_token_start"]
              ELSE IF l = "SP" THEN q ELSE to("matching_connection_token")
         [] h = "transfer_encoding_chunked" -> IF l = "SP" THEN q ELSE to("general")
         [] OTHER -> to("general")

\* The value's letters in this buffer.  The header's size counts them again, and before a bare LF
\* a third time but for one.
HeaderValue ==
    /\ In({"header_value"})
    /\ LET Of(l) == l \notin Newline
           last == RunEnd(Of)
           n == last - p
           q == FoldLeft(ValueLetter, counted, SubSeq(stream.wire, p, last - 1))
           once == Measured([q EXCEPT !.state = IF last > end THEN @ ELSE "header_almost_done"], n)
       IN IF q.http_errno # "OK" \/ last > end THEN Go(once, last)
          ELSE IF stream.wire[last] = "CR" THEN Data(once, "header_value", last - 1, last + 1)
          ELSE IF once.http_errno # "OK" THEN Go(once, last)
          ELSE Data(Measured(once, n - 1), "header_value", last - 1, last)

\* q with what a finished value says of the message.
Said(q) == IF q.header_state \in DOMAIN FlagOf THEN [q EXCEPT !.flags = Flagged(@, FlagOf[q.header_state])] ELSE q

\* A line that begins with a blank goes on with the value.
HeaderValueLws ==
    /\ In({"header_value_lws"})
    /\ IF ch \in Blank THEN Reexecute([counted EXCEPT !.state = "header_value_start"])
       ELSE Reexecute([Said(counted) EXCEPT !.state = "header_field_start"])

\* The value may still come on the next line; else it is empty, and told as such.
HeaderValueDiscardLws ==
    /\ In({"header_value_discard_lws"})
    /\ IF ch \in Blank THEN Continue([counted EXCEPT !.state = "header_value_discard_ws"])
       ELSE Call([Said(counted) EXCEPT !.state = "header_field_start"], "header_value", <<>>, p) /\ UNCHANGED mark

\* What on_headers_complete() may ask the parser of: the method or the status, and the upgrade.
Facts(q) == IF q.type = "request" THEN <<q.method, 0, q.upgrade>> ELSE <<Nothing, q.status_code, q.upgrade>>

HeadersAlmostDone ==
    /\ In({"headers_almost_done"})
    /\ \/ StrictCheck(ch # "LF")
       \/ /\ ch = "LF" /\ "trailing" \in parser.flags
          /\ Notify(NewMessage(counted), "message_complete")
       \/ /\ ch = "LF" /\ "trailing" \notin parser.flags
          /\ LET q == [counted EXCEPT !.state = "headers_done",
                         !.upgrade = {"upgrade", "connection_upgrade"} \subseteq counted.flags
                                     \/ counted.method = "CONNECT"]
                 then == IF stream.skips THEN [q EXCEPT !.flags = Flagged(@, "skipbody")] ELSE q
             IN Call(then, "headers_complete", Facts(q), p) /\ UNCHANGED mark

\* How the body comes, if there is one: the state to read it in.
Framing(q) ==
    CASE "skipbody" \in q.flags -> "none"
      [] "skipbody" \notin q.flags /\ "chunked" \in q.flags -> "chunk_size_start"
      [] OTHER -> CASE q.content_length = 0 -> "none"
                    [] q.content_length \notin {0, MaxLength} -> "body_identity"
                    [] OTHER -> IF NeedsEof(q) THEN "body_identity_eof" ELSE "none"

HeadersDone ==
    /\ In({"headers_done"})
    /\ LET q == [counted EXCEPT !.nread = 0] IN
       \/ StrictCheck(ch # "LF")
       \/ /\ ch = "LF" /\ q.upgrade
          /\ heard' = Heard("message_complete", <<>>)
          /\ parser' = Answered(NewMessage(q), "message_complete")
          /\ busy' = FALSE /\ p' = p + 1 /\ UNCHANGED <<stream, refused, end, ended, mark>>
       \/ ch = "LF" /\ ~q.upgrade /\ Framing(q) = "none" /\ Notify(NewMessage(q), "message_complete")
       \/ ch = "LF" /\ ~q.upgrade /\ Framing(q) # "none" /\ Continue([q EXCEPT !.state = Framing(q)])

-----------------------------------------------------------------------------
(* The body. *)

\* As much as is left of it in this buffer, with what then is still to come.
ToRead == IF parser.content_length < end - p + 1 THEN parser.content_length ELSE end - p + 1
Rest == parser.content_length - ToRead

\* The last letter is looked at again for the message's end.
BodyIdentity ==
    /\ In({"body_identity"})
    /\ IF Rest = 0
       THEN /\ Call([counted EXCEPT !.content_length = 0, !.state = "message_done"],
                    "body", SubSeq(stream.wire, p, p + ToRead - 1), p + ToRead - 1)
            /\ UNCHANGED mark
       ELSE /\ parser' = [counted EXCEPT !.content_length = Rest]
            /\ mark' = [mark EXCEPT !["body"] = p] /\ p' = p + ToRead
            /\ UNCHANGED <<stream, refused, busy, end, ended, heard>>

BodyIdentityEof ==
    /\ In({"body_identity_eof"})
    /\ mark' = [mark EXCEPT !["body"] = p] /\ p' = end + 1
    /\ UNCHANGED <<stream, refused, parser, busy, end, ended, heard>>

MessageDone == In({"message_done"}) /\ Notify(NewMessage(counted), "message_complete")

ChunkSizeStart ==
    /\ In({"chunk_size_start"})
    /\ IF IsHex(ch) THEN Continue([counted EXCEPT !.content_length = HexDigit[ch], !.state = "chunk_size"])
       ELSE Error("INVALID_CHUNK_SIZE")

ChunkSize ==
    /\ In({"chunk_size"})
    /\ \/ ch = "CR" /\ Continue([counted EXCEPT !.state = "chunk_size_almost_done"])
       \/ ch \in {";", "SP"} /\ Continue([counted EXCEPT !.state = "chunk_parameters"])
       \/ ch \notin {"CR", ";", "SP"} /\ ~IsHex(ch) /\ Error("INVALID_CHUNK_SIZE")
       \/ IsHex(ch) /\ TooLong(parser.content_length, 16) /\ Error("INVALID_CONTENT_LENGTH")
       \/ /\ IsHex(ch) /\ ~TooLong(parser.content_length, 16)
          /\ Continue([counted EXCEPT !.content_length = Longer(@, 16, HexDigit[ch])])

ChunkParameters ==
    /\ In({"chunk_parameters"})
    /\ Continue([counted EXCEPT !.state = IF ch = "CR" THEN "chunk_size_almost_done" ELSE @])

\* Variant: the last chunk is like the others.
ChunkSizeAlmostDoneAlike ==
    /\ In({"chunk_size_almost_done"})
    /\ ch = "LF" /\ Continue([counted EXCEPT !.nread = 0, !.state = "chunk_data"])

\* After the last chunk come headers again.
ChunkSizeAlmostDone ==
    /\ In({"chunk_size_almost_done"})
    /\ \/ StrictCheck(ch # "LF")
       \/ /\ ch = "LF" /\ parser.content_length = 0
          /\ Continue([counted EXCEPT !.nread = 0, !.flags = Flagged(@, "trailing"), !.state = "header_field_start"])
       \/ /\ ch = "LF" /\ parser.content_length # 0
          /\ Continue([counted EXCEPT !.nread = 0, !.state = "chunk_data"])

ChunkData ==
    /\ In({"chunk_data"})
    /\ parser' = [counted EXCEPT !.content_length = Rest,
                    !.state = IF Rest = 0 THEN "chunk_data_almost_done" ELSE @]
    /\ mark' = [mark EXCEPT !["body"] = p] /\ p' = p + ToRead
    /\ UNCHANGED <<stream, refused, busy, end, ended, heard>>

ChunkDataAlmostDone ==
    /\ In({"chunk_data_almost_done"})
    /\ \/ StrictCheck(ch # "CR")
       \/ ch = "CR" /\ Data([counted EXCEPT !.state = "chunk_data_done"], "body", p - 1, p + 1)

ChunkDataDone ==
    /\ In({"chunk_data_done"})
    /\ \/ StrictCheck(ch # "LF")
       \/ ch = "LF" /\ Continue([counted EXCEPT !.nread = 0, !.state = "chunk_size_start"])

Execute ==
    \/ Finish \/ HeaderOverflow
    \/ Dead \/ StartReqOrRes \/ ResOrRespH \/ StartRes \/ Constant
    \/ FirstMajor \/ Major \/ FirstMinor \/ Minor
    \/ FirstStatusCode \/ StatusCode \/ Status
    \/ StartReq \/ ReqMethod \/ SpacesBeforeUrl \/ Url \/ HttpStart \/ ReqLineAlmostDone
    \/ HeaderFieldStart \/ HeaderField \/ HeaderValueDiscardWs \/ HeaderValueStart \/ HeaderValue
    \/ HeaderValueLws \/ HeaderValueDiscardLws \/ HeadersAlmostDone \/ HeadersDone
    \/ BodyIdentity \/ BodyIdentityEof \/ MessageDone
    \/ ChunkSizeStart \/ ChunkSize \/ ChunkParameters \/ ChunkSizeAlmostDone
    \/ ChunkData \/ ChunkDataAlmostDone \/ ChunkDataDone

Next == ParseBuffer \/ ParseEnd \/ Execute

\* No call runs and none will be made.
Over == ~busy /\ (ended \/ parser.http_errno # "OK")

-----------------------------------------------------------------------------
(* Properties. *)

\* What execute() asserts of its own state: a body that is counted has a length left and not the
\* value that stands for none; chunks are read of a chunked message only, and the size of a chunk
\* with nothing counted towards a header; one piece of data at most is open at a buffer's end; a
\* value's letters are never taken with the header's name alone known ("Shouldn't get here.", line 1569).
Asserted ==
    /\ In({"body_identity", "chunk_data"}) => parser.content_length \notin {0, MaxLength}
    /\ In({"chunk_size_start"}) => counted.nread = 1
    /\ In({"chunk_size_start", "chunk_size", "chunk_parameters", "chunk_size_almost_done",
           "chunk_data", "chunk_data_almost_done", "chunk_data_done"}) => "chunked" \in parser.flags
    /\ In({"chunk_data_almost_done"}) => parser.content_length = 0
    /\ busy /\ p > end => \A a, b \in DataCallback : mark[a] # 0 /\ mark[b] # 0 => a = b
    /\ In({"header_value"}) => parser.header_state \notin {"connection", "transfer_encoding", "upgrade"}

\* Whatever the buffers, the listener hears what is in the stream and in its order, all of it by
\* the end; a stream that breaks a rule ends in the error that says which.
Delivered ==
    /\ Len(heard) <= Len(stream.heard)
    /\ \A i \in 1..Len(heard) :
        /\ heard[i][1] = stream.heard[i][1]
        /\ (i < Len(heard) \/ heard[i][1] \notin DataCallback) => heard[i] = stream.heard[i]
        /\ IsPrefix(heard[i][2], stream.heard[i][2])
    /\ ended /\ refused = Nothing /\ parser.http_errno = "OK" => heard = stream.heard
    /\ (ended \/ (~busy /\ parser.http_errno # "OK")) /\ refused = Nothing => parser.http_errno = stream.errno

\* A callback that returns an error is the last one called, and execute() fails with its name
\* exactly when it was called.
RefusalEnds ==
    refused # Nothing =>
        /\ \A i \in 1..(Len(heard) - 1) : heard[i][1] # refused
        /\ heard # <<>> /\ ~busy => (parser.http_errno = "CB_" \o refused <=> Last(heard)[1] = refused)

\* http_parser.h:73: a listener that returns 1 from on_headers_complete() hears of no body.
NoBodyIfSkipped == stream.skips => \A i \in 1..Len(heard) : heard[i][1] # "body"

\* A letter is looked at again only in a state that is nearer to taking it: with a step in every state
\* of a call, which deadlock would deny, that makes every call of execute() return.
Nearer == <<"header_almost_done", "header_value_lws", "header_value_discard_lws", "header_value_start",
    "header_value_discard_ws", "header_field_start", "headers_almost_done", "headers_done",
    "body_identity", "message_done", "start_req_or_res", "start_req">>
Place(s) == CHOOSE i \in 0..Len(Nearer) : IF s \in ToSet(Nearer) THEN i > 0 /\ Nearer[i] = s ELSE i = 0
NoLetterForEver == [][busy /\ busy' /\ p' = p => Place(parser.state) < Place(parser'.state)]_vars

=============================================================================
