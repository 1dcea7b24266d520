---------------------------- MODULE HttpMessages ----------------------------
(***************************************************************************)
(* What HTTP promises of a stream: messages, the letters that carry them,  *)
(* and what a listener is to hear of them however the letters come.  A     *)
(* message is a record                                                     *)
(*   [start, text, facts, headers, framing, body, trailers]                *)
(* with the start line's letters and the call for its text, what is to be  *)
(* asked once the headers are complete, the headers as records             *)
(* [name, value], and the pieces of the body.                              *)
(***************************************************************************)
EXTENDS Integers, Sequences, SequencesExt, HttpByteStream

CONSTANT Nothing

Concat(seqs) == FoldLeft(LAMBDA a, b : a \o b, <<>>, seqs)
Map(Op(_), s) == [i \in DOMAIN s |-> Op(s[i])]

Header(name, value) == [name |-> name, value |-> value]
HeaderLine(h) == h.name \o <<":">> \o h.value \o CRLF
HeaderHeard(h) == <<<<"header_field", h.name>>, <<"header_value", h.value>>>>

\* What goes between the empty line and the next message.
Chunk(data) == HexStr(Len(data)) \o CRLF \o data \o CRLF
BodyWire(m) ==
    IF m.framing = "chunked"
    THEN Concat(Map(Chunk, m.body)) \o <<"0">> \o CRLF \o Concat(Map(HeaderLine, m.trailers)) \o CRLF
    ELSE Concat(m.body)

Wire(m) == m.start \o Concat(Map(HeaderLine, m.headers)) \o CRLF \o BodyWire(m)

\* A message that ends with the stream is complete only then.
MessageHeard(m) ==
    <<<<"message_begin", <<>>>>>> \o m.text \o Concat(Map(HeaderHeard, m.headers))
    \o <<<<"headers_complete", m.facts>>>>
    \o (IF Concat(m.body) = <<>> THEN <<>> ELSE <<<<"body", Concat(m.body)>>>>)
    \o Concat(Map(HeaderHeard, m.trailers))
    \o <<<<"message_complete", <<>>>>>>

\* Messages one after the other; what comes after the one that says it is the last is an error.
StreamOf(ms) == [
    wire |-> Concat(Map(Wire, ms)),
    heard |-> Concat(Map(MessageHeard, ms)),
    errno |-> "OK", refusals |-> {}, skips |-> FALSE]
Then(s, letters, errno) == [s EXCEPT !.wire = @ \o letters, !.errno = errno]

-----------------------------------------------------------------------------
(* Messages to send. *)

Message(start, text, facts, headers) ==
    [start |-> start, text |-> text, facts |-> facts, headers |-> headers,
     framing |-> "none", body |-> <<>>, trailers |-> <<>>]

Version11 == <<"H", "T", "T", "P", "/", "1", ".", "1">>
Version10 == <<"H", "T", "T", "P", "/", "1", ".", "0">>

Request(method, letters, url, version, headers) ==
    Message(letters \o <<"SP">> \o url \o <<"SP">> \o version \o CRLF, <<<<"url", url>>>>,
            <<method, 0, FALSE>>, headers)
Response(version, code, words, headers) ==
    Message(version \o <<"SP">> \o Str(code) \o (IF words = <<>> THEN <<>> ELSE <<"SP">>) \o words \o CRLF,
            IF words = <<>> THEN <<>> ELSE <<<<"status", words>>>>, <<Nothing, code, FALSE>>, headers)
Carrying(m, framing, body) == [m EXCEPT !.framing = framing, !.body = body]

=============================================================================
