---------------------------- MODULE HttpLetters ----------------------------
(***************************************************************************)
(* The letters that http_parser.c tells apart, the words it looks for, and *)
(* its scanner of URLs, which the parser and parse_url() share.            *)
(***************************************************************************)
EXTENDS Integers

Digit == [d \in {"0", "1", "2", "3", "4", "5", "6", "7", "8", "9"} |->
    CASE d = "0" -> 0 [] d = "1" -> 1 [] d = "2" -> 2 [] d = "3" -> 3 [] d = "4" -> 4
      [] d = "5" -> 5 [] d = "6" -> 6 [] d = "7" -> 7 [] d = "8" -> 8 [] d = "9" -> 9]
IsNum(l) == l \in DOMAIN Digit
HexDigit == [d \in DOMAIN Digit \cup {"a", "f"} |->
    CASE d = "a" -> 10 [] d = "f" -> 15 [] OTHER -> Digit[d]]
IsHex(l) == l \in DOMAIN HexDigit

Blank == {"SP", "TAB"}
Newline == {"CR", "LF"}
Separator == Blank \cup Newline \cup {":", ",", ";", "/", "?", "@", "[", "]"}
IsToken(l) == l \notin Separator
IsUrlChar(l) == l \notin Blank \cup Newline \cup {"?", "#"}
IsAlpha(l) == IsToken(l) /\ ~IsNum(l) /\ l \notin {"*", "#", "-", ".", "="}
IsUserinfo(l) == IsUrlChar(l) /\ l \notin {"/", "@", "[", "]"}
IsHostChar(l) == IsAlpha(l) \/ IsNum(l) \/ l \in {".", "-"}

\* The words it looks for, as the letters in which they may be cut.
Connection == <<"c", "o", "n", "n", "ection">>
ProxyConnection == <<"p", "roxy-", "connection">>
ContentLength == <<"c", "o", "n", "t", "ent-length">>
TransferEncoding == <<"t", "ransfer-", "encoding">>
Upgrade == <<"u", "p", "grade">>
Chunked == <<"c", "h", "unked">>
KeepAlive == <<"k", "eep-", "alive">>
Close == <<"c", "l", "ose">>

-----------------------------------------------------------------------------
\* The state that a letter of a URL leads to: parse_url_char().
ParseUrlChar(s, l) ==
    IF l \in Blank \cup Newline THEN "dead"
    ELSE CASE s = "req_spaces_before_url" /\ l \in {"/", "*"} -> "req_path"
           [] s \in {"req_spaces_before_url", "req_schema"} /\ IsAlpha(l) -> "req_schema"
           [] s = "req_schema" /\ l = ":" -> "req_schema_slash"
           [] s = "req_schema_slash" /\ l = "/" -> "req_schema_slash_slash"
           [] s = "req_schema_slash_slash" /\ l = "/" -> "req_server_start"
           [] s \in {"req_server_with_at", "req_server_start", "req_server"} ->
                CASE l = "/" -> "req_path"
                  [] l = "?" -> "req_query_string_start"
                  [] l = "@" -> IF s = "req_server_with_at" THEN "dead" ELSE "req_server_with_at"
                  [] IsUserinfo(l) \/ l \in {"[", "]"} -> "req_server"
                  [] OTHER -> "dead"
           [] s = "req_path" /\ l # "#" -> IF l = "?" THEN "req_query_string_start" ELSE s
           [] s \in {"req_query_string_start", "req_query_string"} /\ l # "#" -> "req_query_string"
           [] s \in {"req_path", "req_query_string_start", "req_query_string"} /\ l = "#" -> "req_fragment_start"
           [] s = "req_fragment_start" -> IF l = "#" THEN s ELSE "req_fragment"
           [] s = "req_fragment" -> s
           [] OTHER -> "dead"

=============================================================================
