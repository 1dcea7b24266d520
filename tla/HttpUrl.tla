------------------------------ MODULE HttpUrl ------------------------------
(***************************************************************************)
(* http_parser_parse_url(): where in a URL its parts are.  A part is a     *)
(* record [off, len] of the letters before it and in it; the parts found   *)
(* are a function, of which the host's is narrowed down at the end.  The   *)
(* caller's structure is zeroed, as it is in the library's own tests.      *)
(***************************************************************************)
EXTENDS HttpLetters, Sequences, SequencesExt

CONSTANTS
    UrlLetter, UrlPrefix, MaxMore,   \* letters, what URLs that grow begin with, and by how many they grow
    Meant,                           \* choices of parts, as functions of their names to letters
    Nothing

VARIABLES
    url,        \* the URL
    connect,    \* whether it is taken for a CONNECT's
    meant       \* the parts it was put together from, or Nothing

vars == <<url, connect, meant>>

-----------------------------------------------------------------------------
\* Variant: the ? is part of the query.
FieldOfAll(s) ==
    CASE s = "req_schema" -> "schema"
      [] s \in {"req_server_with_at", "req_server"} -> "host"
      [] s = "req_path" -> "path"
      [] s \in {"req_query_string_start", "req_query_string"} -> "query"
      [] s = "req_fragment" -> "fragment"
      [] OTHER -> Nothing

\* The field that a letter belongs to which led to state s; delimiters belong to none.
FieldOf(s) ==
    CASE s = "req_schema" -> "schema"
      [] s \in {"req_server_with_at", "req_server"} -> "host"
      [] s = "req_path" -> "path"
      [] s = "req_query_string" -> "query"
      [] s = "req_fragment" -> "fragment"
      [] OTHER -> Nothing

\* A run of letters of one field, which letter i of it starts or extends.
Extended(fields, field, i, starts) ==
    [f \in DOMAIN fields \cup {field} |->
        IF f # field THEN fields[f]
        ELSE IF starts THEN [off |-> i - 1, len |-> 1] ELSE [fields[f] EXCEPT !.len = @ + 1]]

\* The state after i letters: dead, or the scanner's with the fields so far, the last one of them,
\* and whether there was an @.
Scan(u, is_connect) ==
    LET step(q, l) ==
          LET s == ParseUrlChar(q.s, l)
              uf == FieldOf(s)
              next == [q EXCEPT !.s = s, !.i = @ + 1, !.at = @ \/ s = "req_server_with_at"]
          IN IF q.s = "dead" \/ s = "dead" \/ uf = Nothing THEN next
             ELSE [next EXCEPT !.uf = uf, !.fields = Extended(@, uf, q.i + 1, uf # q.uf)]
    IN FoldLeft(step,
           [s |-> IF is_connect THEN "req_server_start" ELSE "req_spaces_before_url",
            i |-> 0, at |-> FALSE, uf |-> Nothing, fields |-> << >>], u)

\* The state that a letter of the server part leads to: http_parse_host_char().
ParseHostChar(s, l) ==
    CASE s \in {"userinfo_start", "userinfo"} ->
           IF l = "@" THEN "host_start" ELSE IF IsUserinfo(l) THEN "userinfo" ELSE "dead"
      [] s = "host_start" -> IF l = "[" THEN "host_v6_start" ELSE IF IsHostChar(l) THEN "host" ELSE "dead"
      [] s = "host" -> IF IsHostChar(l) THEN "host" ELSE IF l = ":" THEN "port_start" ELSE "dead"
      [] s = "host_v6_end" -> IF l = ":" THEN "port_start" ELSE "dead"
      [] s = "host_v6" /\ l = "]" -> "host_v6_end"
      [] s \in {"host_v6_start", "host_v6"} /\ l # "]" -> IF IsHex(l) \/ l \in {":", "."} THEN "host_v6" ELSE "dead"
      [] s \in {"port_start", "port"} -> IF IsNum(l) THEN "port" ELSE "dead"
      [] OTHER -> "dead"

\* The server part taken apart into userinfo, host and port; .s tells whether that failed.
ParseHost(u, fields, found_at) ==
    LET host == IF "host" \in DOMAIN fields THEN fields["host"] ELSE [off |-> 0, len |-> 0]
        partOf(s) == CASE s \in {"host", "host_v6"} -> "host" [] s = "port" -> "port"
                       [] s = "userinfo" -> "userinfo" [] OTHER -> Nothing
        step(q, l) ==
          LET s == ParseHostChar(q.s, l)
              next == [q EXCEPT !.s = s, !.i = @ + 1]
          IN IF q.s = "dead" \/ s = "dead" \/ partOf(s) = Nothing THEN next
             ELSE [next EXCEPT !.fields = Extended(@, partOf(s), q.i + 1, s # q.s)]
    IN FoldLeft(step,
           [s |-> IF found_at THEN "userinfo_start" ELSE "host_start", i |-> host.off,
            fields |-> [fields EXCEPT !["host"] = [@ EXCEPT !.len = 0]]],
           SubSeq(u, host.off + 1, host.off + host.len))

HostComplete(s) == s \in {"host", "host_v6_end", "port"}

\* The number that the digits of a part are.
Number(u, part) == FoldLeft(LAMBDA n, l : n * 10 + Digit[l], 0, SubSeq(u, part.off + 1, part.off + part.len))

\* What parse_url() finds: the fields, or Nothing when it returns an error.
Outcome(u, is_connect, scan, host) ==
    LET is_address == DOMAIN scan.fields \cap {"schema", "host"} # {}
        fields == IF is_address THEN host.fields ELSE scan.fields
    IN IF \/ scan.s = "dead"
          \/ is_address /\ ("host" \notin DOMAIN scan.fields \/ ~HostComplete(host.s))
          \/ is_connect /\ DOMAIN fields # {"host", "port"}
          \/ "port" \in DOMAIN fields /\ Number(u, fields["port"]) > 65535
       THEN Nothing ELSE fields

ParseUrl(u, is_connect) ==
    LET scan == Scan(u, is_connect)
    IN  Outcome(u, is_connect, scan, ParseHost(u, scan.fields, scan.at))

-----------------------------------------------------------------------------
(* URLs to take apart: those put together from parts, and those that grow letter by letter. *)

\* The letters of a choice of parts; a part that is not there is <<>>.
Concat(seqs) == FoldLeft(LAMBDA a, b : a \o b, <<>>, seqs)
If(part, before, after) == IF part = <<>> THEN <<>> ELSE before \o part \o after
Joined(c) == Concat(<<
    If(c.schema, <<>>, <<":", "/", "/">>), If(c.userinfo, <<>>, <<"@">>),
    IF ":" \in ToSet(c.host) THEN <<"[">> \o c.host \o <<"]">> ELSE c.host,
    If(c.port, <<":">>, <<>>), c.path, If(c.query, <<"?">>, <<>>), If(c.fragment, <<"#">>, <<>>)>>)

Init ==
    /\ connect \in BOOLEAN
    /\ \/ url \in UrlPrefix /\ meant = Nothing
       \/ meant \in Meant /\ url = Joined(meant) /\ connect = (meant.schema = <<>>)
Append1 ==
    /\ meant = Nothing
    /\ \E prefix \in UrlPrefix : IsPrefix(prefix, url) /\ Len(url) < Len(prefix) + MaxMore
    /\ \E l \in UrlLetter : url' = Append(url, l)
Next == Append1 /\ UNCHANGED <<connect, meant>>

-----------------------------------------------------------------------------
(* Properties. *)

Order == <<"schema", "userinfo", "host", "port", "path", "query", "fragment">>
Found(fields, f) == f \in DOMAIN fields /\ fields[f].len > 0
Letters(fields, f) ==
    IF Found(fields, f) THEN SubSeq(url, fields[f].off + 1, fields[f].off + fields[f].len) ELSE <<>>

RightParts(fields) ==
    IF fields = Nothing THEN meant # Nothing => Number(meant.port, [off |-> 0, len |-> Len(meant.port)]) > 65535
    ELSE /\ \A i, j \in DOMAIN Order : i < j /\ Found(fields, Order[i]) /\ Found(fields, Order[j]) =>
                fields[Order[i]].off + fields[Order[i]].len < fields[Order[j]].off + (IF Order[j] = "path" THEN 1 ELSE 0)
         /\ \A i \in DOMAIN url :
                \/ \E f \in DOMAIN fields : fields[f].off < i /\ i <= fields[f].off + fields[f].len
                \/ url[i] \in {":", "/", "@", "[", "]", "?", "#"}
         /\ \A f \in DOMAIN fields : fields[f].off + fields[f].len <= Len(url)
         /\ "schema" \in DOMAIN fields \/ connect => Found(fields, "host")
         /\ "port" \in DOMAIN fields => Number(url, fields["port"]) < 65536
         /\ meant # Nothing => \A f \in ToSet(Order) : Letters(fields, f) = meant[f]

\* The parts found lie in the URL in their order, none of them in another, with nothing outside of
\* them but delimiters; an address has a host, and a port that fits into 16 bits; and a URL put
\* together from parts comes apart into the same.
PartsRight == RightParts(ParseUrl(url, connect))

=============================================================================
