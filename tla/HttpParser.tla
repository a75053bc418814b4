----------------------------- MODULE HttpParser -----------------------------
(***************************************************************************)
(* The HTTP request parser of src/util/crow_all.h: http_parser_execute,    *)
(* byte by byte, and the callbacks of HTTPParser that build the request.   *)
(*                                                                         *)
(* The bytes of a message come in reads, cut anywhere.  What the parser    *)
(* keeps from one read to the next is in its record; its marks, the        *)
(* places in the read where a piece of data begins, are not kept.          *)
(*                                                                         *)
(* A byte is a string of one character, or the name of one: SP, TAB, CR,   *)
(* LF, NUL, comma, quote, backslash.  The names and the values the parser  *)
(* looks for are spelled with two or three letters of their own, so that a *)
(* read may end inside them: content-length is                             *)
(* <<"con", "tent-", "length">>.  Upper and lower case are one.            *)
(***************************************************************************)
EXTENDS Integers, Sequences, SequencesExt

CONSTANTS
    MaxHeaderSize,  \* max_header_size
    Width           \* bits of content_length

UllongMax == 2 ^ Width - 1

(* A hexadecimal digit is less than ULLONG_MAX, which stands for no length. *)
ASSUME WidthAssumption == UllongMax \in Nat /\ UllongMax > 16

(* p - NULL: more than any length *)
Address == 1000000

-----------------------------------------------------------------------------
(* Bytes *)

Upper   == {"A", "B", "C", "D", "E", "F", "G", "H", "I", "J", "K", "L", "M",
            "N", "O", "P", "Q", "R", "S", "T", "U", "V", "W", "X", "Y", "Z"}
Lower   == {"a", "b", "c", "d", "e", "f", "n", "u", "x"}
HexDigits == <<"0", "1", "2", "3", "4", "5", "6", "7", "8", "9",
               "a", "b", "c", "d", "e", "f">>
Digits  == {HexDigits[k] : k \in 1 .. 10}
Hex     == {HexDigits[k] : k \in 1 .. 16}
Digit(ch) == CHOOSE d \in 0 .. 15 : HexDigits[d + 1] = ch     \* unhex
Words   == {"con", "nection", "tent-", "length", "proxy-", "transfer-", "encoding",
            "up", "grade", "chun", "ked", "keep-", "alive", "clo", "se", "host", "expect",
            "reducer_count", "shard_size", "files", "true", "null", "h2c"}
Punct   == {"/", ":", "@", ".", "comma", ";", "*", "[", "]", "{", "}", "-", "+", "%",
            "quote", "backslash"}
Blank   == {"SP", "TAB"}
Eol     == {"CR", "LF"}
Letters == Upper \cup Lower
Byte    == Letters \cup Digits \cup Words \cup Punct \cup Blank \cup Eol \cup {"?", "NUL"}

Token      == Letters \cup Digits \cup Words \cup {".", "*", "-", "+", "%"}
UrlChar    == Letters \cup Digits \cup Words \cup Punct
Userinfo   == Letters \cup Digits \cup {"-", "+", ".", "*", "%", ";", ":", "comma"}
HeaderChar == Byte \ {"NUL"}

-----------------------------------------------------------------------------
(* Tables: where a byte leads from a state *)

Methods == {"DELETE", "GET", "HEAD", "POST", "PUT", "CONNECT", "OPTIONS", "TRACE",
    "PATCH", "PURGE", "COPY", "LOCK", "MKCOL", "MOVE", "PROPFIND", "PROPPATCH",
    "SEARCH", "UNLOCK", "BIND", "REBIND", "UNBIND", "ACL", "REPORT", "MKACTIVITY",
    "CHECKOUT", "MERGE", "M-SEARCH", "NOTIFY", "SUBSCRIBE", "UNSUBSCRIBE",
    "MKCALENDAR", "LINK", "UNLINK", "SOURCE"}

Letter(m, i) == SubSeq(m, i + 1, i + 1)     \* letter i of m, from 0

(* The method its first letter stands for until another letter tells *)
FirstMethod == {"ACL", "BIND", "CONNECT", "DELETE", "GET", "HEAD", "LOCK", "MKCOL",
    "NOTIFY", "OPTIONS", "POST", "REPORT", "SUBSCRIBE", "TRACE", "UNLOCK"}

(* The method another letter makes of it: the method so far, the place of  *)
(* the letter, the letter, the new method                                  *)
OtherRenames == {
    <<"POST", 1, "U", "PUT">>,            <<"POST", 1, "A", "PATCH">>,
    <<"POST", 1, "R", "PROPFIND">>,
    <<"CONNECT", 1, "H", "CHECKOUT">>,    <<"CONNECT", 2, "P", "COPY">>,
    <<"MKCOL", 1, "O", "MOVE">>,          <<"MKCOL", 1, "E", "MERGE">>,
    <<"MKCOL", 1, "-", "M-SEARCH">>,      <<"MKCOL", 2, "A", "MKACTIVITY">>,
    <<"MKCOL", 3, "A", "MKCALENDAR">>,    <<"SUBSCRIBE", 1, "E", "SEARCH">>,
    <<"SUBSCRIBE", 1, "O", "SOURCE">>,    <<"REPORT", 2, "B", "REBIND">>,
    <<"PROPFIND", 4, "P", "PROPPATCH">>,  <<"LOCK", 1, "I", "LINK">>,
    <<"UNLOCK", 2, "S", "UNSUBSCRIBE">>,  <<"UNLOCK", 2, "B", "UNBIND">>,
    <<"UNLOCK", 3, "I", "UNLINK">>}
\* mutant: PURGE is looked for at the wrong letter
Renames_Misplaced == OtherRenames \cup {<<"PUT", 1, "R", "PURGE">>}
Renames == OtherRenames \cup {<<"PUT", 2, "R", "PURGE">>}

(* parse_url_char *)
Server   == {"s_req_server_start", "s_req_server", "s_req_server_with_at"}
Query    == {"s_req_query_string_start", "s_req_query_string"}
UrlMoves ==
    {<<"s_req_spaces_before_url", {"/", "*"}, "s_req_path">>,
     <<"s_req_spaces_before_url", Letters, "s_req_schema">>,
     <<"s_req_schema", Letters, "s_req_schema">>,
     <<"s_req_schema", {":"}, "s_req_schema_slash">>,
     <<"s_req_schema_slash", {"/"}, "s_req_schema_slash_slash">>,
     <<"s_req_schema_slash_slash", {"/"}, "s_req_server_start">>,
     <<"s_req_path", UrlChar, "s_req_path">>,
     <<"s_req_path", {"?"}, "s_req_query_string_start">>}
    \cup {<<s, {"/"}, "s_req_path">> : s \in Server}
    \cup {<<s, {"?"}, "s_req_query_string_start">> : s \in Server}
    \cup {<<s, {"@"}, "s_req_server_with_at">> : s \in Server \ {"s_req_server_with_at"}}
    \cup {<<s, Userinfo \cup {"[", "]"}, "s_req_server">> : s \in Server}
    \cup {<<s, UrlChar \cup {"?"}, "s_req_query_string">> : s \in Query}

(* The states that only look at one byte *)
PlainMoves == {
    <<"s_dead", Eol, "s_dead">>,
    <<"s_req_http_start", {"SP"}, "s_req_http_start">>,
    <<"s_req_http_start", {"H"}, "s_req_http_H">>,
    <<"s_req_http_H", {"T"}, "s_req_http_HT">>,
    <<"s_req_http_HT", {"T"}, "s_req_http_HTT">>,
    <<"s_req_http_HTT", {"P"}, "s_req_http_HTTP">>,
    <<"s_req_http_I", {"C"}, "s_req_http_IC">>,
    <<"s_req_http_IC", {"E"}, "s_req_http_HTTP">>,
    <<"s_req_http_HTTP", {"/"}, "s_req_http_major">>,
    <<"s_req_http_dot", {"."}, "s_req_http_minor">>,
    <<"s_req_http_end", {"CR"}, "s_req_line_almost_done">>,
    <<"s_req_http_end", {"LF"}, "s_header_field_start">>,
    <<"s_req_line_almost_done", {"LF"}, "s_header_field_start">>,
    <<"s_header_almost_done", {"LF"}, "s_header_value_lws">>,
    <<"s_header_value_discard_ws_almost_done", {"LF"}, "s_header_value_discard_lws">>,
    <<"s_chunk_parameters", {"CR"}, "s_chunk_size_almost_done">>,
    <<"s_chunk_parameters", Byte \ {"CR"}, "s_chunk_parameters">>}
PlainStates == {"s_dead", "s_req_http_H", "s_req_http_HT", "s_req_http_HTT", "s_req_http_I",
    "s_req_http_IC", "s_req_http_HTTP", "s_req_http_dot", "s_req_http_end",
    "s_req_line_almost_done", "s_header_almost_done", "s_header_value_discard_ws_almost_done"}

(* ... and what they say of another one *)
PlainError(s) ==
    CASE s = "s_dead" -> "CLOSED_CONNECTION"
      [] s = "s_req_http_start" -> "INVALID_CONSTANT"
      [] s \in {"s_req_http_dot", "s_req_http_end"} -> "INVALID_VERSION"
      [] s \in {"s_req_line_almost_done", "s_header_almost_done"} -> "LF_EXPECTED"
      [] OTHER -> "STRICT"

(* The header names the parser knows, and the values it looks for *)
FieldMoves == {
    <<"start", "con", "h_CON">>,
    <<"start", "proxy-", "h_matching_proxy_connection">>,
    <<"start", "transfer-", "h_matching_transfer_encoding">>,
    <<"start", "up", "h_matching_upgrade">>,
    <<"h_CON", "nection", "h_connection">>,
    <<"h_CON", "tent-", "h_matching_content_length">>,
    <<"h_matching_content_length", "length", "h_content_length">>,
    <<"h_matching_proxy_connection", "con", "h_matching_proxy_connection">>,
    <<"h_matching_proxy_connection", "nection", "h_connection">>,
    <<"h_matching_transfer_encoding", "encoding", "h_transfer_encoding">>,
    <<"h_matching_upgrade", "grade", "h_upgrade">>}
FieldStates == {"h_general", "h_CON", "h_matching_proxy_connection",
    "h_matching_content_length", "h_matching_transfer_encoding", "h_matching_upgrade",
    "h_connection", "h_content_length", "h_transfer_encoding", "h_upgrade"}

(* A byte of a value is compared as ch | 0x20, which makes a ) of a TAB, so *)
(* that only a SP is skipped, and tokens of @ and of the backslash.         *)
Coding == "h_matching_transfer_encoding_token"
ValueMoves ==
    {<<"start_h_transfer_encoding", {"chun"}, "h_matching_transfer_encoding_chunked">>,
     <<"start_h_connection", {"keep-"}, "h_matching_connection_keep_alive">>,
     <<"start_h_connection", {"clo"}, "h_matching_connection_close">>,
     <<"start_h_connection", {"SP"}, "h_connection">>,
     <<"h_matching_transfer_encoding_token_start", {"chun"},
       "h_matching_transfer_encoding_chunked">>,
     <<"h_matching_transfer_encoding_token_start",
       (Token \ {"chun"}) \cup {"@", "backslash"}, Coding>>,
     <<"h_matching_transfer_encoding_token_start", {"SP"},
       "h_matching_transfer_encoding_token_start">>,
     <<"h_matching_transfer_encoding_chunked", {"ked"}, "h_transfer_encoding_chunked">>,
     <<Coding, {"comma"}, "h_matching_transfer_encoding_token_start">>,
     <<"h_matching_connection_keep_alive", {"alive"}, "h_connection_keep_alive">>,
     <<"h_matching_connection_close", {"se"}, "h_connection_close">>}
    \cup {<<h, {"SP"}, h>> : h \in {"h_transfer_encoding_chunked",
                                   "h_connection_keep_alive", "h_connection_close"}}

(* The state a table leads to, or the other one *)
Target(moves, s, ch, other) ==
    LET to == {m \in moves : m[1] = s /\ ch \in m[2]}
    IN IF to = {} THEN other ELSE (CHOOSE m \in to : TRUE)[3]

FieldNext(h, ch) ==
    LET to == {m \in FieldMoves : m[1] = h /\ m[2] = ch}
    IN IF to = {} THEN "h_general" ELSE (CHOOSE m \in to : TRUE)[3]

ValueNext(h, ch) ==
    Target(ValueMoves, h, ch,
           IF h \in {"start_h_transfer_encoding", "h_matching_transfer_encoding_chunked",
                     Coding, "h_transfer_encoding_chunked"}
           THEN Coding ELSE "h_general")

-----------------------------------------------------------------------------
(* The parser between two reads: http_parser_init and the members of HTTPParser *)

Fresh ==
    [state |-> "s_start_req", header_state |-> "h_general", flags |-> {},
     uses_transfer_encoding |-> FALSE, content_length |-> 0, upgrade |-> FALSE,
     method |-> "DELETE", index |-> 0, qs_point |-> 0,
     http_major |-> 0, http_minor |-> 0, http_errno |-> "OK", nread |-> 0,
     raw_url |-> <<>>, header_building_state |-> 0, header_field |-> <<>>,
     header_value |-> <<>>, headers |-> <<>>, body |-> <<>>,
     keep_alive |-> FALSE, close_connection |-> FALSE,
     handled |-> <<>>]      \* the requests given to handler_->handle

Fail(w, e) == [w EXCEPT !.http_errno = e, !.stop = TRUE]

(* assert(cond) *)
Asserted(w, cond, v) == IF cond THEN v ELSE Fail(w, "assertion")

Go(w, s) == [w EXCEPT !.state = s]

(* CROW_MARK *)
Mark(w, f) == IF w.mark[f] = 0 THEN [w EXCEPT !.mark[f] = w.p] ELSE w

-----------------------------------------------------------------------------
(* The callbacks of HTTPParser *)

OnMessageBegin(w) ==
    [w EXCEPT !.raw_url = <<>>, !.header_field = <<>>, !.header_value = <<>>,
              !.headers = <<>>, !.body = <<>>, !.header_building_state = 0,
              !.qs_point = 0, !.http_major = 0, !.http_minor = 0,
              !.keep_alive = FALSE, !.close_connection = FALSE]

OnUrl(w, at) == [w EXCEPT !.raw_url = @ \o at]

(* headers.emplace with both strings moved *)
Emplace(w) ==
    [w EXCEPT !.headers = Append(@, <<w.header_field, w.header_value>>),
              !.header_field = <<>>, !.header_value = <<>>]

OnHeaderField(w, at) ==
    IF w.header_building_state = 1 THEN [w EXCEPT !.header_field = @ \o at]
    ELSE LET v == IF w.header_value = <<>> THEN w ELSE Emplace(w)
         IN [v EXCEPT !.header_field = at, !.header_building_state = 1]

OnHeaderValue(w, at) ==
    IF w.header_building_state = 1
    THEN [w EXCEPT !.header_value = at, !.header_building_state = 0]
    ELSE [w EXCEPT !.header_value = @ \o at]

OnBody(w, at) == [w EXCEPT !.body = @ \o at]

(* set_connection_parameters *)
OnHeadersComplete(w) ==
    LET v   == IF w.header_field = <<>> THEN w ELSE Emplace(w)
        one == <<w.http_major, w.http_minor>>
        keep == "KEEP_ALIVE" \in w.flags
    IN [v EXCEPT !.keep_alive = (one = <<1, 0>> /\ keep) \/ one = <<1, 1>>,
                 !.close_connection = (one = <<1, 0>> /\ ~keep)
                                        \/ (one = <<1, 1>> /\ "CLOSE" \in w.flags)]

(* raw_url.substr(0, qs_point) *)
Endpoint(w) == IF w.qs_point = 0 \/ w.qs_point > Len(w.raw_url) THEN w.raw_url
               ELSE SubSeq(w.raw_url, 1, w.qs_point)

OnMessageComplete(w) ==
    [w EXCEPT !.handled = Append(@,
        [method |-> w.method, raw_url |-> w.raw_url, url |-> Endpoint(w),
         headers |-> w.headers, body |-> w.body,
         version |-> <<w.http_major, w.http_minor>>, keep_alive |-> w.keep_alive,
         close_connection |-> w.close_connection, upgrade |-> w.upgrade])]

(* CROW_CALLBACK_DATA_: the bytes from the mark to last *)
Callback(w, f, last, On(_, _)) ==
    IF w.mark[f] = 0 THEN w
    ELSE [On(w, SubSeq(w.read, w.mark[f], last)) EXCEPT !.mark[f] = 0]

-----------------------------------------------------------------------------
(* One byte, in each state.  CROW_REEXECUTE takes the same byte to the     *)
(* operator of the next state, which is therefore defined before.          *)

(* CROW_NEW_MESSAGE is s_start_req *)
Complete(w) == OnMessageComplete(Go(w, "s_start_req"))

\* mutant: the count of the headers goes on with the first chunk
HeadersDone_KeepsCount(w) ==
    CASE w.upgrade -> [Complete(w) EXCEPT !.stop = TRUE, !.parsed = w.p]
      [] ~w.upgrade /\ "CHUNKED" \in w.flags -> Go(w, "s_chunk_size_start")
      [] ~w.upgrade /\ "CHUNKED" \notin w.flags /\ w.uses_transfer_encoding ->
           Fail(w, "INVALID_TRANSFER_ENCODING")
      [] OTHER -> IF w.content_length \in {0, UllongMax} THEN Complete(w)
                  ELSE Go(w, "s_body_identity")
HeadersDone(w) ==
    LET v == [w EXCEPT !.nread = 0]
    IN CASE v.upgrade -> [Complete(v) EXCEPT !.stop = TRUE, !.parsed = w.p]
         [] ~v.upgrade /\ "CHUNKED" \in v.flags -> Go(v, "s_chunk_size_start")
         [] ~v.upgrade /\ "CHUNKED" \notin v.flags /\ v.uses_transfer_encoding ->
              Fail(v, "INVALID_TRANSFER_ENCODING")
         [] OTHER -> IF v.content_length \in {0, UllongMax} THEN Complete(v)
                     ELSE Go(v, "s_body_identity")

TwoLengths(w) == w.uses_transfer_encoding /\ "CONTENTLENGTH" \in w.flags

HeadersAlmostDone(w, ch) ==
    IF ch # "LF" THEN Fail(w, "STRICT")
    ELSE IF "TRAILING" \in w.flags THEN Complete(w)
    ELSE IF TwoLengths(w) THEN Fail(w, "UNEXPECTED_CONTENT_LENGTH")
    ELSE HeadersDone(OnHeadersComplete(
           [w EXCEPT !.state = "s_headers_done",
                     !.upgrade = "UPGRADE" \in w.flags \/ w.method = "CONNECT"]))

HeaderFieldStart(w, ch) ==
    CASE ch = "CR" -> Go(w, "s_headers_almost_done")
      [] ch = "LF" -> HeadersAlmostDone(Go(w, "s_headers_almost_done"), ch)
      [] ch \in Token -> [Mark(w, "header_field") EXCEPT
                            !.state = "s_header_field",
                            !.header_state = FieldNext("start", ch)]
      [] OTHER -> Fail(w, "INVALID_HEADER_TOKEN")

HeaderField(w, ch) ==
    CASE ch \in Token ->
           LET next == FieldNext(w.header_state, ch)
           IN Asserted(w, w.header_state \in FieldStates,
                [w EXCEPT !.header_state = next,
                          !.uses_transfer_encoding = @ \/ next = "h_transfer_encoding"])
      [] ch = ":" -> Callback(Go(w, "s_header_value_discard_ws"), "header_field",
                              w.p - 1, OnHeaderField)
      [] OTHER -> Fail(w, "INVALID_HEADER_TOKEN")

ContentLengthStart(w, ch) ==
    CASE ch \notin Digits -> Fail(w, "INVALID_CONTENT_LENGTH")
      [] ch \in Digits /\ "CONTENTLENGTH" \in w.flags -> Fail(w, "UNEXPECTED_CONTENT_LENGTH")
      [] OTHER -> [w EXCEPT !.flags = @ \cup {"CONTENTLENGTH"},
                            !.content_length = Digit(ch),
                            !.header_state = "h_content_length_num"]

HeaderValueStart(w, ch) ==
    LET v == [Mark(w, "header_value") EXCEPT !.state = "s_header_value"]
    IN CASE v.header_state = "h_upgrade" ->
              [v EXCEPT !.flags = @ \cup {"UPGRADE"}, !.header_state = "h_general"]
         [] v.header_state = "h_content_length" -> ContentLengthStart(v, ch)
         [] v.header_state \in {"h_content_length_ws",
                                "h_matching_transfer_encoding_token_start"} -> v
         [] v.header_state = "h_transfer_encoding" ->
              [v EXCEPT !.header_state = ValueNext("start_h_transfer_encoding", ch)]
         [] v.header_state = "h_connection" ->
              [v EXCEPT !.header_state = ValueNext("start_h_connection", ch)]
         [] OTHER -> [v EXCEPT !.header_state = "h_general"]

(* The number so far times base plus a digit, if it is far from wrapping *)
\* mutant: no test, the number wraps
Grow_Wraps(w, base, d) ==
    [w EXCEPT !.content_length = (@ * base + d) % (UllongMax + 1)]
Grow(w, base, d) ==
    IF (UllongMax - base) \div base < w.content_length
    THEN Fail(w, "INVALID_CONTENT_LENGTH")
    ELSE [w EXCEPT !.content_length = @ * base + d]

ContentLength(w, ch) ==
    CASE ch = "SP" -> [w EXCEPT !.header_state = "h_content_length_ws"]
      [] ch \in Digits -> Grow(w, 10, Digit(ch))
      [] OTHER -> Fail(w, "INVALID_CONTENT_LENGTH")

(* The bytes of a value are counted one by one, and their sum is looked at *)
(* where the value or the read ends.  (A value of no special header is     *)
(* searched max_header_size bytes at a time, and a byte between two of     *)
(* them is stepped over: the sum is too large by then.)                    *)
Counted(w) ==
    IF w.nread > MaxHeaderSize THEN Fail(w, "HEADER_OVERFLOW")
    ELSE [w EXCEPT !.mark["start"] = 0]

HeaderValue(w, ch) ==
    LET h == w.header_state
        ValueOf(v) == Callback(v, "header_value", w.p - 1, OnHeaderValue)
    IN CASE ch = "CR" -> Counted(ValueOf(Go(w, "s_header_almost_done")))
         [] ch = "LF" -> IF Counted(w).stop THEN Counted(w)
                         ELSE Go(ValueOf(Counted(w)), "s_header_value_lws")
         [] ch \notin HeaderChar -> Fail(w, "INVALID_HEADER_TOKEN")
         [] OTHER ->
              CASE h \in {"h_connection", "h_transfer_encoding"} -> Fail(w, "assertion")
                [] h = "h_content_length_num" -> ContentLength(w, ch)
                [] h = "h_content_length_ws" ->
                     IF ch = "SP" THEN w ELSE Fail(w, "INVALID_CONTENT_LENGTH")
                [] OTHER -> [w EXCEPT !.header_state = ValueNext(h, ch)]

(* The value is over, unless the next line goes on with it *)
HeaderValueLws(w, ch) ==
    IF ch \in Blank
    THEN HeaderValueStart(
           [w EXCEPT !.header_state = IF @ = "h_content_length_num"
                                      THEN "h_content_length_ws" ELSE @], ch)
    ELSE LET flag == CASE w.header_state = "h_connection_keep_alive" -> {"KEEP_ALIVE"}
                       [] w.header_state = "h_connection_close" -> {"CLOSE"}
                       [] w.header_state = "h_transfer_encoding_chunked" -> {"CHUNKED"}
                       [] OTHER -> {}
         IN HeaderFieldStart([w EXCEPT !.flags = @ \cup flag,
                                       !.state = "s_header_field_start"], ch)

HeaderValueDiscardWs(w, ch) ==
    CASE ch \in Blank -> w
      [] ch = "CR" -> Go(w, "s_header_value_discard_ws_almost_done")
      [] ch = "LF" -> Go(w, "s_header_value_discard_lws")
      [] OTHER -> HeaderValueStart(w, ch)

(* The value was empty *)
HeaderValueDiscardLws(w, ch) ==
    IF ch \in Blank THEN Go(w, "s_header_value_discard_ws")
    ELSE HeaderFieldStart(
           Callback(Mark(Go(w, "s_header_field_start"), "header_value"),
                    "header_value", w.p - 1, OnHeaderValue), ch)

StartReq(w, ch) ==
    LET v == [w EXCEPT !.flags = {}, !.uses_transfer_encoding = FALSE,
                       !.content_length = UllongMax]
        guess == {m \in FirstMethod : Letter(m, 0) = ch}
    IN CASE ch \in Eol -> w
         [] ch \notin Eol /\ guess = {} -> Fail(v, "INVALID_METHOD")
         [] OTHER -> OnMessageBegin([v EXCEPT !.method = CHOOSE m \in guess : TRUE,
                                              !.index = 1, !.state = "s_req_method"])

ReqMethod(w, ch) ==
    LET rename == {r \in Renames : r[1] = w.method /\ r[2] = w.index /\ r[3] = ch}
        v      == [w EXCEPT !.index = @ + 1]
    IN CASE ch = "SP" /\ w.index = Len(w.method) -> Go(v, "s_req_spaces_before_url")
         [] w.index < Len(w.method) /\ ch = Letter(w.method, w.index) -> v
         [] (w.index >= Len(w.method) \/ ch # Letter(w.method, w.index))
              /\ rename # {} -> [v EXCEPT !.method = (CHOOSE r \in rename : TRUE)[4]]
         [] OTHER -> Fail(w, "INVALID_METHOD")

(* url_start is the mark the place of the ? is counted from *)
UrlChars(w, s, ch) ==
    LET next == Target(UrlMoves, s, ch, "s_dead")
    IN IF next = "s_dead" THEN Fail(w, "INVALID_URL")
       ELSE IF next = "s_req_query_string_start"
            THEN [w EXCEPT !.state = next,
                           !.qs_point = IF w.mark["url_start"] = 0 THEN Address
                                        ELSE w.p - w.mark["url_start"]]
            ELSE Go(w, next)

SpacesBeforeUrl(w, ch) ==
    IF ch = "SP" THEN w
    ELSE UrlChars(Mark(Mark(w, "url"), "url_start"),
                  IF w.method = "CONNECT" THEN "s_req_server_start" ELSE w.state, ch)

(* A URL may end here; without a version the request is HTTP/0.9 *)
UrlOrEnd(w, ch) ==
    CASE ch = "SP" -> Callback(Go(w, "s_req_http_start"), "url", w.p - 1, OnUrl)
      [] ch \in Eol /\ w.method # "GET" -> Fail(Go(w, "s_dead"), "INVALID_VERSION")
      [] ch \in Eol /\ w.method = "GET" ->
           Callback([w EXCEPT !.http_major = 0, !.http_minor = 9,
                              !.state = IF ch = "CR" THEN "s_req_line_almost_done"
                                        ELSE "s_header_field_start"],
                    "url", w.p - 1, OnUrl)
      [] OTHER -> UrlChars(w, w.state, ch)

Version(w, ch) ==
    CASE ch \notin Digits -> Fail(w, "INVALID_VERSION")
      [] ch \in Digits /\ w.state = "s_req_http_major" ->
           [w EXCEPT !.http_major = Digit(ch), !.state = "s_req_http_dot"]
      [] OTHER -> [w EXCEPT !.http_minor = Digit(ch), !.state = "s_req_http_end"]

HttpStart(w, ch) ==
    IF ch = "I" /\ w.method = "SOURCE" THEN Go(w, "s_req_http_I")
    ELSE LET next == Target(PlainMoves, w.state, ch, "none")
         IN IF next = "none" THEN Fail(w, "INVALID_CONSTANT") ELSE Go(w, next)

Plain(w, ch) ==
    LET next == Target(PlainMoves, w.state, ch, "none")
    IN IF next = "none" THEN Fail(w, PlainError(w.state)) ELSE Go(w, next)

(* s_message_done is reached with the last byte of the body *)
BodyIdentity(w) ==
    LET v == [Mark(w, "body") EXCEPT !.content_length = @ - 1]
    IN Asserted(w, w.content_length \notin {0, UllongMax},
              IF v.content_length = 0 THEN Complete(Callback(v, "body", w.p, OnBody))
              ELSE v)

(* assert(parser->flags & F_CHUNKED) *)
AssertChunked(w, v) == Asserted(w, "CHUNKED" \in w.flags, v)

ChunkSizeStart(w, ch) ==
    Asserted(w, w.nread = 1, AssertChunked(w,
        IF ch \in Hex
        THEN [w EXCEPT !.content_length = Digit(ch), !.state = "s_chunk_size"]
        ELSE Fail(w, "INVALID_CHUNK_SIZE")))

ChunkSize(w, ch) ==
    AssertChunked(w,
        CASE ch = "CR" -> Go(w, "s_chunk_size_almost_done")
          [] ch \in Hex -> Grow(w, 16, Digit(ch))
          [] ch \in {";", "SP"} -> Go(w, "s_chunk_parameters")
          [] OTHER -> Fail(w, "INVALID_CHUNK_SIZE"))

ChunkParameters(w, ch) == AssertChunked(w, Plain(w, ch))

ChunkSizeAlmostDone(w, ch) ==
    LET v == [w EXCEPT !.nread = 0]
    IN AssertChunked(w,
        CASE ch # "LF" -> Fail(w, "STRICT")
          [] ch = "LF" /\ v.content_length = 0 ->
               [v EXCEPT !.flags = @ \cup {"TRAILING"}, !.state = "s_header_field_start"]
          [] OTHER -> Go(v, "s_chunk_data"))

ChunkData(w) ==
    LET v == [Mark(w, "body") EXCEPT !.content_length = @ - 1]
    IN AssertChunked(w, Asserted(w, w.content_length \notin {0, UllongMax},
        IF v.content_length = 0 THEN Go(v, "s_chunk_data_almost_done") ELSE v))

ChunkDataAlmostDone(w, ch) ==
    AssertChunked(w, Asserted(w, w.content_length = 0,
        IF ch = "CR" THEN Callback(Go(w, "s_chunk_data_done"), "body", w.p - 1, OnBody)
        ELSE Fail(w, "STRICT")))

ChunkDataDone(w, ch) ==
    AssertChunked(w, IF ch = "LF" THEN [w EXCEPT !.nread = 0, !.state = "s_chunk_size_start"]
               ELSE Fail(w, "STRICT"))

-----------------------------------------------------------------------------
(* http_parser_execute *)

UrlSchema == {"s_req_schema", "s_req_schema_slash", "s_req_schema_slash_slash",
              "s_req_server_start"}
UrlRest   == {"s_req_server", "s_req_server_with_at", "s_req_path"} \cup Query

Dispatch(w, ch) ==
    CASE w.state = "s_start_req"                -> StartReq(w, ch)
      [] w.state = "s_req_method"               -> ReqMethod(w, ch)
      [] w.state = "s_req_spaces_before_url"    -> SpacesBeforeUrl(w, ch)
      [] w.state \in UrlSchema                  -> UrlChars(w, w.state, ch)
      [] w.state \in UrlRest                    -> UrlOrEnd(w, ch)
      [] w.state = "s_req_http_start"           -> HttpStart(w, ch)
      [] w.state \in {"s_req_http_major", "s_req_http_minor"} -> Version(w, ch)
      [] w.state = "s_header_field_start"       -> HeaderFieldStart(w, ch)
      [] w.state = "s_header_field"             -> HeaderField(w, ch)
      [] w.state = "s_header_value_discard_ws"  -> HeaderValueDiscardWs(w, ch)
      [] w.state = "s_header_value_discard_lws" -> HeaderValueDiscardLws(w, ch)
      [] w.state = "s_header_value"             -> HeaderValue(w, ch)
      [] w.state = "s_header_value_lws"         -> HeaderValueLws(w, ch)
      [] w.state = "s_headers_almost_done"      -> HeadersAlmostDone(w, ch)
      [] w.state = "s_body_identity"            -> BodyIdentity(w)
      [] w.state = "s_chunk_size_start"         -> ChunkSizeStart(w, ch)
      [] w.state = "s_chunk_size"               -> ChunkSize(w, ch)
      [] w.state = "s_chunk_parameters"         -> ChunkParameters(w, ch)
      [] w.state = "s_chunk_size_almost_done"   -> ChunkSizeAlmostDone(w, ch)
      [] w.state = "s_chunk_data"               -> ChunkData(w)
      [] w.state = "s_chunk_data_almost_done"   -> ChunkDataAlmostDone(w, ch)
      [] w.state = "s_chunk_data_done"          -> ChunkDataDone(w, ch)
      [] w.state \in PlainStates                -> Plain(w, ch)
      [] OTHER                                  -> Fail(w, "assertion")

(* CROW_COUNT_HEADER_SIZE.  The first byte of a value in a read is looked  *)
(* at like any other one; those after it are only added (see Counted).     *)
ChunkHeads == {"s_chunk_size_start", "s_chunk_size", "s_chunk_parameters",
               "s_chunk_size_almost_done"}
BodyStates == {"s_chunk_data", "s_chunk_data_almost_done", "s_chunk_data_done",
               "s_body_identity"}
Count(w) ==
    LET v == [w EXCEPT !.nread = @ + 1]
    IN CASE w.state \in BodyStates -> w
         [] w.state = "s_header_value" ->
              IF w.mark["start"] # 0 THEN v ELSE Mark(Counted(v), "start")
         [] OTHER -> Counted(v)

(* One step is evaluated before the next *)
Then(w, Rest(_)) == CHOOSE r \in {Rest(v) : v \in {w}} : TRUE

NextByte(w, ch) ==
    IF w.stop THEN w
    ELSE Then(Count([w EXCEPT !.p = @ + 1]),
              LAMBDA v : IF v.stop THEN v ELSE Dispatch(v, ch))

(* Data that began in an earlier read goes on with this one *)
\* mutant: a value that goes on in a new read is not marked again
Continued_ValueForgotten(s) ==
    [f \in {"header_field", "header_value", "url", "url_start", "body", "start"} |->
        IF (f = "header_field" /\ s = "s_header_field")
             \/ (f = "url" /\ s \in UrlSchema \cup UrlRest) THEN 1 ELSE 0]
Continued(s) ==
    [f \in {"header_field", "header_value", "url", "url_start", "body", "start"} |->
        IF (f = "header_field" /\ s = "s_header_field")
             \/ (f = "header_value" /\ s = "s_header_value")
             \/ (f = "url" /\ s \in UrlSchema \cup UrlRest) THEN 1 ELSE 0]

(* The callbacks for the marks left over at the end of the read *)
AtMostOneMark(w) ==
    \A f, g \in {"header_field", "header_value", "url", "body"} :
        w.mark[f] # 0 /\ w.mark[g] # 0 => f = g
LeftOver(w) ==
    LET last == Len(w.read)
    IN Asserted(w, AtMostOneMark(w),
         Callback(Callback(Callback(Callback(w, "header_field", last, OnHeaderField),
             "header_value", last, OnHeaderValue), "url", last, OnUrl), "body", last, OnBody))

AtEnd(w) ==
    LET v == Counted(w)
    IN IF v.stop THEN v ELSE [LeftOver(v) EXCEPT !.parsed = Len(v.read)]

(* The parser after each byte of the read *)
Bytewise(begin, read) ==
    LET after[k \in 0 .. Len(read)] ==
          IF k = 0 THEN begin ELSE NextByte(after[k - 1], read[k])
    IN after

(* The parser after the read, and how much of it was parsed *)
Execute(ps, read) ==
    LET begin == [f \in DOMAIN ps \cup {"read", "p", "mark", "stop", "parsed"} |->
                    CASE f = "read"   -> read
                      [] f = "p"      -> 0
                      [] f = "mark"   -> Continued(ps.state)
                      [] f = "stop"   -> ps.http_errno # "OK"
                      [] f = "parsed" -> 0
                      [] OTHER        -> ps[f]]
    IN Then(Bytewise(begin, read)[Len(read)], LAMBDA w : IF w.stop THEN w ELSE AtEnd(w))

Kept(w) == [f \in DOMAIN Fresh |-> w[f]]

(* feed: the new parser, and whether all of the read was taken *)
Feed(ps, read) ==
    Then(Execute(ps, read), LAMBDA w :
         [parser |-> Kept(w), ok |-> w.http_errno = "OK" /\ w.parsed = Len(read)])

(* done: feed with nothing *)
Done(ps) ==
    IF ps.http_errno = "OK" /\ ps.state \notin {"s_dead", "s_start_req"}
    THEN [ps EXCEPT !.http_errno = "INVALID_EOF_STATE"] ELSE ps
=============================================================================
