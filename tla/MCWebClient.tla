----------------------------- MODULE MCWebClient -----------------------------
(***************************************************************************)
(* WebClient on a small instance: messages that differ from a plain POST   *)
(* in one respect each, alone and in twos, and messages with one byte      *)
(* lost, repeated or changed.                                              *)
(***************************************************************************)
EXTENDS WebClient

Spelled(s) == [i \in 1 .. Len(s) |-> SubSeq(s, i, i)]
Nl == <<"CR", "LF">>

ContentLengthName == <<"con", "tent-", "length">>
TransferEncoding  == <<"transfer-", "encoding">>
Host == <<<<"host">>, <<"x">>>>
Number(n) == IF n < 10 THEN <<HexDigits[n + 1]>>
             ELSE <<HexDigits[n \div 10 + 1], HexDigits[(n % 10) + 1]>>

Concat(seqs) == FoldLeft(LAMBDA s, t : s \o t, <<>>, seqs)
Line(h) == h[1] \o <<":", "SP">> \o h[2] \o Nl

-----------------------------------------------------------------------------
(* Bodies: bytes, the code they deserve, the job they ask for *)

NoJob == [reducer_count |-> 0, shard_size |-> 0, files |-> <<>>]
Quoted(s) == <<"quote">> \o s \o <<"quote">>
Fields3(r, s, f) == <<"{">> \o Quoted(<<"reducer_count">>) \o <<":">> \o r \o <<"comma">>
    \o Quoted(<<"shard_size">>) \o <<":">> \o s \o <<"comma">>
    \o Quoted(<<"files">>) \o <<":">> \o f \o <<"}">>
Asks(r, s, f) == [reducer_count |-> r, shard_size |-> s, files |-> f]
OneFile == <<"[">> \o Quoted(<<"x">>) \o <<"]">>

Good == [bytes |-> Fields3(<<"2">>, <<"3">>, OneFile), code |-> 200, job |-> Asks(2, 3, <<"x">>)]
Bad(bytes, code) == [bytes |-> bytes, code |-> code, job |-> NoJob]
Bodies == {
    Good,
    \* two files, blanks, an escape; the names are joined
    [bytes |-> <<"SP">> \o Fields3(<<"1">>, <<"-", "1">>,
        <<"[", "SP">> \o Quoted(<<"backslash", "quote">>) \o <<"SP", "comma">> \o Quoted(<<"a">>)
        \o <<"]">>) \o <<"LF">>,
     code |-> 200, job |-> Asks(1, -1, <<"quote", "$", "a">>)],
    \* a code of two bytes; an object for a list; a string for a number
    [bytes |-> Fields3(Quoted(<<"2">>), <<"0">>,
        <<"{">> \o Quoted(<<"a">>) \o <<":">>
        \o Quoted(<<"backslash", "u", "0", "0", "e", "9">>) \o <<"}">>),
     code |-> 200, job |-> Asks(2, 0, <<"195", "169">>)],
    \* an int of 4 bits holds -7 for 9; no file
    [bytes |-> Fields3(<<"9">>, <<"1", "8">>, <<"[", "]">>), code |-> 200,
     job |-> Asks(-7, 2, <<>>)],
    \* of two reducer counts the first one counts
    [bytes |-> <<"{">> \o Quoted(<<"reducer_count">>) \o <<":", "1", "comma">>
        \o Tail(Fields3(<<"5">>, <<"1">>, OneFile)),
     code |-> 200, job |-> Asks(1, 1, <<"x">>)],
    \* what follows a NUL is not looked at
    [bytes |-> Fields3(<<"2">>, <<"3">>, OneFile) \o <<"NUL", "x">>, code |-> 200,
     job |-> Asks(2, 3, <<"x">>)],
    Bad(<<>>, 400),
    Bad(<<"{", "}">>, 400),
    Bad(<<"[", "]">>, 400),
    Bad(<<"[", "1", "]", "x">>, 400),
    Bad(<<"[", "1", "comma", "]">>, 400),
    Bad(<<"0", "1">>, 400),
    Bad(<<"true">>, 500),
    Bad(<<"null", "SP">>, 500),
    Bad(<<"-", "1", "e", "+">>, 500),
    Bad(<<"quote", "x">>, 400),
    Bad(<<"quote", "backslash", "u", "0", "quote">>, 400),
    Bad(<<"[", "[", "[", "]", "]", "]">>, 400),
    Bad(<<"{">> \o Quoted(<<"reducer_count">>) \o <<":", "1", "comma">>
        \o Quoted(<<"files">>) \o <<":", "2", "}">>, 400),
    Bad(Fields3(<<"1", ".", "5">>, <<"3">>, OneFile), 500),
    Bad(Fields3(<<"9", "9">>, <<"3">>, OneFile), 500),
    Bad(Fields3(<<"1">>, <<"3">>, Quoted(<<"x">>)), 500),
    Bad(Fields3(<<"1">>, <<"3">>, <<"[", "1", "]">>), 500)}

-----------------------------------------------------------------------------
(* Messages *)

Sized(body) == <<ContentLengthName, Number(Len(body))>>
Framed(m) == IF m.framing = "length" THEN Append(m.headers, Sized(m.body.bytes)) ELSE m.headers
Chunk(size, b) == size \o Nl \o b \o Nl
Chunks(b) ==
    LET n == Len(b) - 7
    IN IF n <= 0 THEN Chunk(Number(Len(b)) \o <<";", "x">>, b)
       ELSE Chunk(<<"7">>, SubSeq(b, 1, 7))
              \o Chunk(<<HexDigits[n \div 16 + 1], HexDigits[(n % 16) + 1]>>,
                      SubSeq(b, 8, Len(b)))
LastChunk(trailers) == <<"0">> \o Nl \o Concat([k \in DOMAIN trailers |-> Line(trailers[k])])
                         \o Nl

Bytes(m) ==
    Spelled(m.method) \o <<"SP">> \o m.path \o m.query \o <<"SP", "H", "T", "T", "P", "/", "1", ".", "1">>
    \o Nl \o Concat([k \in DOMAIN Framed(m) |-> Line(Framed(m)[k])]) \o Nl
    \o (IF m.framing = "chunked" THEN Chunks(m.body.bytes) \o LastChunk(m.trailers)
        ELSE m.body.bytes)

Code(m) == CASE m.method = "OPTIONS" -> IF m.path \in {<<"/">>, <<"/", "*">>} THEN 204 ELSE 404
             [] m.method # "OPTIONS" /\ m.path # <<"/">> -> 404
             [] m.method # "OPTIONS" /\ m.path = <<"/">> /\ m.method # "POST" -> 405
             [] OTHER -> m.body.code
Means(m) == [method |-> m.method, path |-> m.path, query |-> m.query,
             headers |-> WithValue(Framed(m)), trailers |-> m.trailers,
             body |-> m.body.bytes, code |-> Code(m), job |-> m.body.job]

Nothing == [bytes |-> <<>>, code |-> 0, job |-> NoJob]
X(value) == <<<<"x">>, value>>
Chunked == <<TransferEncoding, <<"chun", "ked">>>>
Plain0 == [method |-> "POST", path |-> <<"/">>, query |-> <<>>, headers |-> <<Host>>,
           body |-> Good, framing |-> "length", trailers |-> <<>>]
InChunks == [Plain0 EXCEPT !.framing = "chunked", !.headers = <<Host, Chunked>>]
Empty(method) == [Plain0 EXCEPT !.method = method, !.body = Nothing, !.framing = "none"]

ByBody    == {[Plain0 EXCEPT !.body = b] : b \in Bodies}
ByMethod  == {Empty(m) : m \in Methods \ {"POST", "CONNECT"}}
ByUrl     == {[Plain0 EXCEPT !.path = u[1], !.query = u[2]] : u \in {
    <<<<"/">>, <<"?", "a", "?">>>>, <<<<"/", "a">>, <<>>>>, <<<<"/", "%">>, <<"?">>>>,
    <<<<"x", ":", "/", "/", "a", "@", "a", "/">>, <<>>>>,
    <<<<"x", ":", "/", "/", "[", "1">>, <<"?", "/">>>>, <<<<"*">>, <<>>>>}}
ByHeaders == {[Plain0 EXCEPT !.headers = <<Host>> \o h] : h \in {
    <<X(<<>>)>>, <<X(<<>>), X(<<"a">>)>>, <<X(<<"a", "SP", "comma", "b">>)>>,
    <<<<<<"up", "x">>, <<"a">>>>>>, <<<<<<"proxy-", "con", "nection">>, <<"keep-", "alive">>>>>>,
    <<<<<<"con", "nection">>, <<"keep-", "alive", "SP">>>>>>,
    <<<<<<"con", "nection">>, <<"clo", "x">>>>>>}}
ByChunks  == {InChunks,
    [InChunks EXCEPT !.trailers = <<X(<<"a">>), <<ContentLengthName, <<"1">>>>, X(<<>>),
                                   X(<<"b">>)>>],
    [InChunks EXCEPT !.headers = <<Host, X(<<>>), <<TransferEncoding,
                                   <<"x", "comma", "SP", "chun", "ked", "SP">>>>>>],
    [InChunks EXCEPT !.headers = <<Host, Chunked, <<ContentLengthName, <<>>>>, X(<<"1">>)>>],
    [InChunks EXCEPT !.body = Bad(<<"[", "]">>, 400)]}
(* An upgrade that is not one: the body is not read *)
ToH2 == [Empty("POST") EXCEPT !.headers = <<Host, <<<<"up", "grade">>, <<"h2c">>>>>>]
ByUpgrade == {[ToH2 EXCEPT !.body = Bad(<<>>, 400)], [ToH2 EXCEPT !.method = "OPTIONS"],
              [ToH2 EXCEPT !.method = "GET", !.path = <<"/", "a">>]}
Messages == ByBody \cup ByMethod \cup ByUrl \cup ByHeaders \cup ByChunks \cup ByUpgrade

(* These come in twos *)
Twice == {Plain0, Empty("HEAD"), Empty("OPTIONS"), InChunks,
          [Plain0 EXCEPT !.headers = <<Host, <<<<"con", "nection">>, <<"clo", "se">>>>>>],
          [Plain0 EXCEPT !.path = <<"/">>, !.query = <<"?", "a">>, !.body = Bad(<<"1">>, 500)]}

Sends(ms, sizes) == [bytes |-> Concat([k \in DOMAIN ms |-> Bytes(ms[k])]),
              means |-> [k \in DOMAIN ms |-> Means(ms[k])], exact |-> TRUE,
                     sizes |-> sizes]
Exact == {Sends(<<m>>, {1, 3}) : m \in Messages}
           \cup {Sends(<<m, n>>, {5}) : m \in Twice, n \in Twice}

-----------------------------------------------------------------------------
(* Bytes that are not those of a message *)

(* Short messages to be spoilt *)
Short == {
    [Plain0 EXCEPT !.method = "PUT", !.query = <<"?", "a">>, !.body = Bad(<<"1", "2">>, 0)],
    [InChunks EXCEPT !.body = Bad(<<"1", "2">>, 0), !.trailers = <<X(<<"a">>)>>],
    [Plain0 EXCEPT !.headers = <<Host, Chunked>>, !.body = Bad(<<"1">>, 0)],
    [Plain0 EXCEPT !.headers = <<<<<<"up", "grade">>, <<"a">>>>, Host>>,
                   !.body = Bad(<<"1">>, 0)],
    [Plain0 EXCEPT !.headers = <<<<ContentLengthName, <<"1", "2", "9">>>>, Host>>,
                   !.framing = "none", !.body = Bad(<<"1">>, 0)],
    [Plain0 EXCEPT !.headers = <<<<ContentLengthName, <<"1", "3">>>>, Host>>,
                   !.framing = "none", !.body = Bad(<<"1">>, 0)],
    [Plain0 EXCEPT !.headers = <<X([i \in 1 .. 60 |-> "a"]), Host>>, !.body = Bad(<<"1">>, 0)]}
Noise == {"0", "LF", "SP", "comma", "NUL", "G"}
Spoilt(b) ==
    {SubSeq(b, 1, i - 1) \o SubSeq(b, i + 1, Len(b)) : i \in DOMAIN b}
    \cup {SubSeq(b, 1, i) \o SubSeq(b, i, Len(b)) : i \in DOMAIN b}
    \cup {[b EXCEPT ![i] = c] : i \in DOMAIN b, c \in Noise}
(* A list of codings that the parser does not take for one that is chunked, *)
(* though its name is the last of it                                        *)
Listed == {[InChunks EXCEPT !.headers = <<Host, <<TransferEncoding,
              <<"x", "comma", c, "chun", "ked">>>>>>] : c \in {"TAB", "@", "quote"}}
Inexact == {[bytes |-> b, means |-> <<>>, exact |-> FALSE, sizes |-> {7}] :
              b \in UNION {Spoilt(Bytes(m)) : m \in Short}
                       \cup {Bytes(m) : m \in Short \cup Listed}}

SomeClients == Exact \cup Inexact
=============================================================================
