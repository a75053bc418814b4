------------------------------ MODULE WebClient ------------------------------
(***************************************************************************)
(* One connection to the web client: bytes are read, HttpParser makes      *)
(* requests of them, Connection::handle of src/util/crow_all.h checks a    *)
(* request, Router finds its rule, and the POST handler of                 *)
(* src/webclient/webclient.cpp loads the body with Json and submits a job. *)
(* All of that happens within the read that brings the request's last      *)
(* byte; only the writing of the response ends later.                      *)
(*                                                                         *)
(* The znodes of a job are the business of Submission, the timers and the  *)
(* end of connections that of CrowServer.                                  *)
(***************************************************************************)
EXTENDS HttpParser, Json

CONSTANTS
    Clients      \* what clients may send: the bytes, the requests they mean by
                 \* them, whether the bytes are those of the requests, and how
                 \* many bytes a read may bring that does not bring all of them

ASSUME ClientsAssumption ==
    \A c \in Clients : c.bytes \in Seq(Byte) /\ c.sizes \subseteq Nat

VARIABLES
    parser,      \* of the connection
    rest,        \* bytes not read yet
    conn,        \* the connection and its response
    answers,     \* responses given to the socket
    jobs,        \* jobs submitted
    client,      \* history: who sends
    fed,         \* history: the bytes read
    misplaced    \* history: the place of a ? may have been counted from elsewhere

vars == <<parser, rest, conn, answers, jobs, client, fed, misplaced>>

(* The response: its code, whether it is completed, whether bodies are     *)
(* skipped and whether its length is left out; whether it is being         *)
(* written, whether the socket is to be closed after that, and whether the *)
(* socket is still read from.                                              *)
NoResponse == [code |-> 200, completed |-> FALSE, skip_body |-> FALSE,
               manual_length_header |-> FALSE,
               writing |-> FALSE, close |-> FALSE, open |-> TRUE]

Init ==
    /\ parser = Fresh /\ client \in Clients /\ rest = client.bytes /\ conn = NoResponse
    /\ answers = <<>> /\ jobs = <<>> /\ fed = <<>> /\ misplaced = FALSE

-----------------------------------------------------------------------------
(* The POST handler *)

Required == {"reducer_count", "shard_size", "files"}

(* The body of a request for a job; anything else is a 400, or a 500 when  *)
(* an operation of rvalue throws.  No znode is created before all of it    *)
(* has been taken.                                                         *)
Verdict(v) ==
    CASE v.t = "Error" -> 400
      [] v.t # "Error" /\ ~IsContainer(v) -> 500
      [] IsContainer(v) /\ \E f \in Required : ~Has(v, f) -> 400
      [] OTHER ->
           IF /\ IsInteger(Member(v, "reducer_count"))
              /\ IsInteger(Member(v, "shard_size"))
              /\ IsContainer(Member(v, "files"))
              /\ \A k \in DOMAIN Member(v, "files").l : Member(v, "files").l[k].t = "String"
           THEN 200 ELSE 500

(* The names joined with "$" *)
JoinedNames(names) ==
    FoldLeft(LAMBDA s, n : IF s = <<>> THEN n ELSE s \o <<"$">> \o n, <<>>, names)
Job(v) ==
    LET files == Member(v, "files").l
    IN [reducer_count |-> AsInt(Member(v, "reducer_count")),
        shard_size |-> AsInt(Member(v, "shard_size")),
        files |-> JoinedNames([k \in DOMAIN files |-> Unescape(files[k].text)])]

-----------------------------------------------------------------------------
(* Router and Connection.  w is [conn, answers, jobs, handled], where      *)
(* handled numbers the request.                                            *)

(* complete_request: the response goes to the socket.  It has a length if  *)
(* end() has set one or prepare_buffers adds one.                          *)
Write(w, routed, body, length) ==
    [w EXCEPT !.conn.writing = TRUE,
              !.answers = Append(@,
                [request |-> w.handled, code |-> w.conn.code, routed |-> routed, body |-> body,
                 length |-> length \/ ~w.conn.manual_length_header])]

(* The one rule is POST "/" *)
Found(method, url) == method = "POST" /\ url = <<"/">>

(* res.end(), with a body unless bodies are skipped; then it sets the      *)
(* length itself                                                           *)
Respond(w, code, body) ==
    Write([w EXCEPT !.conn.code = code, !.conn.completed = TRUE,
                    !.conn.manual_length_header = @ \/ w.conn.skip_body],
          TRUE, body /\ ~w.conn.skip_body, w.conn.skip_body)

RunRule(w, req) ==
    LET v == Load(req.body)
    IN Respond(IF Verdict(v) = 200 THEN [w EXCEPT !.jobs = Append(@, Job(v))] ELSE w,
               Verdict(v), Verdict(v) = 200)

(* Router::handle: HEAD is looked up as GET and OPTIONS asks what there is *)
Route(w, req) ==
    LET head    == req.method = "HEAD"
        v       == [w EXCEPT !.conn.skip_body = @ \/ head]
        known   == req.url = <<"/">>
        allow   == [v EXCEPT !.conn.manual_length_header = TRUE]
        asked   == known \/ req.url = <<"/", "*">>
    IN CASE req.method = "OPTIONS" /\ asked -> Respond(allow, 204, FALSE)
         [] req.method = "OPTIONS" /\ ~asked -> Respond(v, 404, FALSE)
         [] req.method # "OPTIONS" /\ Found(req.method, req.url) -> RunRule(v, req)
         [] OTHER -> Respond(v, IF known THEN 405 ELSE 404, FALSE)

(* handle_upgrade: the response is completed, and nothing writes it *)
Upgrade(w, req) ==
    [w EXCEPT !.conn.completed = TRUE, !.conn.close = TRUE,
              !.conn.manual_length_header = @ \/ w.conn.skip_body,
              !.conn.code = IF req.url = <<"/">> /\ req.method # "POST" THEN 405 ELSE 404]

HasHeader(req, name) == \E k \in DOMAIN req.headers : req.headers[k][1] = name

(* An upgrade, unless it is to h2c; of two such headers the map finds the  *)
(* last                                                                    *)
Upgrades(req) == SelectSeq(req.headers, LAMBDA h : h[1] = <<"up", "grade">>)
ToH2c(req) == Upgrades(req) # <<>> /\ Last(Upgrades(req))[2] = <<"h2c">>

(* Connection::handle.  A response that is still completed is sent again,  *)
(* with the length its end() has set, if it has set one.                   *)
Handle(w, req) ==
    LET new     == [w EXCEPT !.conn.close = req.close_connection, !.handled = @ + 1]
        one     == req.version = <<1, 1>>
        upgrade == one /\ req.upgrade /\ ~ToH2c(req)
        invalid == one /\ ~HasHeader(req, <<"host">>)
    IN CASE upgrade -> Upgrade(new, req)
         [] invalid /\ ~upgrade ->
              Write([new EXCEPT !.conn.code = 400, !.conn.completed = FALSE], FALSE, FALSE, FALSE)
         [] OTHER -> IF w.conn.completed THEN Write(new, FALSE, FALSE, w.conn.skip_body)
                     ELSE Route(new, req)

-----------------------------------------------------------------------------
(* Actions *)

(* URLs that begin between two states of the parser: a ? is counted from   *)
(* the first one of the read, or from nowhere if none begins there         *)
PastUrlStart(ps) ==
    IF ps.state \in {"s_start_req", "s_req_method", "s_req_spaces_before_url"} THEN 0 ELSE 1
Urls(ps, qs) == Len(qs.handled) - Len(ps.handled) + PastUrlStart(qs) - PastUrlStart(ps)
Misplaces(ps, qs) == qs.state \in UrlSchema \cup UrlRest \/ Urls(ps, qs) > 1

(* do_read: a read of n bytes.  After an error, or a request to close, it  *)
(* reads no more.                                                          *)
Read(n) ==
    /\ conn.open /\ n <= Len(rest)
    /\ \E r \in {Feed(parser, SubSeq(rest, 1, n))} :
       \E w \in {FoldLeft(Handle, [conn |-> conn, answers |-> answers, jobs |-> jobs,
                                   handled |-> Len(parser.handled)],
                          SubSeq(r.parser.handled, Len(parser.handled) + 1,
                                 Len(r.parser.handled)))} :
         /\ conn' = [w.conn EXCEPT !.open = r.ok /\ ~w.conn.close]
         /\ parser' = IF conn'.open THEN r.parser ELSE Done(r.parser)
         /\ answers' = w.answers /\ jobs' = w.jobs
         /\ misplaced' = (misplaced \/ Misplaces(parser, r.parser))
    /\ fed' = fed \o SubSeq(rest, 1, n)
    /\ rest' = SubSeq(rest, n + 1, Len(rest))
    /\ UNCHANGED client

(* do_write has ended *)
WriteDone ==
    /\ conn.writing
    /\ conn' = [conn EXCEPT !.writing = FALSE, !.completed = FALSE, !.code = 200]
    /\ UNCHANGED <<parser, rest, answers, jobs, client, fed, misplaced>>

(* The client has closed its side: done() *)
End ==
    /\ conn.open /\ rest = <<>>
    /\ parser' = Done(parser)
    /\ conn' = [conn EXCEPT !.open = FALSE]
    /\ UNCHANGED <<rest, answers, jobs, client, fed, misplaced>>

Next ==
    \/ \E n \in {k \in client.sizes \cup {Len(rest)} : k > 0} : Read(n)
    \/ WriteDone
    \/ End

Spec == Init /\ [][Next]_vars
-----------------------------------------------------------------------------
(* Properties *)

(* No assertion of http_parser_execute fails, whatever is sent             *)
(* (crow_all.h:8357, 8529, 8868, 8913-9032, 9048): chunks come only when   *)
(* they were announced, a body has a length left, a chunk's size begins a  *)
(* new count, one piece of data is open at a time, and no byte meets a     *)
(* state or a header state its handler does not know.                      *)
NoAssertionFails == parser.http_errno # "assertion"

(* How the bytes are cut into reads does not matter: the parser is as if   *)
(* all of them had come in one (crow_all.h:7874-7892, the marks).  Two     *)
(* exceptions: after an upgrade the rest of a read is refused but a new    *)
(* read is taken, and the place of the ? in a URL is only right in the     *)
(* first URL that begins in its read, if it is not cut.  After an error    *)
(* there is no more than the error and the requests before it.             *)
WithoutUrls(ps) ==
    [ps EXCEPT !.qs_point = 0,
               !.handled = [k \in DOMAIN ps.handled |->
                              [ps.handled[k] EXCEPT !.url = ps.handled[k].raw_url]]]
CutsDoNotMatter ==
    (parser.http_errno # "INVALID_EOF_STATE"
       /\ \A k \in DOMAIN parser.handled : ~parser.handled[k].upgrade)
    => \E whole \in {Feed(Fresh, fed).parser} :
         LET url(ps)  == IF misplaced \/ Misplaces(Fresh, whole) THEN WithoutUrls(ps) ELSE ps
             seen(ps) == IF ps.http_errno = "OK" THEN ps ELSE <<ps.http_errno, ps.handled>>
         IN seen(url(whole)) = seen(url(parser))

(* A body has one length (crow_all.h:8557, 8728, 8877): while its bytes    *)
(* come, those that have come and those still to come add up to what its   *)
(* Content-Length header says, whatever the number; and a body that comes  *)
(* in chunks has no such header, though its trailer may.                   *)
Decimals(text) == FoldLeft(LAMBDA n, c : 10 * n + Digit(c), 0,
                           SelectSeq(text, LAMBDA c : c # "SP"))
LengthOf(headers) ==
    {Decimals(headers[k][2]) : k \in {j \in DOMAIN headers :
                                      /\ headers[j][1] = <<"con", "tent-", "length">>
                                      /\ headers[j][2] # <<>>}}
LengthExact ==
    parser.http_errno = "OK" =>
    /\ parser.state = "s_body_identity" =>
         LengthOf(parser.headers) = {Len(parser.body) + parser.content_length}
    /\ (parser.state \in BodyStates \cup ChunkHeads
          /\ HasHeader(parser, <<"transfer-", "encoding">>)) => LengthOf(parser.headers) = {}

(* The requests handled are those the client means, in their order, with   *)
(* the same method, body and headers; a header without a value may be      *)
(* lost, and so may a trailer.  The url is the endpoint, unless the place  *)
(* of its ? was counted from elsewhere.                                    *)
WithValue(headers) == SelectSeq(headers, LAMBDA h : h[2] # <<>>)
RequestsAsMeant ==
    client.exact =>
    /\ parser.http_errno \in {"OK", "INVALID_EOF_STATE"}
    /\ Len(parser.handled) <= Len(client.means)
    /\ (conn.open /\ rest = <<>>) => Len(parser.handled) = Len(client.means)
    /\ \A k \in DOMAIN parser.handled :
         LET req == parser.handled[k]
             msg == client.means[k]
         IN /\ req.method = msg.method /\ req.body = msg.body
            /\ req.raw_url = msg.path \o msg.query
            /\ req.url = msg.path \/ (misplaced /\ req.url = req.raw_url)
            /\ IsPrefix(msg.headers, WithValue(req.headers))
            /\ IsPrefix(WithValue(req.headers), msg.headers \o msg.trailers)

(* What the client gets for a request is what its message asks for: the    *)
(* code the handler's rules give, a job with the numbers and the names of  *)
(* its body exactly when that is 200, and then the job's number, unless    *)
(* HEAD was asked for on the connection before (webclient.cpp:18-56;       *)
(* crow_all.h:11726: skip_body is never reset).  It says how long its body *)
(* is, unless OPTIONS has been answered on the connection (11744, 11762:   *)
(* manual_length_header is never reset).                                   *)
ServedAsMeant ==
    client.exact =>
    LET routed  == SelectSeq(answers, LAMBDA a : a.routed)
        expects == [k \in DOMAIN routed |-> client.means[routed[k].request]]
    IN /\ \A k \in DOMAIN routed :
            routed[k].code = expects[k].code \/ (misplaced /\ routed[k].code = 404)
       /\ jobs = FoldLeft(LAMBDA s, k : IF routed[k].code = 200
                                       THEN Append(s, expects[k].job) ELSE s,
                          <<>>, [k \in DOMAIN routed |-> k])
       /\ \A k \in DOMAIN routed : routed[k].code = 200 =>
            \/ routed[k].body
            \/ \E j \in 1 .. routed[k].request - 1 : parser.handled[j].method = "HEAD"
       /\ \A k \in DOMAIN routed :
            routed[k].length \/ \E j \in 1 .. k : routed[j].code = 204
=============================================================================
