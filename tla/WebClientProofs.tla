--------------------------- MODULE WebClientProofs ---------------------------
(***************************************************************************)
(* Proofs about WebClient: no assertion of the HTTP parser fails, whatever *)
(* bytes the clients send and however they are cut into reads.             *)
(***************************************************************************)
EXTENDS WebClient, Induction

USE WidthAssumption

Core   == {"state", "header_state", "flags", "content_length", "nread", "http_errno",
           "stop", "mark"}
Pieces == {"header_field", "header_value", "url", "body"}
Whole(w) == Core \subseteq DOMAIN w /\ Pieces \subseteq DOMAIN w.mark

(* The header states between two bytes *)
HeaderStates ==
    {"h_general", "h_CON", "h_connection", "h_matching_content_length", "h_content_length",
     "h_matching_proxy_connection", "h_matching_transfer_encoding", "h_transfer_encoding",
     "h_matching_upgrade", "h_upgrade", "h_content_length_num", "h_content_length_ws",
     "h_matching_transfer_encoding_chunked", "h_matching_connection_keep_alive",
     "h_matching_connection_close", "h_matching_transfer_encoding_token_start", Coding,
     "h_transfer_encoding_chunked", "h_connection_keep_alive", "h_connection_close"}

(* A value has begun: the parser no longer waits for its first byte *)
Asking     == {"h_connection", "h_transfer_encoding"}
InValue    == {"s_header_value", "s_header_almost_done", "s_header_value_lws"}
HeaderFine(w) ==
    /\ w.header_state \in HeaderStates
    /\ w.state = "s_header_field" => w.header_state \in FieldStates
    /\ w.state \in InValue => w.header_state \notin Asking

(* Bytes of a body are still to come, and their number is known *)
Sizing == {"s_chunk_size", "s_chunk_parameters", "s_chunk_size_almost_done"}
LengthFine(w) ==
    /\ w.content_length \in 0 .. UllongMax
    /\ w.state \in {"s_body_identity", "s_chunk_data"} =>
         w.content_length # 0 /\ w.content_length # UllongMax
    /\ w.state \in Sizing => w.content_length # UllongMax
    /\ w.state = "s_chunk_data_almost_done" => w.content_length = 0

(* k: how many bytes of the chunk's size have been counted *)
InChunk == Sizing \cup {"s_chunk_size_start", "s_chunk_data", "s_chunk_data_almost_done",
                        "s_chunk_data_done"}
ChunkFine(w, k) ==
    /\ w.nread \in Nat
    /\ w.state \in InChunk => "CHUNKED" \in w.flags
    /\ w.state = "s_chunk_size_start" => w.nread = k

(* Only the piece of data that the state is about is open *)
InUrl == UrlSchema \cup UrlRest
InBody == {"s_body_identity", "s_chunk_data", "s_chunk_data_almost_done"}
MarksFine(w) ==
    /\ w.mark["header_field"] # 0 => w.state = "s_header_field"
    /\ w.mark["header_value"] # 0 => w.state = "s_header_value"
    /\ w.mark["url"] # 0 => w.state \in InUrl
    /\ w.mark["body"] # 0 => w.state \in InBody

(* Every state has a case in the switch.  The states in Free ask nothing of *)
(* the other fields.                                                        *)
Free == {"s_dead", "s_start_req", "s_req_method", "s_req_spaces_before_url",
         "s_req_http_start", "s_req_http_H", "s_req_http_HT", "s_req_http_HTT",
         "s_req_http_HTTP", "s_req_http_I", "s_req_http_IC", "s_req_http_major",
         "s_req_http_dot", "s_req_http_minor", "s_req_http_end", "s_req_line_almost_done",
         "s_header_field_start", "s_header_value_discard_ws",
         "s_header_value_discard_ws_almost_done", "s_header_value_discard_lws",
         "s_headers_almost_done"}
Bound  == InValue \cup InChunk \cup {"s_header_field", "s_body_identity"}
States == Free \cup Bound \cup InUrl
StateFine(w) == w.state \in States

Sound(w, k) == StateFine(w) /\ HeaderFine(w) /\ LengthFine(w) /\ ChunkFine(w, k) /\ MarksFine(w)

(* After a byte, and before a byte that has been counted *)
Good(w) ==
    /\ Whole(w) /\ w.http_errno # "assertion"
    /\ ~ w.stop => w.http_errno = "OK"
    /\ w.http_errno = "OK" => Sound(w, 0)
Ready(w, s) ==
    /\ Whole(w) /\ w.http_errno = "OK" /\ w.state = s /\ ~ w.stop /\ Sound(w, 1)

(* What holds in every state of a parser that goes on, when nothing is open *)
Loose(w) ==
    /\ Whole(w) /\ w.http_errno = "OK" /\ ~ w.stop
    /\ w.header_state \in HeaderStates
    /\ w.content_length \in 0 .. UllongMax
    /\ w.nread \in Nat
    /\ \A f \in Pieces : w.mark[f] = 0
Only(w, f) ==      \* ... except that f may be open
    /\ Whole(w) /\ w.http_errno = "OK" /\ ~ w.stop
    /\ w.header_state \in HeaderStates
    /\ w.content_length \in 0 .. UllongMax
    /\ w.nread \in Nat
    /\ \A g \in Pieces : g # f => w.mark[g] = 0

(* v is w but for the marks and what only the callbacks use *)
Same(v, w) ==
    /\ Whole(v) /\ v.state = w.state /\ v.header_state = w.header_state /\ v.flags = w.flags
    /\ v.content_length = w.content_length /\ v.nread = w.nread
    /\ v.http_errno = w.http_errno /\ v.stop = w.stop

-----------------------------------------------------------------------------
(* What the helpers make of the fields the invariant is about *)

(* SET_ERRNO and a return: the error is not an assertion. *)
LEMMA FailGood ==
  ASSUME NEW w, Whole(w), NEW e, e # "assertion", e # "OK"
  PROVE  Good(Fail(w, e))
BY DEF Good, Whole, Core, Fail

(* A change of state leaves everything else alone. *)
LEMMA GoIs ==
  ASSUME NEW w, Whole(w), NEW s
  PROVE  /\ Whole(Go(w, s)) /\ Go(w, s).state = s
         /\ Go(w, s).header_state = w.header_state /\ Go(w, s).flags = w.flags
         /\ Go(w, s).content_length = w.content_length /\ Go(w, s).nread = w.nread
         /\ Go(w, s).http_errno = w.http_errno /\ Go(w, s).stop = w.stop
         /\ Go(w, s).mark = w.mark
BY DEF Go, Whole, Core

(* MARK: only the mark f changes. *)
LEMMA MarkIs ==
  ASSUME NEW w, Whole(w), NEW f
  PROVE  /\ Same(Mark(w, f), w)
         /\ \A g \in Pieces : g # f => Mark(w, f).mark[g] = w.mark[g]
BY DEF Mark, Same, Whole, Core, Pieces

(* v is w but for what only the callbacks use: what holds of w holds of v. *)
Alike(v, w) == Same(v, w) /\ \A g \in Pieces : v.mark[g] = w.mark[g]

LEMMA AlikeGood ==
  ASSUME NEW w, NEW v, Alike(v, w)
  PROVE  /\ Good(w) => Good(v)
         /\ \A s : Ready(w, s) => Ready(v, s)
BY DEF Alike, Same, Good, Ready, Pieces, Sound, StateFine, HeaderFine, LengthFine, ChunkFine,
   MarksFine

(* COUNT_HEADER_SIZE of a value: too much is an error, and no assertion. *)
LEMMA CountedIs ==
  ASSUME NEW w, Whole(w)
  PROVE  Counted(w) = Fail(w, "HEADER_OVERFLOW") \/ Alike(Counted(w), w)
BY DEF Counted, Alike, Same, Whole, Core, Pieces

(* ... and then nothing more is read. *)
LEMMA CountedGood ==
  ASSUME NEW w, Good(w)
  PROVE  Good(Counted(w))
<1>1. Whole(w) BY DEF Good
<1>2. Good(Fail(w, "HEADER_OVERFLOW")) BY <1>1, FailGood
<1> QED BY <1>1, <1>2, CountedIs, AlikeGood

(* The callbacks of crow touch nothing the parser decides by. *)
LEMMA OnIs ==
  ASSUME NEW w, Whole(w), NEW at
  PROVE  /\ Same(OnUrl(w, at), w) /\ OnUrl(w, at).mark = w.mark
         /\ Same(OnBody(w, at), w) /\ OnBody(w, at).mark = w.mark
         /\ Same(OnHeaderField(w, at), w) /\ OnHeaderField(w, at).mark = w.mark
         /\ Same(OnHeaderValue(w, at), w) /\ OnHeaderValue(w, at).mark = w.mark
<1>1. Same(OnUrl(w, at), w) /\ OnUrl(w, at).mark = w.mark
  BY DEF OnUrl, Same, Whole, Core
<1>2. Same(OnBody(w, at), w) /\ OnBody(w, at).mark = w.mark
  BY DEF OnBody, Same, Whole, Core
<1>3. Same(OnHeaderField(w, at), w) /\ OnHeaderField(w, at).mark = w.mark
  BY DEF OnHeaderField, Emplace, Same, Whole, Core
<1>4. Same(OnHeaderValue(w, at), w) /\ OnHeaderValue(w, at).mark = w.mark
  BY DEF OnHeaderValue, Same, Whole, Core
<1> QED BY <1>1, <1>2, <1>3, <1>4

(* The mark f has been taken away, and no other one *)
Closed(v, w, f) ==
    Same(v, w) /\ v.mark[f] = 0 /\ \A g \in Pieces : g # f => v.mark[g] = w.mark[g]

(* CALLBACK_DATA: whatever the callback does, its mark is gone. *)
LEMMA CallbackIs ==
  ASSUME NEW w, Whole(w), NEW last
  PROVE  /\ Closed(Callback(w, "url", last, OnUrl), w, "url")
         /\ Closed(Callback(w, "body", last, OnBody), w, "body")
         /\ Closed(Callback(w, "header_field", last, OnHeaderField), w, "header_field")
         /\ Closed(Callback(w, "header_value", last, OnHeaderValue), w, "header_value")
<1>1. ASSUME NEW v, NEW f \in Pieces, Same(v, w), v.mark = w.mark
      PROVE  Closed([v EXCEPT !.mark[f] = 0], w, f)
  BY <1>1 DEF Closed, Same, Whole, Core, Pieces
<1>2. ASSUME NEW f \in Pieces, w.mark[f] = 0 PROVE Closed(w, w, f)
  BY <1>2 DEF Closed, Same
<1>3. {"url", "body", "header_field", "header_value"} = Pieces BY DEF Pieces
<1>4. Closed(Callback(w, "url", last, OnUrl), w, "url") BY <1>1, <1>2, <1>3, OnIs DEF Callback
<1>5. Closed(Callback(w, "body", last, OnBody), w, "body")
  BY <1>1, <1>2, <1>3, OnIs DEF Callback
<1>6. Closed(Callback(w, "header_field", last, OnHeaderField), w, "header_field")
  BY <1>1, <1>2, <1>3, OnIs DEF Callback
<1>7. Closed(Callback(w, "header_value", last, OnHeaderValue), w, "header_value")
  BY <1>1, <1>2, <1>3, OnIs DEF Callback
<1> QED BY <1>4, <1>5, <1>6, <1>7

(* unhex: what a digit stands for *)
LEMMA DigitIs ==
  ASSUME NEW ch
  PROVE  /\ ch \in Digits => Digit(ch) \in 0 .. 9 /\ Digit(ch) \in 0 .. 15
         /\ ch \in Hex => Digit(ch) \in 0 .. 15
BY DEF Digits, Hex, Digit, HexDigits

(* One more digit of a length: the overflow check leaves room for it. *)
LEMMA GrowIs ==
  ASSUME NEW w, Whole(w), w.content_length \in 0 .. UllongMax,
         NEW base \in {10, 16}, NEW d \in 0 .. base - 1
  PROVE  \/ Grow(w, base, d) = Fail(w, "INVALID_CONTENT_LENGTH")
         \/ \E n \in 0 .. UllongMax - 1 : Grow(w, base, d) = [w EXCEPT !.content_length = n]
<1>1. CASE base = 10
  <2>1. ~ ((UllongMax - 10) \div 10 < w.content_length)
          => w.content_length * 10 + d \in 0 .. UllongMax - 1
    BY <1>1
  <2> QED BY <2>1, <1>1 DEF Grow
<1>2. CASE base = 16
  <2>1. ~ ((UllongMax - 16) \div 16 < w.content_length)
          => w.content_length * 16 + d \in 0 .. UllongMax - 1
    BY <1>2
  <2> QED BY <2>1, <1>2 DEF Grow
<1> QED BY <1>1, <1>2

(* The classes of bytes that a CASE tells apart *)
LEMMA Apart ==
  /\ Hex = {"0", "1", "2", "3", "4", "5", "6", "7", "8", "9", "a", "b", "c", "d", "e", "f"}
  /\ Digits = {"0", "1", "2", "3", "4", "5", "6", "7", "8", "9"}
<1>1. ASSUME NEW ch PROVE ch \in Hex <=> \E k \in 1 .. 16 : ch = HexDigits[k] BY DEF Hex
<1>2. ASSUME NEW ch PROVE ch \in Digits <=> \E k \in 1 .. 10 : ch = HexDigits[k] BY DEF Digits
<1>3. ASSUME NEW k \in 1 .. 16 PROVE k \in {1,2,3,4,5,6,7,8,9,10,11,12,13,14,15,16} OBVIOUS
<1>4. ASSUME NEW k \in 1 .. 10 PROVE k \in {1,2,3,4,5,6,7,8,9,10} OBVIOUS
<1>5. \A ch : ch \in Hex <=> ch \in {"0", "1", "2", "3", "4", "5", "6", "7", "8", "9",
                                  "a", "b", "c", "d", "e", "f"}
  BY <1>1, <1>3, SMT DEF HexDigits
<1>6. \A ch : ch \in Digits <=> ch \in {"0", "1", "2", "3", "4", "5", "6", "7", "8", "9"}
  BY <1>2, <1>4, SMT DEF HexDigits
<1> QED BY <1>5, <1>6

-----------------------------------------------------------------------------
(* Loose states *)

(* A state that asks for nothing *)
LEMMA LooseGood ==
  ASSUME NEW v, Loose(v), v.state \in Free
  PROVE  Good(v)
BY DEF Loose, Good, Free, Sound, StateFine, States, Bound, HeaderFine, LengthFine, ChunkFine,
   MarksFine, InBody, InValue, Sizing, InChunk, Pieces

(* ... and the change to another state *)
LEMMA GoLoose ==
  ASSUME NEW w, Loose(w), NEW s
  PROVE  Loose(Go(w, s)) /\ (s \in Free => Good(Go(w, s)))
<1>1. Loose(Go(w, s)) BY GoIs DEF Loose
<1>2. Go(w, s).state = s BY GoIs DEF Loose
<1> QED BY <1>1, <1>2, LooseGood

(* When the open piece is closed, nothing is open. *)
LEMMA CallbackLoose ==
  ASSUME NEW w, NEW v, NEW f, Closed(v, w, f), Only(w, f)
  PROVE  Loose(v)
BY DEF Loose, Only, Closed, Same

(* MARK opens the piece f, and only it is open then. *)
LEMMA MarkOnly ==
  ASSUME NEW w, NEW f, Loose(w) \/ Only(w, f)
  PROVE  Only(Mark(w, f), f) /\ Mark(w, f).state = w.state
<1>1. Whole(w) BY DEF Loose, Only
<1>2. Same(Mark(w, f), w) /\ \A g \in Pieces : g # f => Mark(w, f).mark[g] = w.mark[g]
  BY <1>1, MarkIs
<1> QED BY <1>2 DEF Loose, Only, Same

(* A change of state opens and closes nothing. *)
LEMMA GoOnly ==
  ASSUME NEW w, NEW f, Only(w, f), NEW s
  PROVE  Only(Go(w, s), f) /\ Go(w, s).state = s
BY GoIs DEF Only

(* No piece is open in the states that are not about one. *)
LEMMA ReadyLoose ==
  ASSUME NEW w, NEW s, Ready(w, s), s \notin InUrl, s \notin InBody, s # "s_header_field",
         s # "s_header_value"
  PROVE  Loose(w)
BY DEF Ready, Loose, Sound, StateFine, States, Bound, HeaderFine, LengthFine, ChunkFine,
   MarksFine, Pieces

-----------------------------------------------------------------------------
(* Tables *)

(* A look-up in a table of moves gives a move of the table, or the       *)
(* default.                                                              *)
LEMMA TargetIs ==
  ASSUME NEW moves, NEW s, NEW ch, NEW other
  PROVE  \/ Target(moves, s, ch, other) = other
         \/ \E m \in moves : m[1] = s /\ ch \in m[2] /\ Target(moves, s, ch, other) = m[3]
BY DEF Target

(* parse_url_char stays in the states of a URL, or dies. *)
LEMMA UrlTargets == \A m \in UrlMoves : m[3] \in InUrl
BY DEF UrlMoves, InUrl, UrlSchema, UrlRest, Query, Server

(* Where the states that only compare a byte lead: to a state that asks  *)
(* for nothing, but for the folded header line and the chunk parameters. *)
LEMMA PlainTargets ==
  \A m \in PlainMoves :
     /\ m[3] # "none"
     /\ \/ m[3] \in Free
        \/ m[1] = "s_header_almost_done" /\ m[3] = "s_header_value_lws"
        \/ /\ m[1] = "s_chunk_parameters"
           /\ m[3] \in {"s_chunk_parameters", "s_chunk_size_almost_done"}
<1>1. ASSUME NEW m \in PlainMoves
      PROVE  \/ m[3] \in Free
             \/ m[1] = "s_header_almost_done" /\ m[3] = "s_header_value_lws"
             \/ m[1] = "s_chunk_parameters" /\ m[3] = "s_chunk_parameters"
             \/ m[1] = "s_chunk_parameters" /\ m[3] = "s_chunk_size_almost_done"
  BY <1>1, SMT DEF PlainMoves, Free
<1>2. "none" \notin Free BY DEF Free
<1>3. \A t \in {"s_header_value_lws", "s_chunk_parameters", "s_chunk_size_almost_done"} :
         t # "none"
  OBVIOUS
<1> HIDE DEF Free
<1> QED BY <1>1, <1>2, <1>3

(* A header name leads to one of the header states. *)
LEMMA FieldTargets ==
  ASSUME NEW h, NEW ch
  PROVE  FieldNext(h, ch) \in FieldStates /\ FieldNext(h, ch) \in HeaderStates
<1>1. \A m \in FieldMoves : m[3] \in FieldStates BY DEF FieldMoves, FieldStates
<1>2. "h_general" \in FieldStates BY DEF FieldStates
<1>3. \A x \in FieldStates : x \in HeaderStates BY DEF FieldStates, HeaderStates
<1> QED BY <1>1, <1>2, <1>3 DEF FieldNext

(* A value leads to a header state, and to h_connection only from the    *)
(* blank at the start of a Connection header.                            *)
LEMMA ValueTargets ==
  ASSUME NEW h, NEW ch
  PROVE  /\ ValueNext(h, ch) \in HeaderStates
         /\ ValueNext(h, ch) \in Asking => h = "start_h_connection" /\ ch \in Blank
<1>1. ASSUME NEW m \in ValueMoves
      PROVE  /\ m[3] \in HeaderStates
             /\ m[3] \in Asking => m[1] = "start_h_connection" /\ m[2] = {"SP"}
  <2> DEFINE Ends == {"h_transfer_encoding_chunked", "h_connection_keep_alive",
                      "h_connection_close"}
             To == {"h_matching_transfer_encoding_chunked", "h_matching_connection_keep_alive",
                    "h_matching_connection_close", Coding,
                    "h_matching_transfer_encoding_token_start"} \cup Ends
  <2>1. \/ m[3] \in To
        \/ m[1] = "start_h_connection" /\ m[2] = {"SP"} /\ m[3] = "h_connection"
    <3>1. m \notin {<<h0, {"SP"}, h0>> : h0 \in Ends} =>
            \/ m[3] \in To
            \/ m[1] = "start_h_connection" /\ m[2] = {"SP"} /\ m[3] = "h_connection"
       BY <1>1 DEF ValueMoves
    <3>2. m \in {<<h0, {"SP"}, h0>> : h0 \in Ends} => m[3] \in Ends OBVIOUS
    <3> QED BY <3>1, <3>2
  <2>2. \A t \in To : t \in HeaderStates /\ t \notin Asking
    BY DEF HeaderStates, Asking, Coding
  <2>3. "h_connection" \in HeaderStates BY DEF HeaderStates
  <2> QED BY <2>1, <2>2, <2>3
<1>2. \A t \in {"h_general", Coding} : t \in HeaderStates /\ t \notin Asking
  BY DEF HeaderStates, Asking, Coding
<1>3. PICK other \in {"h_general", Coding} : ValueNext(h, ch) = Target(ValueMoves, h, ch, other)
  BY DEF ValueNext
<1> DEFINE t == Target(ValueMoves, h, ch, other)
<1>4. t = other \/ \E m \in ValueMoves : m[1] = h /\ ch \in m[2] /\ t = m[3] BY TargetIs
<1> HIDE DEF t
<1>5. t \in HeaderStates /\ (t \in Asking => h = "start_h_connection" /\ ch \in Blank)
  <2>1. CASE t = other BY <1>2, <2>1
  <2>2. ASSUME NEW m \in ValueMoves, m[1] = h, ch \in m[2], t = m[3]
        PROVE t \in HeaderStates /\ (t \in Asking => h = "start_h_connection" /\ ch \in Blank)
    BY <1>1, <2>2 DEF Blank
  <2> QED BY <1>4, <2>1, <2>2
<1> QED BY <1>3, <1>5 DEF t

-----------------------------------------------------------------------------
(* The request line *)

(* s_start_req: the first letter of the method; on_message_begin *)
LEMMA StartReqGood ==
  ASSUME NEW w, NEW ch, Ready(w, "s_start_req")
  PROVE  Good(StartReq(w, ch))
<1>1. Loose(w) /\ Whole(w) /\ w.state = "s_start_req"
  BY ReadyLoose DEF InUrl, UrlSchema, UrlRest, Query, InBody, Ready
<1> DEFINE guess == {m \in FirstMethod : Letter(m, 0) = ch}
           v == [w EXCEPT !.flags = {}, !.uses_transfer_encoding = FALSE,
                          !.content_length = UllongMax]
           u == [v EXCEPT !.method = CHOOSE m \in guess : TRUE,
                          !.index = 1, !.state = "s_req_method"]
<1>2. Loose(v) BY <1>1 DEF Loose, Whole, Core
<1>3. Loose(u) /\ u.state = "s_req_method"
  <2> HIDE DEF v
  <2> QED BY <1>2 DEF Loose, Whole, Core
<1>4. Loose(OnMessageBegin(u)) /\ OnMessageBegin(u).state = "s_req_method"
  <2> HIDE DEF u
  <2> QED BY <1>3 DEF Loose, Whole, Core, OnMessageBegin
<1>5. StartReq(w, ch) \in {w, Fail(v, "INVALID_METHOD"), OnMessageBegin(u)}
  BY DEF StartReq
<1>6. Good(w) BY <1>1, LooseGood DEF Free
<1>7. Good(Fail(v, "INVALID_METHOD")) BY <1>2, FailGood DEF Loose
<1>8. Good(OnMessageBegin(u))
  <2> HIDE DEF u
  <2> QED BY <1>4, LooseGood DEF Free
<1> HIDE DEF u, v
<1> QED BY <1>5, <1>6, <1>7, <1>8

(* s_req_method: the next letter, or the blank after the method *)
LEMMA ReqMethodGood ==
  ASSUME NEW w, NEW ch, Ready(w, "s_req_method")
  PROVE  Good(ReqMethod(w, ch))
<1>1. Loose(w) /\ Whole(w) /\ w.state = "s_req_method"
  BY ReadyLoose DEF InUrl, UrlSchema, UrlRest, Query, InBody, Ready
<1> DEFINE v == [w EXCEPT !.index = @ + 1]
<1>2. Loose(v) /\ v.state = "s_req_method" BY <1>1 DEF Loose, Whole, Core
<1> HIDE DEF v
<1>3. Good(Fail(w, "INVALID_METHOD")) BY <1>1, FailGood
<1>4. Good(v) /\ Good(Go(v, "s_req_spaces_before_url"))
  BY <1>2, LooseGood, GoLoose DEF Free
<1>5. ASSUME NEW m PROVE Good([v EXCEPT !.method = m])
  <2> DEFINE u == [v EXCEPT !.method = m]
  <2>1. Loose(u) /\ u.state = "s_req_method" BY <1>2 DEF Loose, Whole, Core
  <2> HIDE DEF u
  <2>2. Good(u) BY <2>1, LooseGood DEF Free
  <2> QED BY <2>2 DEF u
<1> DEFINE rename == {r \in Renames : r[1] = w.method /\ r[2] = w.index /\ r[3] = ch}
           m == (CHOOSE r \in rename : TRUE)[4]
<1>6. ReqMethod(w, ch) \in {Fail(w, "INVALID_METHOD"), v, Go(v, "s_req_spaces_before_url"),
                            [v EXCEPT !.method = m]}
  BY DEF ReqMethod, v
<1> HIDE DEF m
<1> QED BY <1>3, <1>4, <1>5, <1>6

(* A byte of the URL, by parse_url_char *)
LEMMA UrlCharsGood ==
  ASSUME NEW w, Only(w, "url"), NEW s, NEW ch
  PROVE  Good(UrlChars(w, s, ch))
<1> DEFINE next == Target(UrlMoves, s, ch, "s_dead")
<1>1. next = "s_dead" \/ next \in InUrl BY TargetIs, UrlTargets
<1> HIDE DEF next
<1>2. ASSUME NEW v, Only(v, "url"), v.state \in InUrl PROVE Good(v)
  BY <1>2 DEF Only, Good, Sound, StateFine, States, Bound, HeaderFine, LengthFine, ChunkFine,
     MarksFine, InValue,
     InChunk, Sizing, InUrl, UrlSchema, UrlRest, Query, Pieces
<1>3. CASE next = "s_dead"
  <2>1. UrlChars(w, s, ch) = Fail(w, "INVALID_URL") BY <1>3 DEF UrlChars, next
  <2> QED BY <2>1, FailGood DEF Only
<1>4. CASE next \in InUrl
  <2>1. next # "s_dead" BY <1>4 DEF InUrl, UrlSchema, UrlRest, Query
  <2>2. \/ UrlChars(w, s, ch) = Go(w, next)
        \/ \E x : UrlChars(w, s, ch) = [w EXCEPT !.state = next, !.qs_point = x]
    BY <2>1 DEF UrlChars, next
  <2>3. Only(Go(w, next), "url") /\ Go(w, next).state = next BY GoIs DEF Only
  <2>4. ASSUME NEW x
        PROVE  LET v == [w EXCEPT !.state = next, !.qs_point = x]
               IN Only(v, "url") /\ v.state = next
    BY DEF Only, Whole, Core
  <2>5. Good(Go(w, next)) BY <1>2, <1>4, <2>3
  <2>6. ASSUME NEW x PROVE Good([w EXCEPT !.state = next, !.qs_point = x])
    BY <1>2, <1>4, <2>4
  <2> QED BY <2>2, <2>5, <2>6
<1> QED BY <1>1, <1>3, <1>4

(* s_req_spaces_before_url: the first byte of the URL is marked. *)
LEMMA SpacesBeforeUrlGood ==
  ASSUME NEW w, NEW ch, Ready(w, "s_req_spaces_before_url")
  PROVE  Good(SpacesBeforeUrl(w, ch))
<1>1. Loose(w) /\ Whole(w) /\ w.state = "s_req_spaces_before_url"
  BY ReadyLoose DEF InUrl, UrlSchema, UrlRest, Query, InBody, Ready
<1>2. Only(Mark(w, "url"), "url")
  BY <1>1, MarkIs DEF Only, Loose, Same
<1>3. Only(Mark(Mark(w, "url"), "url_start"), "url")
  <2>1. Whole(Mark(w, "url")) BY <1>2 DEF Only
  <2>2. "url_start" \notin Pieces BY DEF Pieces
  <2> QED BY <1>2, <2>1, <2>2, MarkIs DEF Only, Same
<1>4. Good(w) BY <1>1, LooseGood DEF Free
<1> QED BY <1>3, <1>4, UrlCharsGood DEF SpacesBeforeUrl

(* In the states of the URL only the URL is open. *)
LEMMA ReadyOnlyUrl ==
  ASSUME NEW w, NEW s \in InUrl, Ready(w, s)
  PROVE  Only(w, "url") /\ w.state = s
BY DEF Ready, Only, Sound, StateFine, States, Bound, HeaderFine, LengthFine, ChunkFine,
   MarksFine, Pieces, InUrl, UrlSchema, UrlRest, Query, InBody

(* The states after the start of the URL: a byte of it, or its end,      *)
(* where on_url is called and the URL is closed                          *)
LEMMA UrlOrEndGood ==
  ASSUME NEW w, NEW s \in InUrl, NEW ch, Ready(w, s)
  PROVE  Good(UrlOrEnd(w, ch))
<1>1. Only(w, "url") /\ w.state = s /\ Whole(w) BY ReadyOnlyUrl DEF Only
<1>2. ASSUME NEW v, Only(v, "url"), v.state \in Free, NEW last
      PROVE Good(Callback(v, "url", last, OnUrl))
  <2> DEFINE u == Callback(v, "url", last, OnUrl)
  <2>1. Closed(u, v, "url") BY <1>2, CallbackIs DEF Only
  <2> HIDE DEF u
  <2>2. Loose(u) BY <1>2, <2>1, CallbackLoose
  <2>3. u.state = v.state BY <2>1 DEF Closed, Same
  <2>4. Good(u) BY <1>2, <2>2, <2>3, LooseGood
  <2> QED BY <2>4 DEF u
<1>3. Good(Callback(Go(w, "s_req_http_start"), "url", w.p - 1, OnUrl))
  <2>1. Only(Go(w, "s_req_http_start"), "url") BY <1>1, GoIs DEF Only
  <2>2. Go(w, "s_req_http_start").state \in Free
    BY <1>1, GoIs DEF Free
  <2> QED BY <1>2, <2>1, <2>2
<1>4. Good(Fail(Go(w, "s_dead"), "INVALID_VERSION")) BY <1>1, GoIs, FailGood
<1>5. ASSUME NEW t \in {"s_req_line_almost_done", "s_header_field_start"}
      PROVE  Good(Callback([w EXCEPT !.http_major = 0, !.http_minor = 9, !.state = t],
                           "url", w.p - 1, OnUrl))
  <2> DEFINE v == [w EXCEPT !.http_major = 0, !.http_minor = 9, !.state = t]
  <2>1. Only(v, "url") /\ v.state = t BY <1>1 DEF Only, Whole, Core
  <2>2. t \in Free BY DEF Free
  <2> HIDE DEF v
  <2>3. Good(Callback(v, "url", w.p - 1, OnUrl)) BY <1>2, <2>1, <2>2
  <2> QED BY <2>3 DEF v
<1>6. Good(UrlChars(w, w.state, ch)) BY <1>1, UrlCharsGood
<1> DEFINE t == IF ch = "CR" THEN "s_req_line_almost_done" ELSE "s_header_field_start"
<1>7. UrlOrEnd(w, ch) \in {Callback(Go(w, "s_req_http_start"), "url", w.p - 1, OnUrl),
                           Fail(Go(w, "s_dead"), "INVALID_VERSION"),
                           Callback([w EXCEPT !.http_major = 0, !.http_minor = 9, !.state = t],
                                    "url", w.p - 1, OnUrl),
                           UrlChars(w, w.state, ch)}
  BY DEF UrlOrEnd
<1>8. t \in {"s_req_line_almost_done", "s_header_field_start"} OBVIOUS
<1> HIDE DEF t
<1> QED BY <1>3, <1>4, <1>5, <1>6, <1>7, <1>8

(* s_req_http_major, s_req_http_minor: a digit of the version *)
LEMMA VersionGood ==
  ASSUME NEW w, NEW s \in {"s_req_http_major", "s_req_http_minor"}, NEW ch, Ready(w, s)
  PROVE  Good(Version(w, ch))
<1>1. Loose(w) /\ Whole(w) /\ w.state = s
  BY ReadyLoose DEF InUrl, UrlSchema, UrlRest, Query, InBody, Ready
<1>2. Good(Fail(w, "INVALID_VERSION")) BY <1>1, FailGood
<1> DEFINE d == Digit(ch)
           u == [w EXCEPT !.http_major = d, !.state = "s_req_http_dot"]
           v == [w EXCEPT !.http_minor = d, !.state = "s_req_http_end"]
<1>3. Loose(u) /\ u.state = "s_req_http_dot" BY <1>1 DEF Loose, Whole, Core
<1>4. Loose(v) /\ v.state = "s_req_http_end" BY <1>1 DEF Loose, Whole, Core
<1>5. Version(w, ch) \in {Fail(w, "INVALID_VERSION"), u, v} BY DEF Version
<1> HIDE DEF u, v
<1>6. Good(u) /\ Good(v) BY <1>3, <1>4, LooseGood DEF Free
<1> QED BY <1>2, <1>5, <1>6

(* In a state of its own a byte leads where the table says *)
LEMMA TableGood ==
  ASSUME NEW w, NEW s, Ready(w, s), s \notin InUrl, s \notin InBody, s # "s_header_field",
         s # "s_header_value", NEW t, NEW m \in PlainMoves, m[1] = s, t = m[3]
  PROVE  Good(Go(w, t))
<1>1. Loose(w) /\ Whole(w) /\ w.state = s BY ReadyLoose DEF Ready
<1>2. CASE t \in Free BY <1>1, <1>2, GoLoose
<1>3. CASE s = "s_header_almost_done" /\ t = "s_header_value_lws"
  <2>1. w.header_state \notin Asking
    BY <1>3 DEF Ready, Sound, StateFine, States, Bound, HeaderFine, InValue
  <2>2. Loose(Go(w, t)) /\ Go(w, t).state = "s_header_value_lws"
        /\ Go(w, t).header_state = w.header_state
    BY <1>1, <1>3, GoLoose, GoIs
  <2> QED BY <2>1, <2>2 DEF Loose, Good, Sound, StateFine, States, Bound, HeaderFine,
             LengthFine, ChunkFine, MarksFine,
                            InValue, InChunk, Sizing, Pieces
<1>4. CASE s = "s_chunk_parameters" /\ t \in {"s_chunk_parameters", "s_chunk_size_almost_done"}
  <2>1. "CHUNKED" \in w.flags /\ w.content_length # UllongMax
    BY <1>4 DEF Ready, Sound, ChunkFine, LengthFine, InChunk, Sizing
  <2>2. Loose(Go(w, t)) /\ Go(w, t).state = t
        /\ Go(w, t).flags = w.flags /\ Go(w, t).content_length = w.content_length
    BY <1>1, GoLoose, GoIs
  <2> QED BY <1>4, <2>1, <2>2 DEF Loose, Good, Sound, StateFine, States, Bound, HeaderFine,
             LengthFine, ChunkFine, MarksFine,
                            InValue, InChunk, Sizing, Pieces
<1> QED BY <1>2, <1>3, <1>4, PlainTargets

(* The states that compare a byte and move on, and s_req_http_start *)
LEMMA PlainGood ==
  ASSUME NEW w, NEW s, NEW ch, Ready(w, s), s \notin InUrl, s \notin InBody,
         s # "s_header_field", s # "s_header_value"
  PROVE  Good(Plain(w, ch)) /\ (s = "s_req_http_start" => Good(HttpStart(w, ch)))
<1>1. Loose(w) /\ Whole(w) /\ w.state = s BY ReadyLoose DEF Ready
<1> DEFINE next == Target(PlainMoves, w.state, ch, "none")
<1>2. next # "none" => \E m \in PlainMoves : m[1] = s /\ next = m[3] BY <1>1, TargetIs
<1> HIDE DEF next
<1>3. next # "none" => Good(Go(w, next)) BY <1>2, TableGood
<1>4. Good(Fail(w, PlainError(w.state)))
  <2>1. PlainError(w.state) # "assertion" /\ PlainError(w.state) # "OK" BY DEF PlainError
  <2> QED BY <1>1, <2>1, FailGood
<1>5. Good(Plain(w, ch)) BY <1>3, <1>4 DEF Plain, next
<1>6. Good(Go(w, "s_req_http_I"))
  BY <1>1, GoLoose DEF Free
<1>7. Good(Fail(w, "INVALID_CONSTANT")) BY <1>1, FailGood
<1>8. Good(HttpStart(w, ch)) BY <1>3, <1>6, <1>7 DEF HttpStart, next
<1> QED BY <1>5, <1>8

-----------------------------------------------------------------------------
(* The end of the headers *)

(* message_complete: the parser waits for the next request. *)
LEMMA CompleteLoose ==
  ASSUME NEW w, Loose(w)
  PROVE  Loose(Complete(w)) /\ Complete(w).state = "s_start_req" /\ Good(Complete(w))
<1>1. Loose(Go(w, "s_start_req")) BY GoLoose
<1>2. Go(w, "s_start_req").state = "s_start_req" BY GoIs DEF Loose
<1> DEFINE v == Go(w, "s_start_req")
<1> HIDE DEF v
<1>3. Loose(OnMessageComplete(v)) /\ OnMessageComplete(v).state = v.state
  <2>1. Loose(v) BY <1>1 DEF v
  <2> QED BY <2>1 DEF Loose, OnMessageComplete, Whole, Core
<1>4. Complete(w) = OnMessageComplete(v) BY DEF Complete, v
<1>5. Loose(Complete(w)) /\ Complete(w).state = "s_start_req" BY <1>2, <1>3, <1>4 DEF v
<1>6. "s_start_req" \in Free BY DEF Free
<1> QED BY <1>5, <1>6, LooseGood

(* s_headers_done: a body is begun only when its length is known and not *)
(* 0, chunks only when they were announced, and then no byte of a size   *)
(* has been counted.                                                     *)
LEMMA HeadersDoneGood ==
  ASSUME NEW w, Loose(w)
  PROVE  Good(HeadersDone(w))
<1> DEFINE v == [w EXCEPT !.nread = 0]
<1>1. Loose(v) /\ Whole(v) /\ v.nread = 0 BY DEF Loose, Whole, Core
<1> DEFINE all == {[Complete(v) EXCEPT !.stop = TRUE, !.parsed = w.p],
                   Fail(v, "INVALID_TRANSFER_ENCODING"), Complete(v)}
<1>2. \/ HeadersDone(w) \in all
      \/ "CHUNKED" \in v.flags /\ HeadersDone(w) = Go(v, "s_chunk_size_start")
      \/ v.content_length \notin {0, UllongMax} /\ HeadersDone(w) = Go(v, "s_body_identity")
  BY DEF HeadersDone
<1> HIDE DEF v
<1>3. Good(Complete(v)) /\ Loose(Complete(v)) /\ Complete(v).state = "s_start_req"
  BY <1>1, CompleteLoose
<1>4. Good([Complete(v) EXCEPT !.stop = TRUE, !.parsed = w.p])
  <2> DEFINE u == Complete(v)
  <2> HIDE DEF u
  <2>1. Good(u) /\ Loose(u) /\ u.state = "s_start_req" BY <1>3 DEF u
  <2>2. Good([u EXCEPT !.stop = TRUE, !.parsed = w.p])
    BY <2>1 DEF Loose, Good, Whole, Core, Sound, StateFine, States, Bound, HeaderFine,
       LengthFine, ChunkFine, MarksFine
  <2> QED BY <2>2 DEF u
<1>5. Good(Fail(v, "INVALID_TRANSFER_ENCODING")) BY <1>1, FailGood
<1>6. \A h \in all : Good(h) BY <1>3, <1>4, <1>5
<1>7. ASSUME "CHUNKED" \in v.flags PROVE Good(Go(v, "s_chunk_size_start"))
  <2> DEFINE u == Go(v, "s_chunk_size_start")
  <2>1. Loose(u) /\ u.state = "s_chunk_size_start" /\ "CHUNKED" \in u.flags /\ u.nread = 0
    BY <1>1, <1>7, GoIs, GoLoose
  <2> HIDE DEF u
  <2>2. Good(u)
    BY <2>1 DEF Loose, Good, Sound, StateFine, States, Bound, HeaderFine, LengthFine,
       ChunkFine, MarksFine, InValue, Sizing,
                InChunk, Pieces
  <2> QED BY <2>2 DEF u
<1>8. ASSUME v.content_length \notin {0, UllongMax} PROVE Good(Go(v, "s_body_identity"))
  <2> DEFINE u == Go(v, "s_body_identity")
  <2>1. /\ Loose(u) /\ u.state = "s_body_identity"
        /\ u.content_length # 0 /\ u.content_length # UllongMax
    BY <1>1, <1>8, GoIs, GoLoose
  <2> HIDE DEF u
  <2>2. Good(u)
    BY <2>1 DEF Loose, Good, Sound, StateFine, States, Bound, HeaderFine, LengthFine,
       ChunkFine, MarksFine, InValue, Sizing,
                InChunk, Pieces
  <2> QED BY <2>2 DEF u
<1> HIDE DEF all
<1> QED BY <1>2, <1>6, <1>7, <1>8

(* on_headers_complete files the last header and decides keep-alive. *)
LEMMA OnHeadersCompleteLoose ==
  ASSUME NEW w, Loose(w)
  PROVE  Loose(OnHeadersComplete(w))
<1> DEFINE v == IF w.header_field = <<>> THEN w ELSE Emplace(w)
<1>1. Loose(v) BY DEF Loose, Emplace, Whole, Core
<1> HIDE DEF v
<1> DEFINE one == <<w.http_major, w.http_minor>>
           keep == "KEEP_ALIVE" \in w.flags
           x == (one = <<1, 0>> /\ keep) \/ one = <<1, 1>>
           y == (one = <<1, 0>> /\ ~keep) \/ (one = <<1, 1>> /\ "CLOSE" \in w.flags)
<1>2. OnHeadersComplete(w) = [v EXCEPT !.keep_alive = x, !.close_connection = y]
  BY DEF OnHeadersComplete, v
<1> HIDE DEF x, y
<1>3. Loose([v EXCEPT !.keep_alive = x, !.close_connection = y])
  BY <1>1 DEF Loose, Whole, Core
<1> QED BY <1>2, <1>3

(* s_headers_almost_done: the empty line *)
LEMMA HeadersAlmostDoneGood ==
  ASSUME NEW w, NEW ch, Loose(w)
  PROVE  Good(HeadersAlmostDone(w, ch))
<1>1. Whole(w) BY DEF Loose
<1> DEFINE x == "UPGRADE" \in w.flags \/ w.method = "CONNECT"
           v == [w EXCEPT !.state = "s_headers_done", !.upgrade = x]
<1>2. HeadersAlmostDone(w, ch) \in {Fail(w, "STRICT"), Complete(w),
        Fail(w, "UNEXPECTED_CONTENT_LENGTH"), HeadersDone(OnHeadersComplete(v))}
  BY DEF HeadersAlmostDone
<1> HIDE DEF x
<1>3. Loose(v) BY DEF Loose, Whole, Core
<1> HIDE DEF v
<1>4. Good(HeadersDone(OnHeadersComplete(v)))
  BY <1>3, OnHeadersCompleteLoose, HeadersDoneGood
<1> QED BY <1>1, <1>2, <1>4, FailGood, CompleteLoose

-----------------------------------------------------------------------------
(* Headers *)

(* s_header_field_start: a name is opened, or the headers are over. *)
LEMMA HeaderFieldStartGood ==
  ASSUME NEW w, NEW ch, Loose(w)
  PROVE  Good(HeaderFieldStart(w, ch))
<1>1. Whole(w) BY DEF Loose
<1> DEFINE u == Mark(w, "header_field")
           h == FieldNext("start", ch)
           v == [u EXCEPT !.state = "s_header_field", !.header_state = h]
<1>2. HeaderFieldStart(w, ch) \in {Go(w, "s_headers_almost_done"),
        HeadersAlmostDone(Go(w, "s_headers_almost_done"), ch), v,
        Fail(w, "INVALID_HEADER_TOKEN")}
  BY DEF HeaderFieldStart
<1>3. Good(Go(w, "s_headers_almost_done"))
  BY GoLoose DEF Free
<1>4. Good(HeadersAlmostDone(Go(w, "s_headers_almost_done"), ch))
  BY GoLoose, HeadersAlmostDoneGood
<1>5. Only(u, "header_field") BY MarkOnly
<1>6. h \in HeaderStates /\ h \in FieldStates BY FieldTargets
<1> HIDE DEF u, h
<1>7. Only(v, "header_field") /\ v.state = "s_header_field"
      /\ v.header_state \in FieldStates
  BY <1>5, <1>6 DEF Only, Whole, Core
<1> HIDE DEF v
<1>8. Good(v)
  BY <1>7 DEF Only, Good, Sound, StateFine, States, Bound, HeaderFine, LengthFine, ChunkFine,
     MarksFine, InValue, Sizing,
              InChunk, Pieces
<1> QED BY <1>1, <1>2, <1>3, <1>4, <1>8, FailGood

(* s_header_field: a byte of the name, which its header state knows      *)
(* (assert, 8357), or the colon that closes it                           *)
LEMMA HeaderFieldGood ==
  ASSUME NEW w, NEW ch, Ready(w, "s_header_field")
  PROVE  Good(HeaderField(w, ch))
<1>1. /\ Only(w, "header_field") /\ w.state = "s_header_field" /\ Whole(w)
      /\ w.header_state \in FieldStates
  BY DEF Ready, Only, Sound, StateFine, States, Bound, HeaderFine, LengthFine, ChunkFine,
     MarksFine, Pieces, InUrl,
         UrlSchema, UrlRest, Query, InBody
<1> DEFINE next == FieldNext(w.header_state, ch)
           x == w.uses_transfer_encoding \/ next = "h_transfer_encoding"
           v == [w EXCEPT !.header_state = next, !.uses_transfer_encoding = x]
           u == Callback(Go(w, "s_header_value_discard_ws"), "header_field", w.p - 1,
                         OnHeaderField)
<1>2. HeaderField(w, ch) \in {v, u, Fail(w, "INVALID_HEADER_TOKEN")}
  BY <1>1 DEF HeaderField, Asserted
<1>3. next \in HeaderStates /\ next \in FieldStates BY FieldTargets
<1> HIDE DEF next, x
<1>4. Only(v, "header_field") /\ v.state = "s_header_field"
      /\ v.header_state \in FieldStates
  BY <1>1, <1>3 DEF Only, Whole, Core
<1> HIDE DEF v
<1>5. Good(v)
  BY <1>4 DEF Only, Good, Sound, StateFine, States, Bound, HeaderFine, LengthFine, ChunkFine,
     MarksFine, InValue, Sizing,
              InChunk, Pieces
<1> DEFINE g == Go(w, "s_header_value_discard_ws")
<1>6. Only(g, "header_field") /\ g.state = "s_header_value_discard_ws" BY <1>1, GoOnly
<1> HIDE DEF g
<1>7. Closed(Callback(g, "header_field", w.p - 1, OnHeaderField), g, "header_field")
  BY <1>6, CallbackIs DEF Only
<1>8. Loose(u) /\ u.state = "s_header_value_discard_ws"
  BY <1>6, <1>7, CallbackLoose DEF g, Closed, Same
<1> HIDE DEF u
<1>9. Good(u) BY <1>8, LooseGood DEF Free
<1> QED BY <1>1, <1>2, <1>5, <1>9, FailGood

(* A value goes on: nothing else is open, and its first byte has been seen *)
LEMMA ValueGood ==
  ASSUME NEW v, Only(v, "header_value"), v.state = "s_header_value",
         v.header_state \notin Asking
  PROVE  Good(v)
BY DEF Only, Good, Sound, StateFine, States, Bound, HeaderFine, LengthFine, ChunkFine,
   MarksFine, InValue, Sizing,
       InChunk, Pieces

(* s_header_value_start: the first byte of a value, which no header      *)
(* state that asks for it survives                                       *)
LEMMA HeaderValueStartGood ==
  ASSUME NEW w, NEW ch, Loose(w), ch \in Blank => w.header_state \notin Asking
  PROVE  Good(HeaderValueStart(w, ch))
<1> DEFINE u == Mark(w, "header_value")
           v == [u EXCEPT !.state = "s_header_value"]
<1>1. Only(u, "header_value") BY MarkOnly
<1>2. u.header_state = w.header_state BY MarkIs DEF Same, Loose
<1> HIDE DEF u
<1>3. Only(v, "header_value") /\ v.state = "s_header_value" /\ v.header_state = w.header_state
  BY <1>1, <1>2 DEF Only, Whole, Core
<1>4. ASSUME NEW h, h \in HeaderStates, h \notin Asking
      PROVE  Good([v EXCEPT !.header_state = h])
  <2> DEFINE y == [v EXCEPT !.header_state = h]
  <2> HIDE DEF v
  <2>1. Only(y, "header_value") /\ y.state = "s_header_value" /\ y.header_state = h
    BY <1>3, <1>4 DEF Only, Whole, Core
  <2> HIDE DEF y
  <2>2. Good(y) BY <1>4, <2>1, ValueGood
  <2> QED BY <2>2 DEF y
<1>5. "h_general" \in HeaderStates /\ "h_general" \notin Asking
      /\ "h_content_length_num" \in HeaderStates /\ "h_content_length_num" \notin Asking
  BY DEF HeaderStates, Asking
<1>6. CASE w.header_state = "h_upgrade"
  <2> DEFINE f == v.flags \cup {"UPGRADE"}
             y == [v EXCEPT !.flags = f, !.header_state = "h_general"]
  <2>1. HeaderValueStart(w, ch) = y BY <1>6, <1>3 DEF HeaderValueStart, u, v
  <2> HIDE DEF v, f
  <2>2. Only(y, "header_value") /\ y.state = "s_header_value" /\ y.header_state = "h_general"
    BY <1>3, <1>5 DEF Only, Whole, Core
  <2> HIDE DEF y
  <2> QED BY <1>5, <2>1, <2>2, ValueGood
<1>7. CASE w.header_state = "h_content_length"
  <2>1. HeaderValueStart(w, ch) = ContentLengthStart(v, ch)
    BY <1>7, <1>3 DEF HeaderValueStart, u, v
  <2> DEFINE f == v.flags \cup {"CONTENTLENGTH"}
             d == Digit(ch)
             y == [v EXCEPT !.flags = f, !.content_length = d,
                            !.header_state = "h_content_length_num"]
  <2> HIDE DEF v
  <2>2. \/ ContentLengthStart(v, ch) \in {Fail(v, "INVALID_CONTENT_LENGTH"),
                                          Fail(v, "UNEXPECTED_CONTENT_LENGTH")}
        \/ ch \in Digits /\ ContentLengthStart(v, ch) = y
    BY DEF ContentLengthStart
  <2>3. ASSUME ch \in Digits PROVE Good(y)
    <3>1. d \in 0 .. UllongMax BY <2>3, DigitIs
    <3> HIDE DEF d, f
    <3>2. /\ Only(y, "header_value") /\ y.state = "s_header_value"
          /\ y.header_state = "h_content_length_num"
      BY <1>3, <1>5, <3>1 DEF Only, Whole, Core
    <3> HIDE DEF y
    <3> QED BY <1>5, <3>2, ValueGood
  <2>4. Whole(v) BY <1>3 DEF Only
  <2> HIDE DEF y
  <2> QED BY <2>1, <2>2, <2>3, <2>4, FailGood
<1>8. CASE w.header_state \in {"h_content_length_ws", "h_matching_transfer_encoding_token_start"}
  <2>1. HeaderValueStart(w, ch) = v BY <1>8, <1>3 DEF HeaderValueStart, u, v
  <2>2. v.header_state \notin Asking BY <1>8, <1>3 DEF Asking
  <2> HIDE DEF v
  <2> QED BY <1>3, <2>1, <2>2, ValueGood
<1>9. CASE w.header_state = "h_transfer_encoding"
  <2> DEFINE h == ValueNext("start_h_transfer_encoding", ch)
  <2>1. HeaderValueStart(w, ch) = [v EXCEPT !.header_state = h]
    BY <1>9, <1>3 DEF HeaderValueStart, u, v
  <2>2. h \in HeaderStates /\ h \notin Asking BY ValueTargets
  <2> HIDE DEF v, h
  <2> QED BY <1>4, <2>1, <2>2
<1>10. CASE w.header_state = "h_connection"
  <2> DEFINE h == ValueNext("start_h_connection", ch)
  <2>1. HeaderValueStart(w, ch) = [v EXCEPT !.header_state = h]
    BY <1>10, <1>3 DEF HeaderValueStart, u, v
  <2>2. ch \notin Blank BY <1>10 DEF Asking
  <2>3. h \in HeaderStates /\ h \notin Asking BY <2>2, ValueTargets
  <2> HIDE DEF v, h
  <2> QED BY <1>4, <2>1, <2>3
<1>11. CASE w.header_state \notin {"h_upgrade", "h_content_length", "h_content_length_ws",
             "h_matching_transfer_encoding_token_start", "h_transfer_encoding", "h_connection"}
  <2>1. HeaderValueStart(w, ch) = [v EXCEPT !.header_state = "h_general"]
    BY <1>11, <1>3 DEF HeaderValueStart, u, v
  <2> HIDE DEF v
  <2> QED BY <1>4, <1>5, <2>1
<1> QED BY <1>6, <1>7, <1>8, <1>9, <1>10, <1>11

(* Within a value only the value is open, and its first byte was seen. *)
LEMMA ReadyInValue ==
  ASSUME NEW w, Ready(w, "s_header_value")
  PROVE  /\ Only(w, "header_value") /\ w.state = "s_header_value" /\ Whole(w)
         /\ w.header_state \notin Asking
BY DEF Ready, Only, Sound, StateFine, States, Bound, HeaderFine, LengthFine, ChunkFine,
   MarksFine, Pieces, InUrl,
       UrlSchema, UrlRest, Query, InBody, InValue

(* The value is over, or may be *)
LEMMA ValueOverGood ==
  ASSUME NEW v, Loose(v), v.state \in {"s_header_almost_done", "s_header_value_lws"},
         v.header_state \notin Asking
  PROVE  Good(v)
BY DEF Loose, Good, Sound, StateFine, States, Bound, HeaderFine, LengthFine, ChunkFine,
   MarksFine, InValue, Sizing,
       InChunk, Pieces

(* h_content_length_num: one more digit of the length, or a blank *)
LEMMA ContentLengthGood ==
  ASSUME NEW w, NEW ch, Ready(w, "s_header_value")
  PROVE  Good(ContentLength(w, ch))
<1>1. Only(w, "header_value") /\ w.state = "s_header_value" /\ w.header_state \notin Asking
      /\ Whole(w)
  BY ReadyInValue
<1>2. CASE ch = "SP"
  <2> DEFINE v == [w EXCEPT !.header_state = "h_content_length_ws"]
  <2>1. ContentLength(w, ch) = v BY <1>2, Apart DEF ContentLength
  <2>2. "h_content_length_ws" \in HeaderStates /\ "h_content_length_ws" \notin Asking
    BY DEF HeaderStates, Asking
  <2>3. /\ Only(v, "header_value") /\ v.state = "s_header_value"
        /\ v.header_state = "h_content_length_ws"
    BY <1>1, <2>2 DEF Only, Whole, Core
  <2> HIDE DEF v
  <2> QED BY <2>1, <2>2, <2>3, ValueGood
<1>3. CASE ch \in Digits
  <2> DEFINE d == Digit(ch)
  <2>1. ch # "SP" BY <1>3, Apart
  <2>2. ContentLength(w, ch) = Grow(w, 10, d) BY <1>3, <2>1 DEF ContentLength
  <2>3. d \in 0 .. 9 BY <1>3, DigitIs
  <2>4. w.content_length \in 0 .. UllongMax BY <1>1 DEF Only
  <2> HIDE DEF d
  <2>5. ASSUME NEW n \in 0 .. UllongMax - 1 PROVE Good([w EXCEPT !.content_length = n])
    <3> DEFINE v == [w EXCEPT !.content_length = n]
    <3>1. /\ Only(v, "header_value") /\ v.state = "s_header_value"
          /\ v.header_state \notin Asking
      BY <1>1 DEF Only, Whole, Core
    <3> HIDE DEF v
    <3>2. Good(v) BY <3>1, ValueGood
    <3> QED BY <3>2 DEF v
  <2>6. Good(Fail(w, "INVALID_CONTENT_LENGTH")) BY <1>1, FailGood
  <2> QED BY <1>1, <2>2, <2>3, <2>4, <2>5, <2>6, GrowIs
<1>4. CASE ch # "SP" /\ ch \notin Digits
  <2>1. ContentLength(w, ch) = Fail(w, "INVALID_CONTENT_LENGTH") BY <1>4 DEF ContentLength
  <2> QED BY <1>1, <2>1, FailGood
<1> QED BY <1>2, <1>3, <1>4

(* s_header_value: a byte of the value, or the CR or LF that closes it;  *)
(* the states that ask for its first byte are over (assert, 8529).       *)
LEMMA HeaderValueGood ==
  ASSUME NEW w, NEW ch, Ready(w, "s_header_value")
  PROVE  Good(HeaderValue(w, ch))
<1>1. Only(w, "header_value") /\ w.state = "s_header_value" /\ w.header_state \notin Asking
      /\ Whole(w)
  BY ReadyInValue
<1> DEFINE g == Go(w, "s_header_almost_done")
           a == Callback(g, "header_value", w.p - 1, OnHeaderValue)
           k == Counted(w)
           b == Callback(k, "header_value", w.p - 1, OnHeaderValue)
           c == Go(b, "s_header_value_lws")
           h == ValueNext(w.header_state, ch)
           d == [w EXCEPT !.header_state = h]
<1>2. \/ ~ k.stop /\ HeaderValue(w, ch) = c
      \/ HeaderValue(w, ch) \in {Counted(a), k, ContentLength(w, ch), w, d,
                                  Fail(w, "INVALID_CONTENT_LENGTH"),
                                  Fail(w, "INVALID_HEADER_TOKEN")}
  BY <1>1 DEF HeaderValue, Asking
<1>3. Good(a)
  <2>1. Only(g, "header_value") /\ g.state = "s_header_almost_done"
        /\ g.header_state = w.header_state /\ Whole(g)
    BY <1>1, GoOnly, GoIs
  <2> HIDE DEF g
  <2>2. Closed(a, g, "header_value") BY <2>1, CallbackIs
  <2> HIDE DEF a
  <2>3. Loose(a) BY <2>1, <2>2, CallbackLoose
  <2>4. a.state = "s_header_almost_done" /\ a.header_state = w.header_state
    BY <2>1, <2>2 DEF Closed, Same
  <2> QED BY <1>1, <2>3, <2>4, ValueOverGood
<1>4. ~ k.stop => Good(c)
  <2> SUFFICES ASSUME ~ k.stop PROVE Good(c) OBVIOUS
  <2>0. Alike(k, w)
    <3>1. k # Fail(w, "HEADER_OVERFLOW") BY <1>1 DEF Fail, Whole, Core
    <3> QED BY <1>1, <3>1, CountedIs
  <2> HIDE DEF k
  <2>4. Only(k, "header_value") /\ k.header_state = w.header_state /\ Whole(k)
    BY <1>1, <2>0 DEF Alike, Same, Only
  <2>1. Closed(b, k, "header_value") BY <2>4, CallbackIs
  <2> HIDE DEF b
  <2>2. Loose(b) /\ b.header_state = w.header_state /\ Whole(b)
    BY <2>4, <2>1, CallbackLoose DEF Closed, Same
  <2>3. Loose(c) /\ c.state = "s_header_value_lws" /\ c.header_state = w.header_state
    BY <2>2, GoLoose, GoIs
  <2> HIDE DEF c
  <2> QED BY <1>1, <2>3, ValueOverGood
<1>5. Good(d)
  <2>1. h \in HeaderStates /\ h \notin Asking
    <3>1. w.header_state # "start_h_connection"
      BY <1>1 DEF Only, HeaderStates, Coding
    <3> QED BY <3>1, ValueTargets
  <2> HIDE DEF h
  <2>2. Only(d, "header_value") /\ d.state = "s_header_value" /\ d.header_state = h
    BY <1>1, <2>1 DEF Only, Whole, Core
  <2> HIDE DEF d
  <2> QED BY <2>1, <2>2, ValueGood
<1>6. Good(w) BY <1>1, ValueGood
<1>7. Good(Counted(a)) /\ Good(k) BY <1>3, <1>6, CountedGood
<1> HIDE DEF a, c, d, k
<1> QED BY <1>1, <1>2, <1>4, <1>5, <1>6, <1>7, ContentLengthGood, FailGood

(* s_header_value_lws: the value goes on in the next line, or its flag   *)
(* is set.                                                               *)
LEMMA HeaderValueLwsGood ==
  ASSUME NEW w, NEW ch, Ready(w, "s_header_value_lws")
  PROVE  Good(HeaderValueLws(w, ch))
<1>1. Loose(w) /\ w.header_state \notin Asking
  <2>1. Loose(w) BY ReadyLoose DEF InUrl, UrlSchema, UrlRest, Query, InBody
  <2> QED BY <2>1 DEF Ready, Sound, StateFine, States, Bound, HeaderFine, InValue
<1>2. ASSUME NEW h \in HeaderStates, h \notin Asking
      PROVE  /\ Loose([w EXCEPT !.header_state = h])
             /\ [w EXCEPT !.header_state = h].header_state = h
  BY <1>1 DEF Loose, Whole, Core
<1>3. ASSUME NEW f
      PROVE  Loose([w EXCEPT !.flags = f, !.state = "s_header_field_start"])
  BY <1>1 DEF Loose, Whole, Core
<1>4. CASE ch \in Blank
  <2> DEFINE h == IF w.header_state = "h_content_length_num" THEN "h_content_length_ws"
                  ELSE w.header_state
  <2>1. HeaderValueLws(w, ch) = HeaderValueStart([w EXCEPT !.header_state = h], ch)
    BY <1>4 DEF HeaderValueLws
  <2>2. h \in HeaderStates /\ h \notin Asking BY <1>1 DEF Loose, HeaderStates, Asking
  <2> HIDE DEF h
  <2> QED BY <1>2, <2>1, <2>2, HeaderValueStartGood
<1>5. CASE ch \notin Blank
  <2> DEFINE flag == CASE w.header_state = "h_connection_keep_alive" -> {"KEEP_ALIVE"}
                       [] w.header_state = "h_connection_close" -> {"CLOSE"}
                       [] w.header_state = "h_transfer_encoding_chunked" -> {"CHUNKED"}
                       [] OTHER -> {}
             f == w.flags \cup flag
             v == [w EXCEPT !.flags = f, !.state = "s_header_field_start"]
  <2>1. HeaderValueLws(w, ch) = HeaderFieldStart(v, ch) BY <1>5 DEF HeaderValueLws
  <2> HIDE DEF f
  <2>2. Loose(v) BY <1>3
  <2> QED BY <2>1, <2>2, HeaderFieldStartGood
<1> QED BY <1>4, <1>5

(* s_header_value_discard_ws: blanks before a value *)
LEMMA HeaderValueDiscardWsGood ==
  ASSUME NEW w, NEW ch, Ready(w, "s_header_value_discard_ws")
  PROVE  Good(HeaderValueDiscardWs(w, ch))
<1>1. Loose(w) /\ w.state = "s_header_value_discard_ws"
  BY ReadyLoose DEF InUrl, UrlSchema, UrlRest, Query, InBody, Ready
<1>2. \/ HeaderValueDiscardWs(w, ch) \in {w, Go(w, "s_header_value_discard_ws_almost_done"),
                                          Go(w, "s_header_value_discard_lws")}
      \/ ch \notin Blank /\ HeaderValueDiscardWs(w, ch) = HeaderValueStart(w, ch)
  BY DEF HeaderValueDiscardWs
<1>3. ch \notin Blank => Good(HeaderValueStart(w, ch)) BY <1>1, HeaderValueStartGood
<1>4. {"s_header_value_discard_ws", "s_header_value_discard_ws_almost_done",
       "s_header_value_discard_lws"} \subseteq Free
  BY DEF Free
<1> QED BY <1>1, <1>2, <1>3, <1>4, LooseGood, GoLoose

(* s_header_value_discard_lws: an empty value *)
LEMMA HeaderValueDiscardLwsGood ==
  ASSUME NEW w, NEW ch, Ready(w, "s_header_value_discard_lws")
  PROVE  Good(HeaderValueDiscardLws(w, ch))
<1>1. Loose(w) BY ReadyLoose DEF InUrl, UrlSchema, UrlRest, Query, InBody
<1> DEFINE g == Go(w, "s_header_field_start")
           m == Mark(g, "header_value")
           u == Callback(m, "header_value", w.p - 1, OnHeaderValue)
<1>2. HeaderValueDiscardLws(w, ch) \in {Go(w, "s_header_value_discard_ws"),
                                        HeaderFieldStart(u, ch)}
  BY DEF HeaderValueDiscardLws
<1>3. Loose(g) BY <1>1, GoLoose
<1> HIDE DEF g
<1>4. Only(m, "header_value") BY <1>3, MarkOnly
<1> HIDE DEF m
<1>5. Closed(u, m, "header_value") BY <1>4, CallbackIs DEF Only
<1> HIDE DEF u
<1>6. Good(HeaderFieldStart(u, ch)) BY <1>4, <1>5, CallbackLoose, HeaderFieldStartGood
<1>7. Good(Go(w, "s_header_value_discard_ws"))
  BY <1>1, GoLoose DEF Free
<1> QED BY <1>2, <1>6, <1>7

-----------------------------------------------------------------------------
(* Bodies and chunks *)

(* Within a body only the body is open. *)
LEMMA ReadyInBody ==
  ASSUME NEW w, NEW s \in InBody, Ready(w, s)
  PROVE  Only(w, "body") /\ w.state = s /\ Whole(w)
BY DEF Ready, Only, Sound, StateFine, States, Bound, HeaderFine, LengthFine, ChunkFine,
   MarksFine, Pieces, InUrl,
       UrlSchema, UrlRest, Query, InBody

(* A byte of a body: its length is one less *)
LEMMA BodyByte ==
  ASSUME NEW w, Only(w, "body"), w.content_length \notin {0, UllongMax}
  PROVE  LET v == [Mark(w, "body") EXCEPT !.content_length = @ - 1]
         IN /\ Only(v, "body") /\ v.state = w.state /\ v.flags = w.flags
            /\ v.content_length # UllongMax
<1> DEFINE u == Mark(w, "body")
           n == u.content_length - 1
           v == [u EXCEPT !.content_length = n]
<1>1. Only(u, "body") /\ u.state = w.state BY MarkOnly
<1>2. u.content_length = w.content_length /\ u.flags = w.flags BY MarkIs DEF Only, Same
<1> HIDE DEF u
<1>3. n \in 0 .. UllongMax /\ n # UllongMax BY <1>1, <1>2 DEF Only
<1> HIDE DEF n
<1>4. Only(v, "body") /\ v.state = w.state /\ v.flags = w.flags /\ v.content_length # UllongMax
  BY <1>1, <1>2, <1>3 DEF Only, Whole, Core
<1> QED BY <1>4 DEF v, n, u

(* s_body_identity: the length is neither 0 nor unknown (assert, 8868). *)
LEMMA BodyIdentityGood ==
  ASSUME NEW w, Ready(w, "s_body_identity")
  PROVE  Good(BodyIdentity(w))
<1>1. Only(w, "body") /\ w.state = "s_body_identity" BY ReadyInBody DEF InBody
<1>2. w.content_length \notin {0, UllongMax} BY DEF Ready, Sound, LengthFine
<1> DEFINE v == [Mark(w, "body") EXCEPT !.content_length = @ - 1]
           u == Callback(v, "body", w.p, OnBody)
<1>3. BodyIdentity(w) = IF v.content_length = 0 THEN Complete(u) ELSE v
  BY <1>2 DEF BodyIdentity, Asserted
<1>4. Only(v, "body") /\ v.state = "s_body_identity" /\ v.content_length # UllongMax
  BY <1>1, <1>2, BodyByte
<1> HIDE DEF v
<1>5. Closed(u, v, "body") BY <1>4, CallbackIs DEF Only
<1> HIDE DEF u
<1>6. Good(Complete(u)) BY <1>4, <1>5, CallbackLoose, CompleteLoose
<1>7. v.content_length # 0 => Good(v)
  BY <1>4 DEF Only, Good, Sound, StateFine, States, Bound, HeaderFine, LengthFine, ChunkFine,
     MarksFine, InValue, Sizing,
              InChunk, InBody, Pieces
<1> QED BY <1>3, <1>6, <1>7

(* s_chunk_data: the chunk is announced, its length neither 0 nor        *)
(* unknown (assert, 8997-8998).                                          *)
LEMMA ChunkDataGood ==
  ASSUME NEW w, Ready(w, "s_chunk_data")
  PROVE  Good(ChunkData(w))
<1>1. Only(w, "body") /\ w.state = "s_chunk_data" BY ReadyInBody DEF InBody
<1>2. w.content_length \notin {0, UllongMax} /\ "CHUNKED" \in w.flags
  BY DEF Ready, Sound, LengthFine, ChunkFine, InChunk
<1> DEFINE v == [Mark(w, "body") EXCEPT !.content_length = @ - 1]
           u == Go(v, "s_chunk_data_almost_done")
<1>3. ChunkData(w) = IF v.content_length = 0 THEN u ELSE v
  BY <1>2 DEF ChunkData, AssertChunked, Asserted
<1>4. Only(v, "body") /\ v.state = "s_chunk_data" /\ v.content_length # UllongMax
      /\ "CHUNKED" \in v.flags
  BY <1>1, <1>2, BodyByte
<1> HIDE DEF v
<1>5. Only(u, "body") /\ u.state = "s_chunk_data_almost_done" /\ "CHUNKED" \in u.flags
      /\ u.content_length = v.content_length
  BY <1>4, GoOnly, GoIs DEF Only
<1> HIDE DEF u
<1>6. v.content_length # 0 => Good(v)
  BY <1>4 DEF Only, Good, Sound, StateFine, States, Bound, HeaderFine, LengthFine, ChunkFine,
     MarksFine, InValue, Sizing,
              InChunk, InBody, Pieces
<1>7. v.content_length = 0 => Good(u)
  BY <1>5 DEF Only, Good, Sound, StateFine, States, Bound, HeaderFine, LengthFine, ChunkFine,
     MarksFine, InValue, Sizing,
              InChunk, InBody, Pieces
<1> QED BY <1>3, <1>6, <1>7

(* s_chunk_data_almost_done: the length is used up (assert, 9016-9017). *)
LEMMA ChunkDataAlmostDoneGood ==
  ASSUME NEW w, NEW ch, Ready(w, "s_chunk_data_almost_done")
  PROVE  Good(ChunkDataAlmostDone(w, ch))
<1>1. Only(w, "body") /\ Whole(w) BY ReadyInBody DEF InBody
<1>2. w.content_length = 0 /\ "CHUNKED" \in w.flags
  BY DEF Ready, Sound, LengthFine, ChunkFine, InChunk
<1> DEFINE g == Go(w, "s_chunk_data_done")
           u == Callback(g, "body", w.p - 1, OnBody)
<1>3. ChunkDataAlmostDone(w, ch) \in {u, Fail(w, "STRICT")}
  BY <1>2 DEF ChunkDataAlmostDone, AssertChunked, Asserted
<1>4. Only(g, "body") /\ g.state = "s_chunk_data_done" /\ g.flags = w.flags /\ Whole(g)
  BY <1>1, GoOnly, GoIs
<1> HIDE DEF g
<1>5. Closed(u, g, "body") BY <1>4, CallbackIs
<1> HIDE DEF u
<1>6. Loose(u) /\ u.state = "s_chunk_data_done" /\ "CHUNKED" \in u.flags
  BY <1>2, <1>4, <1>5, CallbackLoose DEF Closed, Same
<1>7. Good(u)
  BY <1>6 DEF Loose, Good, Sound, StateFine, States, Bound, HeaderFine, LengthFine, ChunkFine,
     MarksFine, InValue, Sizing,
              InChunk, InBody, Pieces
<1> QED BY <1>1, <1>3, <1>7, FailGood

(* s_chunk_data_done: the count of the next size begins at 0 (assert,    *)
(* 9024).                                                                *)
LEMMA ChunkDataDoneGood ==
  ASSUME NEW w, NEW ch, Ready(w, "s_chunk_data_done")
  PROVE  Good(ChunkDataDone(w, ch))
<1>1. Loose(w) /\ Whole(w) BY ReadyLoose DEF InUrl, UrlSchema, UrlRest, Query, InBody, Ready
<1>2. "CHUNKED" \in w.flags BY DEF Ready, Sound, ChunkFine, InChunk
<1> DEFINE v == [w EXCEPT !.nread = 0, !.state = "s_chunk_size_start"]
<1>3. ChunkDataDone(w, ch) \in {v, Fail(w, "STRICT")}
  BY <1>2 DEF ChunkDataDone, AssertChunked, Asserted
<1>4. Loose(v) /\ v.state = "s_chunk_size_start" /\ v.nread = 0 /\ "CHUNKED" \in v.flags
  BY <1>1, <1>2 DEF Loose, Whole, Core
<1> HIDE DEF v
<1>5. Good(v)
  BY <1>4 DEF Loose, Good, Sound, StateFine, States, Bound, HeaderFine, LengthFine, ChunkFine,
     MarksFine, InValue, Sizing,
              InChunk, InBody, Pieces
<1> QED BY <1>1, <1>3, <1>5, FailGood

(* s_chunk_size_start: its byte is the first that is counted (assert,    *)
(* 8913-8914).                                                           *)
LEMMA ChunkSizeStartGood ==
  ASSUME NEW w, NEW ch, Ready(w, "s_chunk_size_start")
  PROVE  Good(ChunkSizeStart(w, ch))
<1>1. Loose(w) /\ Whole(w) BY ReadyLoose DEF InUrl, UrlSchema, UrlRest, Query, InBody, Ready
<1>2. w.nread = 1 /\ "CHUNKED" \in w.flags BY DEF Ready, Sound, ChunkFine, InChunk
<1> DEFINE d == Digit(ch)
           v == [w EXCEPT !.content_length = d, !.state = "s_chunk_size"]
<1>3. \/ ChunkSizeStart(w, ch) = Fail(w, "INVALID_CHUNK_SIZE")
      \/ ch \in Hex /\ ChunkSizeStart(w, ch) = v
  BY <1>2 DEF ChunkSizeStart, AssertChunked, Asserted
<1>4. ASSUME ch \in Hex PROVE Good(v)
  <2>1. d \in 0 .. UllongMax /\ d # UllongMax BY <1>4, DigitIs
  <2> HIDE DEF d
  <2>2. Loose(v) /\ v.state = "s_chunk_size" /\ v.content_length # UllongMax
        /\ "CHUNKED" \in v.flags
    BY <1>1, <1>2, <2>1 DEF Loose, Whole, Core
  <2> HIDE DEF v
  <2> QED
    BY <2>2 DEF Loose, Good, Sound, StateFine, States, Bound, HeaderFine, LengthFine,
       ChunkFine, MarksFine, InValue,
                Sizing, InChunk, InBody, Pieces
<1> HIDE DEF v
<1> QED BY <1>1, <1>3, <1>4, FailGood

(* s_chunk_size: one more digit, or the end of the size (assert, 8931) *)
LEMMA ChunkSizeGood ==
  ASSUME NEW w, NEW ch, Ready(w, "s_chunk_size")
  PROVE  Good(ChunkSize(w, ch))
<1>1. Loose(w) /\ Whole(w) /\ w.state = "s_chunk_size"
  BY ReadyLoose DEF InUrl, UrlSchema, UrlRest, Query, InBody, Ready
<1>2. w.content_length # UllongMax /\ "CHUNKED" \in w.flags
  BY DEF Ready, Sound, ChunkFine, LengthFine, InChunk, Sizing
<1>3. ASSUME NEW v, Loose(v), v.state \in Sizing, v.content_length # UllongMax,
             "CHUNKED" \in v.flags
      PROVE  Good(v)
  BY <1>3 DEF Loose, Good, Sound, StateFine, States, Bound, HeaderFine, LengthFine, ChunkFine,
     MarksFine, InValue, Sizing,
              InChunk, InBody, Pieces
<1>4. ASSUME NEW s \in Sizing PROVE Good(Go(w, s))
  <2>1. /\ Loose(Go(w, s)) /\ Go(w, s).state = s
        /\ Go(w, s).content_length = w.content_length /\ Go(w, s).flags = w.flags
    BY <1>1, GoLoose, GoIs
  <2> QED BY <1>2, <1>3, <1>4, <2>1
<1>5. CASE ch \in Hex
  <2> DEFINE d == Digit(ch)
  <2>1. ch \notin {"CR", ";", "SP"} BY <1>5, Apart
  <2>2. ChunkSize(w, ch) = Grow(w, 16, d)
    BY <1>2, <1>5, <2>1 DEF ChunkSize, AssertChunked, Asserted
  <2>3. d \in 0 .. 15 BY <1>5, DigitIs
  <2> HIDE DEF d
  <2>4. ASSUME NEW n \in 0 .. UllongMax - 1 PROVE Good([w EXCEPT !.content_length = n])
    <3> DEFINE v == [w EXCEPT !.content_length = n]
    <3>1. /\ Loose(v) /\ v.state = "s_chunk_size" /\ v.content_length # UllongMax
          /\ "CHUNKED" \in v.flags
      BY <1>1, <1>2 DEF Loose, Whole, Core
    <3> HIDE DEF v
    <3>2. Good(v) BY <1>3, <3>1 DEF Sizing
    <3> QED BY <3>2 DEF v
  <2>5. w.content_length \in 0 .. UllongMax BY <1>1 DEF Loose
  <2>6. Good(Fail(w, "INVALID_CONTENT_LENGTH")) BY <1>1, FailGood
  <2> QED BY <1>1, <2>2, <2>3, <2>4, <2>5, <2>6, GrowIs
<1>6. CASE ch \notin Hex
  <2>1. ChunkSize(w, ch) \in {Go(w, "s_chunk_size_almost_done"), Go(w, "s_chunk_parameters"),
                              Fail(w, "INVALID_CHUNK_SIZE")}
    BY <1>2, <1>6 DEF ChunkSize, AssertChunked, Asserted
  <2> QED BY <1>1, <1>4, <2>1, FailGood DEF Sizing
<1> QED BY <1>5, <1>6

(* s_chunk_parameters: bytes that are passed over (assert, 8966) *)
LEMMA ChunkParametersGood ==
  ASSUME NEW w, NEW ch, Ready(w, "s_chunk_parameters")
  PROVE  Good(ChunkParameters(w, ch))
<1>1. "CHUNKED" \in w.flags BY DEF Ready, Sound, ChunkFine, InChunk, Sizing
<1>2. ChunkParameters(w, ch) = Plain(w, ch)
  BY <1>1 DEF ChunkParameters, AssertChunked, Asserted
<1>3. "s_chunk_parameters" \notin InUrl /\ "s_chunk_parameters" \notin InBody
  BY DEF InUrl, UrlSchema, UrlRest, Query, InBody
<1> QED BY <1>2, <1>3, PlainGood

(* s_chunk_size_almost_done: a chunk, or the trailer (assert, 8977) *)
LEMMA ChunkSizeAlmostDoneGood ==
  ASSUME NEW w, NEW ch, Ready(w, "s_chunk_size_almost_done")
  PROVE  Good(ChunkSizeAlmostDone(w, ch))
<1>1. Loose(w) /\ Whole(w) BY ReadyLoose DEF InUrl, UrlSchema, UrlRest, Query, InBody, Ready
<1>2. w.content_length # UllongMax /\ "CHUNKED" \in w.flags
  BY DEF Ready, Sound, ChunkFine, LengthFine, InChunk, Sizing
<1> DEFINE v == [w EXCEPT !.nread = 0]
           f == v.flags \cup {"TRAILING"}
           t == [v EXCEPT !.flags = f, !.state = "s_header_field_start"]
           u == Go(v, "s_chunk_data")
<1>3. Loose(v) /\ v.content_length # UllongMax /\ "CHUNKED" \in v.flags
  BY <1>1, <1>2 DEF Loose, Whole, Core
<1>4. \/ ChunkSizeAlmostDone(w, ch) \in {Fail(w, "STRICT"), t}
      \/ v.content_length # 0 /\ ChunkSizeAlmostDone(w, ch) = u
  BY <1>2 DEF ChunkSizeAlmostDone, AssertChunked, Asserted
<1> HIDE DEF v, f
<1>5. Loose(t) /\ t.state = "s_header_field_start" BY <1>3 DEF Loose, Whole, Core
<1>6. Good(t)
  <2> HIDE DEF t
  <2> QED BY <1>5, LooseGood DEF Free
<1>7. Loose(u) /\ u.state = "s_chunk_data" /\ u.content_length = v.content_length
      /\ u.flags = v.flags
  BY <1>3, GoLoose, GoIs DEF Loose
<1> HIDE DEF u
<1>8. v.content_length # 0 => Good(u)
  BY <1>3, <1>7 DEF Loose, Good, Sound, StateFine, States, Bound, HeaderFine, LengthFine,
     ChunkFine, MarksFine, InValue,
                    Sizing, InChunk, InBody, Pieces
<1> HIDE DEF t
<1> QED BY <1>1, <1>4, <1>6, <1>8, FailGood

-----------------------------------------------------------------------------
(* A byte *)

(* The switch over the states: whatever the byte, the state has a case   *)
(* (assert, 9032), and the case keeps the invariant.                     *)
LEMMA DispatchGood ==
  ASSUME NEW w, NEW s, NEW ch, Ready(w, s)
  PROVE  Good(Dispatch(w, ch))
<1>1. w.state = s BY DEF Ready
<1> DEFINE Own == {"s_start_req", "s_req_method", "s_req_spaces_before_url", "s_req_http_start",
             "s_req_http_major", "s_req_http_minor", "s_header_field_start", "s_header_field",
             "s_header_value_discard_ws", "s_header_value_discard_lws", "s_header_value",
             "s_header_value_lws", "s_headers_almost_done", "s_body_identity",
             "s_chunk_size_start", "s_chunk_size", "s_chunk_size_almost_done", "s_chunk_data",
             "s_chunk_data_almost_done", "s_chunk_data_done", "s_chunk_parameters"}
<1>2. CASE s \in InUrl
  <2>1. \/ Dispatch(w, ch) = UrlChars(w, w.state, ch)
        \/ Dispatch(w, ch) = UrlOrEnd(w, ch)
    BY <1>1, <1>2 DEF Dispatch, PlainStates, InUrl, UrlSchema, UrlRest, Query
  <2>2. Good(UrlOrEnd(w, ch)) BY <1>2, UrlOrEndGood
  <2>3. Good(UrlChars(w, w.state, ch)) BY <1>2, ReadyOnlyUrl, UrlCharsGood
  <2> QED BY <2>1, <2>2, <2>3
<1>3. CASE s \in Own
  <2>1. CASE s = "s_start_req"
    <3>1. Dispatch(w, ch) = StartReq(w, ch)
      BY <1>1, <2>1 DEF Dispatch, PlainStates, UrlSchema, UrlRest, Query
    <3> QED BY <2>1, <3>1, StartReqGood
  <2>2. CASE s = "s_req_method"
    <3>1. Dispatch(w, ch) = ReqMethod(w, ch)
      BY <1>1, <2>2 DEF Dispatch, PlainStates, UrlSchema, UrlRest, Query
    <3> QED BY <2>2, <3>1, ReqMethodGood
  <2>3. CASE s = "s_req_spaces_before_url"
    <3>1. Dispatch(w, ch) = SpacesBeforeUrl(w, ch)
      BY <1>1, <2>3 DEF Dispatch, PlainStates, UrlSchema, UrlRest, Query
    <3> QED BY <2>3, <3>1, SpacesBeforeUrlGood
  <2>4. CASE s = "s_req_http_start"
    <3>1. Dispatch(w, ch) = HttpStart(w, ch)
      BY <1>1, <2>4 DEF Dispatch, PlainStates, UrlSchema, UrlRest, Query
    <3>2. s \notin InUrl /\ s \notin InBody
      BY <2>4 DEF InUrl, UrlSchema, UrlRest, Query, InBody
    <3> QED BY <2>4, <3>1, <3>2, PlainGood
  <2>5. CASE s \in {"s_req_http_major", "s_req_http_minor"}
    <3>1. Dispatch(w, ch) = Version(w, ch)
      BY <1>1, <2>5 DEF Dispatch, PlainStates, UrlSchema, UrlRest, Query
    <3> QED BY <2>5, <3>1, VersionGood
  <2>6. CASE s = "s_header_field_start"
    <3>1. Dispatch(w, ch) = HeaderFieldStart(w, ch)
      BY <1>1, <2>6 DEF Dispatch, PlainStates, UrlSchema, UrlRest, Query
    <3>2. Loose(w) BY <2>6, ReadyLoose DEF InUrl, UrlSchema, UrlRest, Query, InBody
    <3> QED BY <3>1, <3>2, HeaderFieldStartGood
  <2>7. CASE s = "s_header_field"
    <3>1. Dispatch(w, ch) = HeaderField(w, ch)
      BY <1>1, <2>7 DEF Dispatch, PlainStates, UrlSchema, UrlRest, Query
    <3> QED BY <2>7, <3>1, HeaderFieldGood
  <2>8. CASE s = "s_header_value_discard_ws"
    <3>1. Dispatch(w, ch) = HeaderValueDiscardWs(w, ch)
      BY <1>1, <2>8 DEF Dispatch, PlainStates, UrlSchema, UrlRest, Query
    <3> QED BY <2>8, <3>1, HeaderValueDiscardWsGood
  <2>9. CASE s = "s_header_value_discard_lws"
    <3>1. Dispatch(w, ch) = HeaderValueDiscardLws(w, ch)
      BY <1>1, <2>9 DEF Dispatch, PlainStates, UrlSchema, UrlRest, Query
    <3> QED BY <2>9, <3>1, HeaderValueDiscardLwsGood
  <2>10. CASE s = "s_header_value"
    <3>1. Dispatch(w, ch) = HeaderValue(w, ch)
      BY <1>1, <2>10 DEF Dispatch, PlainStates, UrlSchema, UrlRest, Query
    <3> QED BY <2>10, <3>1, HeaderValueGood
  <2>11. CASE s = "s_header_value_lws"
    <3>1. Dispatch(w, ch) = HeaderValueLws(w, ch)
      BY <1>1, <2>11 DEF Dispatch, PlainStates, UrlSchema, UrlRest, Query
    <3> QED BY <2>11, <3>1, HeaderValueLwsGood
  <2>12. CASE s = "s_headers_almost_done"
    <3>1. Dispatch(w, ch) = HeadersAlmostDone(w, ch)
      BY <1>1, <2>12 DEF Dispatch, PlainStates, UrlSchema, UrlRest, Query
    <3>2. Loose(w) BY <2>12, ReadyLoose DEF InUrl, UrlSchema, UrlRest, Query, InBody
    <3> QED BY <3>1, <3>2, HeadersAlmostDoneGood
  <2>13. CASE s = "s_body_identity"
    <3>1. Dispatch(w, ch) = BodyIdentity(w)
      BY <1>1, <2>13 DEF Dispatch, PlainStates, UrlSchema, UrlRest, Query
    <3> QED BY <2>13, <3>1, BodyIdentityGood
  <2>14. CASE s = "s_chunk_size_start"
    <3>1. Dispatch(w, ch) = ChunkSizeStart(w, ch)
      BY <1>1, <2>14 DEF Dispatch, PlainStates, UrlSchema, UrlRest, Query
    <3> QED BY <2>14, <3>1, ChunkSizeStartGood
  <2>15. CASE s = "s_chunk_size"
    <3>1. Dispatch(w, ch) = ChunkSize(w, ch)
      BY <1>1, <2>15 DEF Dispatch, PlainStates, UrlSchema, UrlRest, Query
    <3> QED BY <2>15, <3>1, ChunkSizeGood
  <2>16. CASE s = "s_chunk_size_almost_done"
    <3>1. Dispatch(w, ch) = ChunkSizeAlmostDone(w, ch)
      BY <1>1, <2>16 DEF Dispatch, PlainStates, UrlSchema, UrlRest, Query
    <3> QED BY <2>16, <3>1, ChunkSizeAlmostDoneGood
  <2>17. CASE s = "s_chunk_data"
    <3>1. Dispatch(w, ch) = ChunkData(w)
      BY <1>1, <2>17 DEF Dispatch, PlainStates, UrlSchema, UrlRest, Query
    <3> QED BY <2>17, <3>1, ChunkDataGood
  <2>18. CASE s = "s_chunk_data_almost_done"
    <3>1. Dispatch(w, ch) = ChunkDataAlmostDone(w, ch)
      BY <1>1, <2>18 DEF Dispatch, PlainStates, UrlSchema, UrlRest, Query
    <3> QED BY <2>18, <3>1, ChunkDataAlmostDoneGood
  <2>19. CASE s = "s_chunk_data_done"
    <3>1. Dispatch(w, ch) = ChunkDataDone(w, ch)
      BY <1>1, <2>19 DEF Dispatch, PlainStates, UrlSchema, UrlRest, Query
    <3> QED BY <2>19, <3>1, ChunkDataDoneGood
  <2>20. CASE s = "s_chunk_parameters"
    <3>1. Dispatch(w, ch) = ChunkParameters(w, ch)
      BY <1>1, <2>20 DEF Dispatch, PlainStates, UrlSchema, UrlRest, Query
    <3> QED BY <2>20, <3>1, ChunkParametersGood
  <2> QED BY <1>3, <2>1, <2>2, <2>3, <2>4, <2>5, <2>6, <2>7, <2>8, <2>9, <2>10, <2>11, <2>12,
             <2>13, <2>14, <2>15, <2>16, <2>17, <2>18, <2>19, <2>20
<1>4. CASE s \notin InUrl /\ s \notin Own
  <2>1. s \in PlainStates
    <3>1. s \in States BY DEF Ready, Sound, StateFine
    <3> QED BY <1>4, <3>1 DEF States, Free, Bound, InValue, InChunk, Sizing, PlainStates
  <2>2. Dispatch(w, ch) = Plain(w, ch) BY <1>1, <1>4, <2>1 DEF Dispatch, PlainStates, InUrl
  <2>3. s \notin InBody /\ s # "s_header_field" /\ s # "s_header_value"
    BY <1>4 DEF InBody
  <2> HIDE DEF Own
  <2> QED BY <1>4, <2>2, <2>3, PlainGood
<1> QED BY <1>2, <1>3, <1>4

(* The count of the bytes comes first *)
LEMMA CountReady ==
  ASSUME NEW w, Good(w), ~ w.stop
  PROVE  LET v == Count([w EXCEPT !.p = @ + 1])
         IN (Good(v) /\ v.stop) \/ (Ready(v, w.state) /\ ~ v.stop)
<1> DEFINE q == w.p + 1
           u == [w EXCEPT !.p = q]
<1> HIDE DEF q
<1>1. /\ Whole(u) /\ u.http_errno = "OK" /\ u.state = w.state /\ ~ u.stop
      /\ Sound(u, 0) /\ u.nread \in Nat
  BY DEF Good, Whole, Core, Sound, StateFine, States, Bound, HeaderFine, LengthFine,
     ChunkFine, MarksFine
<1> DEFINE n == u.nread + 1
           v == [u EXCEPT !.nread = n]
           k == Counted(v)
<1>2. /\ u.state \in BodyStates => Count(u) = u
      /\ u.state \notin BodyStates => Count(u) \in {v, k, Mark(k, "start")}
  <2>1. [u EXCEPT !.nread = @ + 1] = v OBVIOUS
  <2> HIDE DEF u
  <2> QED BY <2>1 DEF Count, BodyStates
<1> HIDE DEF u
<1>3. Whole(v) BY <1>1 DEF Whole, Core
<1>4. Ready(v, w.state) /\ ~ v.stop
  BY <1>1 DEF Ready, Whole, Core, Sound, StateFine, States, Bound, HeaderFine, LengthFine,
     ChunkFine, MarksFine
<1>5. u.state \in BodyStates => Ready(u, w.state)
  BY <1>1 DEF Ready, Sound, ChunkFine, BodyStates
<1> HIDE DEF v
<1> DEFINE Fine(x) == (Good(x) /\ x.stop) \/ (Ready(x, w.state) /\ ~ x.stop)
<1>6. Fine(k) /\ Whole(k)
  <2>1. CASE k = Fail(v, "HEADER_OVERFLOW")
    <3>1. Fail(v, "HEADER_OVERFLOW").stop BY <1>3 DEF Fail, Whole, Core
    <3>2. Good(Fail(v, "HEADER_OVERFLOW")) BY <1>3, FailGood
    <3> QED BY <2>1, <3>1, <3>2 DEF Good
  <2>2. CASE Alike(k, v) BY <1>4, <2>2, AlikeGood DEF Alike, Same
  <2> QED BY <1>3, <2>1, <2>2, CountedIs
<1> HIDE DEF k
<1>7. Fine(Mark(k, "start"))
  <2>1. Alike(Mark(k, "start"), k) BY <1>6, MarkIs DEF Alike, Pieces
  <2> QED BY <1>6, <2>1, AlikeGood DEF Alike, Same
<1>8. Fine(v) BY <1>4
<1>9. Fine(Count(u))
  <2>1. CASE u.state \in BodyStates BY <1>1, <1>2, <1>5, <2>1
  <2>2. CASE u.state \notin BodyStates BY <1>2, <1>6, <1>7, <1>8, <2>2
  <2> QED BY <2>1, <2>2
<1> QED BY <1>9 DEF u, q

(* One byte: nothing after a stop, the count, the switch *)
LEMMA NextByteGood ==
  ASSUME NEW w, Good(w), NEW ch
  PROVE  Good(NextByte(w, ch))
<1> DEFINE v == Count([w EXCEPT !.p = @ + 1])
<1>1. NextByte(w, ch) = IF w.stop THEN w ELSE IF v.stop THEN v ELSE Dispatch(v, ch)
  BY DEF NextByte, Then
<1>2. ~ w.stop => ((Good(v) /\ v.stop) \/ (Ready(v, w.state) /\ ~ v.stop)) BY CountReady
<1> HIDE DEF v
<1> QED BY <1>1, <1>2, DispatchGood

-----------------------------------------------------------------------------
(* A read *)

(* The recursive function of the loop over the bytes is what its         *)
(* equation says.                                                        *)
LEMMA BytewiseUnfold ==
  ASSUME NEW b, NEW read, Len(read) \in Nat
  PROVE  /\ Bytewise(b, read)[0] = b
         /\ \A i \in 1 .. Len(read) :
               Bytewise(b, read)[i] = NextByte(Bytewise(b, read)[i - 1], read[i])
<1> DEFINE n == Len(read)
           Upto(f, m) == /\ f = [i \in 0 .. m |-> f[i]]
                         /\ f[0] = b
                         /\ \A i \in 1 .. m : f[i] = NextByte(f[i - 1], read[i])
           T == {m \in 0 .. n : \E f : Upto(f, m)}
           Solves(g) == g = [k \in 0 .. n |-> IF k = 0 THEN b ELSE NextByte(g[k - 1], read[k])]
           after == CHOOSE g : Solves(g)
<1>1. Bytewise(b, read) = after BY DEF Bytewise
<1>2. 0 \in T
  <2>1. Upto([i \in 0 .. 0 |-> b], 0) OBVIOUS
  <2> HIDE DEF Upto
  <2> QED BY <2>1
<1>3. ASSUME NEW m \in 1 .. n, m - 1 \in T PROVE m \in T
  <2>1. PICK f : Upto(f, m - 1)
    <3> HIDE DEF Upto
    <3> QED BY <1>3
  <2> DEFINE x == NextByte(f[m - 1], read[m])
             g == [i \in 0 .. m |-> IF i = m THEN x ELSE f[i]]
  <2>2. \A i \in 0 .. m : i # m => i \in 0 .. m - 1 /\ g[i] = f[i] OBVIOUS
  <2>3. g[m] = x /\ g[m - 1] = f[m - 1] OBVIOUS
  <2>4. g = [i \in 0 .. m |-> g[i]] /\ g[0] = b BY <2>1
  <2> HIDE DEF g
  <2>5. ASSUME NEW i \in 1 .. m PROVE g[i] = NextByte(g[i - 1], read[i])
    <3>1. CASE i = m BY <2>3, <3>1
    <3>2. CASE i # m
      <4>1. i \in 1 .. m - 1 /\ i \in 0 .. m /\ i - 1 \in 0 .. m /\ i - 1 # m BY <3>2
      <4>2. g[i] = f[i] /\ g[i - 1] = f[i - 1] BY <2>2, <3>2, <4>1
      <4> QED BY <2>1, <4>1, <4>2
    <3> QED BY <3>1, <3>2
  <2>6. Upto(g, m) BY <2>4, <2>5
  <2> HIDE DEF Upto
  <2> QED BY <2>6
<1>4. n \in T
  <2>1. n \in 0 .. n OBVIOUS
  <2> HIDE DEF T
  <2> QED BY <1>2, <1>3, <2>1, UpTo
<1>5. PICK f : Upto(f, n)
  <2> HIDE DEF Upto
  <2> QED BY <1>4
<1>6. Solves(f)
  <2>1. \A i \in 0 .. n : i = 0 \/ i \in 1 .. n OBVIOUS
  <2>2. \A i \in 0 .. n : f[i] = IF i = 0 THEN b ELSE NextByte(f[i - 1], read[i])
    BY <1>5, <2>1, Zenon
  <2>3. [i \in 0 .. n |-> f[i]]
          = [i \in 0 .. n |-> IF i = 0 THEN b ELSE NextByte(f[i - 1], read[i])]
    BY <2>2, Zenon
  <2> QED BY <2>3, <1>5, Zenon
<1>7. Solves(after)
  <2> HIDE DEF Solves
  <2> QED BY <1>6
<1> HIDE DEF after
<1>8. \A i \in 0 .. n : after[i] = IF i = 0 THEN b ELSE NextByte(after[i - 1], read[i])
  BY <1>7, Zenon
<1>9. 0 \in 0 .. n /\ \A i \in 1 .. n : i \in 0 .. n /\ i # 0 OBVIOUS
<1>10. after[0] = b /\ \A i \in 1 .. n : after[i] = NextByte(after[i - 1], read[i])
  BY <1>8, <1>9, Zenon
<1> QED BY <1>1, <1>10

(* After the last byte of a read *)
LEMMA BytewiseGood ==
  ASSUME NEW b, NEW read, Len(read) \in Nat, Good(b)
  PROVE  Good(Bytewise(b, read)[Len(read)])
<1> DEFINE n == Len(read)
           T == {i \in 0 .. n : Good(Bytewise(b, read)[i])}
<1>1. \A i \in 1 .. n : i \in 0 .. n /\ i - 1 \in 0 .. n OBVIOUS
<1>2. 0 \in T BY BytewiseUnfold
<1>3. ASSUME NEW i \in 1 .. n, i - 1 \in T PROVE i \in T
  BY <1>1, <1>3, BytewiseUnfold, NextByteGood
<1>4. n \in 0 .. n OBVIOUS
<1>5. \A i \in 0 .. n : i \in T
  <2> HIDE DEF T
  <2> QED BY <1>2, <1>3, UpTo
<1> QED BY <1>4, <1>5

(* The parser between two reads: nothing is open *)
Remembered == {"state", "header_state", "flags", "content_length", "nread", "http_errno"}
ParserGood(ps) ==
    /\ Remembered \subseteq DOMAIN ps
    /\ ps.http_errno # "assertion"
    /\ ps.http_errno = "OK" =>
         StateFine(ps) /\ HeaderFine(ps) /\ LengthFine(ps) /\ ChunkFine(ps, 0)

(* The end of http_parser_execute: at most one piece is open (assert,    *)
(* 9048), and it is handed over.                                         *)
LEMMA LeftOverGood ==
  ASSUME NEW w, Good(w), ~ w.stop, NEW n
  PROVE  LET v == [LeftOver(w) EXCEPT !.parsed = n]
         IN /\ Whole(v) /\ v.http_errno = "OK"
            /\ StateFine(v) /\ HeaderFine(v) /\ LengthFine(v) /\ ChunkFine(v, 0)
<1>1. Whole(w) /\ w.http_errno = "OK" /\ Sound(w, 0) BY DEF Good
<1>2. AtMostOneMark(w)
  BY <1>1 DEF AtMostOneMark, Sound, MarksFine, InUrl, UrlSchema, UrlRest, Query, InBody
<1> DEFINE last == Len(w.read)
           a == Callback(w, "header_field", last, OnHeaderField)
           b == Callback(a, "header_value", last, OnHeaderValue)
           c == Callback(b, "url", last, OnUrl)
           d == Callback(c, "body", last, OnBody)
<1>3. LeftOver(w) = d BY <1>2 DEF LeftOver, Asserted
<1> HIDE DEF last
<1>4. Same(a, w) BY <1>1, CallbackIs DEF Closed
<1> HIDE DEF a
<1>5. Same(b, a) BY <1>4, CallbackIs DEF Closed, Same
<1> HIDE DEF b
<1>6. Same(c, b) BY <1>5, CallbackIs DEF Closed, Same
<1> HIDE DEF c
<1>7. Same(d, c) BY <1>6, CallbackIs DEF Closed, Same
<1> HIDE DEF d
<1>8. Same(d, w) BY <1>4, <1>5, <1>6, <1>7 DEF Same
<1> DEFINE v == [d EXCEPT !.parsed = n]
<1>9. Same(v, w) BY <1>8 DEF Same, Whole, Core
<1> HIDE DEF v
<1>10. /\ Whole(v) /\ v.http_errno = "OK"
       /\ StateFine(v) /\ HeaderFine(v) /\ LengthFine(v) /\ ChunkFine(v, 0)
  BY <1>1, <1>9 DEF Same, Sound, StateFine, HeaderFine, LengthFine, ChunkFine
<1> QED BY <1>3, <1>10 DEF v

(* The marks of a new read are those of the state *)
LEMMA BeginGood ==
  ASSUME NEW ps, ParserGood(ps), NEW read, NEW b,
         b = [f \in DOMAIN ps \cup {"read", "p", "mark", "stop", "parsed"} |->
                    CASE f = "read"   -> read
                      [] f = "p"      -> 0
                      [] f = "mark"   -> Continued(ps.state)
                      [] f = "stop"   -> ps.http_errno # "OK"
                      [] f = "parsed" -> 0
                      [] OTHER        -> ps[f]]
  PROVE  Good(b)
<1>1. /\ Remembered \subseteq DOMAIN ps
      /\ {"read", "p", "mark", "stop", "parsed"} \cap Remembered = {}
  BY DEF ParserGood, Remembered
<1>2. Core \subseteq DOMAIN b BY <1>1 DEF Core, Remembered
<1>3. \A f \in Remembered : b[f] = ps[f] BY <1>1
<1>4. b.mark = Continued(ps.state) OBVIOUS
<1>5. b.stop <=> ps.http_errno # "OK" OBVIOUS
<1>6. /\ b.state = ps.state /\ b.header_state = ps.header_state /\ b.flags = ps.flags
      /\ b.content_length = ps.content_length /\ b.nread = ps.nread
      /\ b.http_errno = ps.http_errno
  BY <1>3 DEF Remembered
<1>7. Whole(b) /\ MarksFine(b)
  BY <1>2, <1>4, <1>6 DEF Whole, Pieces, Continued, MarksFine, InUrl
<1> QED BY <1>5, <1>6, <1>7 DEF Good, ParserGood, Sound, StateFine, States, Bound, HeaderFine,
           LengthFine, ChunkFine

(* feed: a read leaves the parser as the next one needs it. *)
LEMMA FeedGood ==
  ASSUME NEW ps, ParserGood(ps), NEW read, Len(read) \in Nat
  PROVE  ParserGood(Feed(ps, read).parser)
<1> DEFINE begin == [f \in DOMAIN ps \cup {"read", "p", "mark", "stop", "parsed"} |->
                    CASE f = "read"   -> read
                      [] f = "p"      -> 0
                      [] f = "mark"   -> Continued(ps.state)
                      [] f = "stop"   -> ps.http_errno # "OK"
                      [] f = "parsed" -> 0
                      [] OTHER        -> ps[f]]
           w == Bytewise(begin, read)[Len(read)]
           x == IF w.stop THEN w ELSE AtEnd(w)
<1>1. Execute(ps, read) = x
  <2> DEFINE S == {IF z.stop THEN z ELSE AtEnd(z) : z \in {w}}
  <2>1. Execute(ps, read) = CHOOSE r \in S : TRUE BY DEF Execute, Then
  <2>2. S = {x} OBVIOUS
  <2> HIDE DEF S, x
  <2> QED BY <2>1, <2>2
<1>2. Good(begin) BY BeginGood
<1> HIDE DEF begin
<1>3. Good(w) BY <1>2, BytewiseGood
<1> HIDE DEF w
<1> DEFINE Left(v) == /\ v.http_errno # "assertion"
                      /\ v.http_errno = "OK" =>
                           StateFine(v) /\ HeaderFine(v) /\ LengthFine(v) /\ ChunkFine(v, 0)
<1>4. Left(AtEnd(w))
  <2> DEFINE c == Counted(w)
             v == [LeftOver(c) EXCEPT !.parsed = Len(c.read)]
  <2>1. AtEnd(w) = IF c.stop THEN c ELSE v BY DEF AtEnd
  <2>2. Good(c) BY <1>3, CountedGood
  <2> HIDE DEF c
  <2>3. ~ c.stop => Left(v) BY <2>2, LeftOverGood
  <2>4. Left(c) BY <2>2 DEF Good, Sound
  <2> HIDE DEF v
  <2> QED BY <2>1, <2>3, <2>4
<1>5. Left(x) BY <1>3, <1>4 DEF Good, Sound
<1> HIDE DEF x
<1> DEFINE result == [parser |-> Kept(x), ok |-> x.http_errno = "OK" /\ x.parsed = Len(read)]
<1>6. Feed(ps, read).parser = Kept(x)
  <2> DEFINE S == {[parser |-> Kept(z), ok |-> z.http_errno = "OK" /\ z.parsed = Len(read)] :
                   z \in {Execute(ps, read)}}
  <2>1. Feed(ps, read) = CHOOSE r \in S : TRUE BY DEF Feed, Then
  <2>2. S = {result} BY <1>1
  <2> HIDE DEF S
  <2>3. Feed(ps, read) = result
    <3> HIDE DEF result
    <3> QED BY <2>1, <2>2
  <2> QED BY <2>3
<1>7. Remembered \subseteq DOMAIN Fresh BY DEF Remembered, Fresh
<1>8. DOMAIN Kept(x) = DOMAIN Fresh /\ \A f \in DOMAIN Fresh : Kept(x)[f] = x[f] BY DEF Kept
<1>9. \A f \in Remembered : Kept(x)[f] = x[f] BY <1>7, <1>8
<1> DEFINE y == Kept(x)
<1>10. /\ y.state = x.state /\ y.header_state = x.header_state /\ y.flags = x.flags
       /\ y.content_length = x.content_length /\ y.nread = x.nread
       /\ y.http_errno = x.http_errno
  BY <1>9 DEF Remembered
<1>11. Remembered \subseteq DOMAIN y BY <1>7, <1>8
<1> HIDE DEF y
<1>12. ParserGood(y)
  BY <1>5, <1>10, <1>11 DEF ParserGood, StateFine, HeaderFine, LengthFine, ChunkFine
<1> QED BY <1>6, <1>12 DEF y

(* done: the end of the input *)
LEMMA DoneGood ==
  ASSUME NEW ps, ParserGood(ps)
  PROVE  ParserGood(Done(ps))
<1>1. ParserGood([ps EXCEPT !.http_errno = "INVALID_EOF_STATE"])
  BY DEF ParserGood, Remembered
<1> QED BY <1>1 DEF Done

(* http_parser_init *)
LEMMA FreshGood == ParserGood(Fresh)
<1>1. /\ Fresh.state = "s_start_req" /\ Fresh.header_state = "h_general" /\ Fresh.flags = {}
      /\ Fresh.content_length = 0 /\ Fresh.nread = 0 /\ Fresh.http_errno = "OK"
  BY DEF Fresh
<1>2. Remembered \subseteq DOMAIN Fresh BY DEF Remembered, Fresh
<1> QED BY <1>1, <1>2 DEF ParserGood, StateFine, States, Free, HeaderFine, LengthFine,
           ChunkFine, InValue, InChunk, Sizing,
                          HeaderStates

-----------------------------------------------------------------------------
(* The connection *)

(* The inductive invariant: the parser is as the next read needs it. *)
WebInv == ParserGood(parser) /\ rest \in Seq(Byte) /\ client \in Clients

(* Between two reads the parser of a connection (crow_all.h:9182-9320) is  *)
(* in a state its switch knows, with the header state, the flags, the      *)
(* length and the count that state relies on.                              *)
THEOREM ParserAlwaysGood == Spec => []WebInv
<1> USE ClientsAssumption
<1>1. Init => WebInv BY FreshGood DEF Init, WebInv
<1>2. WebInv /\ [Next]_vars => WebInv'
  <2> SUFFICES ASSUME WebInv, [Next]_vars PROVE WebInv' OBVIOUS
  <2>1. ASSUME NEW n \in {k \in client.sizes \cup {Len(rest)} : k > 0}, Read(n) PROVE WebInv'
    <3>1. n \in Nat /\ n <= Len(rest) BY <2>1 DEF WebInv, Read
    <3>2. SubSeq(rest, 1, n) \in Seq(Byte) /\ SubSeq(rest, n + 1, Len(rest)) \in Seq(Byte)
      BY <3>1 DEF WebInv
    <3>3. Len(SubSeq(rest, 1, n)) \in Nat BY <3>2
    <3> DEFINE r == Feed(parser, SubSeq(rest, 1, n))
    <3>4. ParserGood(r.parser) BY <3>3, FeedGood DEF WebInv
    <3>5. parser' = r.parser \/ parser' = Done(r.parser) BY <2>1 DEF Read
    <3> HIDE DEF r
    <3>6. ParserGood(parser') BY <3>4, <3>5, DoneGood
    <3>7. rest' = SubSeq(rest, n + 1, Len(rest)) /\ client' = client BY <2>1 DEF Read
    <3>8. rest' \in Seq(Byte) /\ client' \in Clients BY <3>2, <3>7 DEF WebInv
    <3> QED BY <3>6, <3>8 DEF WebInv, ParserGood, StateFine, HeaderFine, LengthFine, ChunkFine
  <2>2. CASE WriteDone
    <3>1. UNCHANGED <<parser, rest, client>> BY <2>2 DEF WriteDone
    <3> QED BY <3>1 DEF WebInv, ParserGood, StateFine, HeaderFine, LengthFine, ChunkFine
  <2>3. CASE End
    <3>1. parser' = Done(parser) /\ rest' = rest /\ client' = client BY <2>3 DEF End
    <3>2. ParserGood(parser') BY <3>1, DoneGood DEF WebInv
    <3> QED BY <3>1, <3>2 DEF WebInv, ParserGood, StateFine, HeaderFine, LengthFine, ChunkFine
  <2>4. CASE UNCHANGED vars
    <3>1. UNCHANGED <<parser, rest, client>> BY <2>4 DEF vars
    <3> QED BY <3>1 DEF WebInv, ParserGood, StateFine, HeaderFine, LengthFine, ChunkFine
  <2> QED BY <2>1, <2>2, <2>3, <2>4 DEF Next
<1> QED BY <1>1, <1>2, PTL DEF Spec

(* None of the assertions of http_parser_execute (crow_all.h:8357-9048)    *)
(* fails, for every message of the clients, every cut of it into reads,    *)
(* every limit on the headers and every width of the content length.       *)
THEOREM NoAssertionFailsCorrect == Spec => []NoAssertionFails
<1>1. WebInv => NoAssertionFails BY DEF WebInv, ParserGood, NoAssertionFails
<1> QED BY <1>1, ParserAlwaysGood, PTL

=============================================================================
