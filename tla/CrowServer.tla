----------------------------- MODULE CrowServer -----------------------------
(***************************************************************************)
(* The HTTP server of the web client (crow_all.h): the acceptor, the       *)
(* connection objects with their reads, writes and deadline, and the task  *)
(* timer all connections of the one worker thread share.                   *)
(*                                                                         *)
(* The worker thread runs handlers from a queue, one at a time; the socket *)
(* layer appends to it what has completed.  What a read brought is         *)
(* abstracted to the calls the parser makes on the connection: handle for  *)
(* a complete request ("keep" or "close" as it asks for the connection),   *)
(* handle_header for a header with Expect: 100-continue ("expect"), a      *)
(* parse error or the end of the stream ("error").  Handlers of the web    *)
(* client answer before they return, so need_to_call_after_handlers_ is    *)
(* false when handle returns.                                              *)
(***************************************************************************)
EXTENDS Integers, Sequences, FiniteSets

CONSTANTS Conn,        \* memory for connection objects
          Contents,    \* what one read may bring: sequences of parser calls
          Timeout,     \* ticks a deadline lasts
          Garbage,     \* what a new object's uninitialised task_id_ may hold
          MaxAllocs,   \* bound: connections allocated
          MaxReads     \* bound: reads that bring data

ASSUME SizeAssumption ==
    /\ Timeout \in Nat /\ MaxAllocs \in Nat /\ MaxReads \in Nat
    /\ Garbage \subseteq Nat /\ Garbage # {}

Calls == {"keep", "close", "expect", "error"}

(* The deadline timer of the thread belongs to no connection.              *)
ASSUME ReadAssumption ==
    /\ Contents \subseteq Seq(Calls)
    /\ "none" \notin Conn

VARIABLES conn,     \* conn[c]: one object, see Fresh
          queue,    \* handlers the worker thread has yet to run
          timer,    \* task_timer: its tasks by identifier, and highest_id_
          length,   \* task_queue_length_pool_ of the worker thread
          used      \* allocations and reads so far

vars == <<conn, queue, timer, length, used>>

-----------------------------------------------------------------------------
(* A Connection object.  open: the socket; listening, flying: an           *)
(* async_read_some and the async_writes the socket layer has; peer: the    *)
(* client has not reset the connection; completed: of the response.        *)
(* History: overlapped, a write was started before the one before it       *)
(* ended; robbed, another object cancelled its deadline; stuck, a handler  *)
(* of it left with an exception; forgotten, its last handler left it       *)
(* undeleted; skipped, a request was not routed.                           *)
Fresh(id) ==
    [life |-> "accepting", open |-> TRUE, peer |-> TRUE, listening |-> FALSE,
     flying |-> 0, reading |-> FALSE, writing |-> FALSE, closing |-> FALSE,
     completed |-> FALSE, taskId |-> id, overlapped |-> FALSE,
     robbed |-> FALSE, stuck |-> FALSE, forgotten |-> FALSE, skipped |-> FALSE]

None == [Fresh(0) EXCEPT !.life = "none", !.open = FALSE]

Allocated(c) == conn[c].life \in {"accepting", "live"}
Posted(q, c) == {i \in DOMAIN q : q[i].of = c}

(* A step of the worker thread works on the whole state at once.           *)
World == [conn |-> conn, queue |-> queue, timer |-> timer, length |-> length]
Become(w) ==
    /\ conn' = w.conn
    /\ queue' = w.queue
    /\ timer' = w.timer
    /\ length' = w.length

(* What follows the step that leads to w.                                  *)
Then(w, Rest(_)) == CHOOSE r \in {Rest(v) : v \in {w}} : TRUE

Queued(kind, c, ok, bring) == [kind |-> kind, of |-> c, ok |-> ok, bring |-> bring]
Post(q, kind, c, ok, bring) == Append(q, Queued(kind, c, ok, bring))

-----------------------------------------------------------------------------
(* task_timer::cancel with the identifier object c holds.  Whoever has the *)
(* task under that identifier now loses it.                                *)
Cancel(w, c) ==
    LET erased == {t \in w.timer.tasks : t.id = w.conn[c].taskId}
        victims == {t.owner : t \in erased} \ {c}
        v == [w EXCEPT !.timer.tasks = @ \ erased]
    IN IF victims = {} THEN v
       ELSE [v EXCEPT !.conn[CHOOSE d \in victims : TRUE].robbed = TRUE]

Schedule(w, c) ==
    LET id == w.timer.highest + 1
    IN [w EXCEPT !.timer.highest = id,
                 !.timer.tasks = @ \cup {[id |-> id, owner |-> c, left |-> Timeout]},
                 !.conn[c].taskId = id]

(* start_deadline: cancel, then schedule under the next identifier.        *)
\* mutant: the task it had before stays
StartDeadline_NoCancel(w, c) == Schedule(w, c)
StartDeadline(w, c) == Then(Cancel(w, c), LAMBDA v : Schedule(v, c))

(* Closing the socket: what the socket layer still has ends with an error. *)
CloseSocket(w, c) ==
    LET k == w.conn[c]
        reads == IF k.listening
                 THEN Post(w.queue, "read", c, FALSE, <<>>) ELSE w.queue
        writes == [i \in 1 .. k.flying |-> Queued("write", c, FALSE, <<>>)]
    IN [w EXCEPT !.queue = IF k.open THEN reads \o writes ELSE @,
                 !.conn[c].open = FALSE,
                 !.conn[c].listening = IF k.open THEN FALSE ELSE @,
                 !.conn[c].flying = IF k.open THEN 0 ELSE @]

(* check_destroy, and the destructor, which cancels the deadline.          *)
Destroy(w, c) == [w EXCEPT !.length = @ - 1, !.conn[c].life = "gone"]

\* mutant: a write under way is not looked at
CheckDestroy_DespiteWrites(w, c) ==
    IF w.conn[c].reading THEN w ELSE Then(Cancel(w, c), LAMBDA v : Destroy(v, c))

CheckDestroy(w, c) ==
    IF w.conn[c].reading \/ w.conn[c].writing THEN w
    ELSE Then(Cancel(w, c), LAMBDA v : Destroy(v, c))

DoRead(w, c) ==
    IF w.conn[c].open
    THEN [w EXCEPT !.conn[c].reading = TRUE, !.conn[c].listening = TRUE]
    ELSE [w EXCEPT !.conn[c].reading = TRUE,
                   !.queue = Post(@, "read", c, FALSE, <<>>)]

StartWrite(w, c) ==
    IF w.conn[c].open THEN [w EXCEPT !.conn[c].flying = @ + 1]
    ELSE [w EXCEPT !.queue = Post(@, "write", c, FALSE, <<>>)]
DoWrite(w, c) ==
    Then([w EXCEPT !.conn[c].writing = TRUE,
                   !.conn[c].overlapped = @ \/ w.conn[c].writing],
         LAMBDA v : StartWrite(v, c))

(* handle: remote_endpoint throws when the socket is no longer connected,  *)
(* and the rest of the read handler is left out.  A response not yet       *)
(* cleared counts as completed: the request is answered without a route.   *)
Complete(w, c, closing) ==
    [w EXCEPT !.conn[c].closing = closing,
              !.conn[c].skipped = @ \/ w.conn[c].completed,
              !.conn[c].completed = TRUE]
Answer(w, c, closing) ==
    IF ~ w.conn[c].open \/ ~ w.conn[c].peer
    THEN [w EXCEPT !.conn[c].stuck = TRUE]
    ELSE Then(Complete(w, c, closing), LAMBDA v : DoWrite(v, c))
Handle(w, c, closing) == Then(Cancel(w, c), LAMBDA v : Answer(v, c, closing))

(* One call of the parser on the connection; none after an exception.      *)
ParserCall(w, c, call) ==
    CASE w.conn[c].stuck -> w
      [] ~ w.conn[c].stuck /\ call = "expect" -> DoWrite(w, c)
      [] ~ w.conn[c].stuck /\ call \in {"keep", "close"} -> Handle(w, c, call = "close")
      [] OTHER -> w

(* The calls the parser makes for what one read brought, in their order.   *)
AfterCalls(w, c, bring) ==
    LET after[i \in 0 .. Len(bring)] ==
            IF i = 0 THEN w ELSE ParserCall(after[i - 1], c, bring[i])
    IN after[Len(bring)]

(* do_read's completion handler.                                           *)
\* mutant: the deadline is not started again
GoOnReading_NoDeadline(w, c) == DoRead(w, c)
GoOnReading(w, c) == Then(StartDeadline(w, c), LAMBDA v : DoRead(v, c))

EndReading(w, c) ==
    Then([w EXCEPT !.conn[c].reading = FALSE], LAMBDA v : CheckDestroy(v, c))
BreakOff(w, c) == Then(Cancel(w, c), LAMBDA v : CloseSocket(v, c))

AfterRead(w, c, fine) ==
    LET k == w.conn[c] IN
    CASE k.stuck -> w
      [] ~ k.stuck /\ (~ fine \/ ~ k.open) ->
            Then(BreakOff(w, c), LAMBDA v : EndReading(v, c))
      [] ~ k.stuck /\ fine /\ k.open /\ k.closing ->
            Then(Cancel(w, c), LAMBDA v : EndReading(v, c))
      [] OTHER -> GoOnReading(w, c)

ReadHandler(w, c, ok, bring) ==
    LET failed == \E i \in DOMAIN bring : bring[i] = "error"
    IN Then(AfterCalls(w, c, bring), LAMBDA v : AfterRead(v, c, ok /\ ~ failed))

(* do_write's completion handler; it clears the response.                  *)
\* mutant: the response is not cleared
Written_NotCleared(k) == [k EXCEPT !.writing = FALSE]
Written(k) == [k EXCEPT !.writing = FALSE, !.completed = FALSE]

AfterWrite(w, c, ok) ==
    CASE ok /\ w.conn[c].closing ->
            Then(CloseSocket(w, c), LAMBDA v : CheckDestroy(v, c))
      [] ok /\ ~ w.conn[c].closing ->
            [w EXCEPT !.conn[c].forgotten = ~ w.conn[c].reading]
      [] OTHER -> CheckDestroy(w, c)
WriteHandler(w, c, ok) ==
    Then([w EXCEPT !.conn[c] = Written(@)], LAMBDA v : AfterWrite(v, c, ok))

NextHighest(kept, highest) == IF kept = {} THEN 0 ELSE highest

(* process_tasks: every expired task, in the order of the identifiers,     *)
(* closes the socket of its connection; when none is left, identifiers     *)
(* start again from 1.                                                     *)
CloseOwner(w, expired, id) ==
    IF \E t \in expired : t.id = id
    THEN CloseSocket(w, (CHOOSE t \in expired : t.id = id).owner) ELSE w
SocketsClosed(w, expired) ==
    LET upTo[id \in 0 .. w.timer.highest] ==
            IF id = 0 THEN w ELSE CloseOwner(upTo[id - 1], expired, id)
    IN upTo[w.timer.highest]

TickHandler(w) ==
    LET tasks == w.timer.tasks
        expired == {t \in tasks : t.left = 0}
        kept == {[t EXCEPT !.left = @ - 1] : t \in tasks \ expired}
        Erase(v) ==
            [v EXCEPT !.timer = [tasks |-> kept,
                                 highest |-> NextHighest(kept, @.highest),
                                 armed |-> TRUE]]
    IN Then(SocketsClosed(w, expired), Erase)

-----------------------------------------------------------------------------
(* The worker thread takes the next handler.  A handler of an object that  *)
(* has been deleted is dropped here: what it does then is undefined.       *)
Run ==
    /\ queue # <<>>
    /\ LET e == Head(queue)
           w == [World EXCEPT !.queue = Tail(queue)]
           dead == e.kind # "tick" /\ conn[e.of].life = "gone"
           result ==
               CASE dead -> w
                 [] ~ dead /\ e.kind = "start" ->
                      Then(StartDeadline(w, e.of), LAMBDA v : DoRead(v, e.of))
                 [] ~ dead /\ e.kind = "read" -> ReadHandler(w, e.of, e.ok, e.bring)
                 [] ~ dead /\ e.kind = "write" -> WriteHandler(w, e.of, e.ok)
                 [] OTHER -> TickHandler(w)
       IN \E v \in {result} : Become(v)
    /\ UNCHANGED used

(* The second of the deadline timer is over; it is armed again by the      *)
(* handler.                                                                *)
Tick ==
    /\ timer.armed
    /\ timer' = [timer EXCEPT !.armed = FALSE]
    /\ queue' = Post(queue, "tick", "none", TRUE, <<>>)
    /\ UNCHANGED <<conn, length, used>>

(* do_accept: a new object waits for the next client.                      *)
Allocate(c, id) ==
    /\ used.allocs < MaxAllocs
    /\ ~ \E d \in Conn : conn[d].life = "accepting"
    /\ conn[c].life = "none" \/ (conn[c].life = "gone" /\ Posted(queue, c) = {})
    /\ conn' = [conn EXCEPT ![c] = Fresh(id)]
    /\ length' = length + 1
    /\ used' = [used EXCEPT !.allocs = @ + 1]
    /\ UNCHANGED <<queue, timer>>

Accept(c) ==
    /\ conn[c].life = "accepting"
    /\ conn' = [conn EXCEPT ![c].life = "live"]
    /\ queue' = Post(queue, "start", c, TRUE, <<>>)
    /\ UNCHANGED <<timer, length, used>>

(* A failed accept: the object is deleted by the acceptor's thread.        *)
AcceptFails(c) ==
    /\ conn[c].life = "accepting"
    /\ \E w \in {Cancel(World, c)} :
          Become([w EXCEPT !.length = @ - 1, !.conn[c].life = "gone"])
    /\ UNCHANGED used

(* The socket layer and the client (external).                             *)
DataArrives(c, bring) ==
    /\ conn[c].listening /\ conn[c].peer
    /\ used.reads < MaxReads
    /\ used' = [used EXCEPT !.reads = @ + 1]
    /\ conn' = [conn EXCEPT ![c].listening = FALSE]
    /\ queue' = Post(queue, "read", c, TRUE, bring)
    /\ UNCHANGED <<timer, length>>

WriteDone(c) ==
    /\ conn[c].flying > 0
    /\ conn' = [conn EXCEPT ![c].flying = @ - 1]
    /\ queue' = Post(queue, "write", c, conn[c].peer, <<>>)
    /\ UNCHANGED <<timer, length, used>>

(* The client resets the connection.                                       *)
ClientResets(c) ==
    /\ conn[c].life = "live" /\ conn[c].open /\ conn[c].peer
    /\ conn' = [conn EXCEPT ![c].peer = FALSE, ![c].listening = FALSE]
    /\ queue' = IF conn[c].listening
                THEN Post(queue, "read", c, FALSE, <<>>) ELSE queue
    /\ UNCHANGED <<timer, length, used>>

-----------------------------------------------------------------------------
Init ==
    /\ conn = [c \in Conn |-> None]
    /\ queue = <<>>
    /\ timer = [tasks |-> {}, highest |-> 0, armed |-> TRUE]
    /\ length = 0
    /\ used = [allocs |-> 0, reads |-> 0]

Next ==
    \/ Run
    \/ Tick
    \/ \E c \in Conn :
          \/ \E id \in Garbage : Allocate(c, id)
          \/ Accept(c)
          \/ AcceptFails(c)
          \/ \E bring \in Contents : DataArrives(c, bring)
          \/ WriteDone(c)
          \/ ClientResets(c)

(* The thread keeps running handlers, seconds pass, and the socket layer   *)
(* ends every write, in success or failure.                                *)
Fairness ==
    /\ WF_vars(Run)
    /\ WF_vars(Tick)
    /\ \A c \in Conn : WF_vars(WriteDone(c))

Spec == Init /\ [][Next]_vars /\ Fairness

-----------------------------------------------------------------------------
(* A task of the timer captures its connection: it never outlives it, and  *)
(* its identifier is no other task's, so that only its owner finds it,     *)
(* and lies at or below highest_id_, so that the next one is free.         *)
TimersHaveOwners ==
    \A t \in timer.tasks :
        /\ conn[t.owner].life = "live"
        /\ t.id \in 1 .. timer.highest
        /\ \A u \in timer.tasks : t.id = u.id => t = u

(* A connection is deleted only when no handler of it is still to run,     *)
(* unless one of its writes was started while another was under way.       *)
OutlivesHandlers ==
    \A c \in Conn :
        conn[c].life = "gone" /\ ~ conn[c].overlapped =>
            Posted(queue, c) = {} /\ ~ conn[c].listening /\ conn[c].flying = 0

(* A connection that waits for its client has a deadline, unless another   *)
(* one cancelled it: identifiers are issued again once no task is left,    *)
(* while objects still hold, and cancel, old ones.                         *)
DeadlineKept ==
    \A c \in Conn :
        conn[c].listening /\ ~ conn[c].robbed =>
            \E t \in timer.tasks : t.owner = c

(* Every complete request is routed, unless it came before the response to *)
(* the one before it was written and cleared.                              *)
EveryRequestRouted == \A c \in Conn : conn[c].skipped => conn[c].overlapped

(* Every connection is given back in the end, whatever its client does,    *)
(* with three exceptions: another one cancelled its deadline; a request    *)
(* was handled when its socket had just been closed, by the deadline or by *)
(* the client; a response was written while the read that would have       *)
(* deleted the object failed.                                              *)
EventuallyReleased ==
    \A c \in Conn :
        conn[c].life = "live" ~>
            \/ conn[c].life # "live"
            \/ conn[c].robbed \/ conn[c].stuck \/ conn[c].forgotten
=============================================================================
