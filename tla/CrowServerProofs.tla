-------------------------- MODULE CrowServerProofs --------------------------
(***************************************************************************)
(* The four safety properties of the HTTP server, for any connections,     *)
(* contents of reads and timeouts.                                         *)
(*                                                                         *)
(* A step of the worker thread is a row of small operators on the whole    *)
(* state (World).  Each of them gets a lemma that says which object it     *)
(* touches and what it makes of that object's part of the invariant; the   *)
(* lemmas are then put together in the order of the handlers.  The part    *)
(* of an object (ObjectGood) counts its handlers still to run, its pending *)
(* operations and its deadline; TasksGood speaks of the timer.             *)
(***************************************************************************)
EXTENDS CrowServer, Induction, SequenceTheorems

USE SizeAssumption, ReadAssumption

(* The worker thread's whole state, as a set *)
Lives  == {"none", "accepting", "live", "gone"}
Object == [life : Lives, open : BOOLEAN, peer : BOOLEAN, listening : BOOLEAN,
           flying : Nat, reading : BOOLEAN, writing : BOOLEAN,
           closing : BOOLEAN, completed : BOOLEAN, taskId : Nat,
           overlapped : BOOLEAN, robbed : BOOLEAN, stuck : BOOLEAN,
           forgotten : BOOLEAN, skipped : BOOLEAN]
Entry  == [kind : {"start", "read", "write", "tick"}, of : Conn \cup {"none"},
           ok : BOOLEAN, bring : Seq(Calls)]
Task   == [id : Nat, owner : Conn, left : Nat]
Worlds == [conn : [Conn -> Object], queue : Seq(Entry),
           timer : [tasks : SUBSET Task, highest : Nat, armed : BOOLEAN],
           length : Int]

TypeOK == World \in Worlds

(* Every task belongs to a live object that knows its identifier *)
TasksGood(w) ==
    \A t \in w.timer.tasks :
        /\ w.conn[t.owner].life = "live"
        /\ w.conn[t.owner].taskId = t.id
        /\ t.id \in 1 .. w.timer.highest
        /\ \A u \in w.timer.tasks : t.id = u.id => t = u

(* The handlers of d still to run, of one kind *)
Waiting(q, d, kind) == {i \in DOMAIN q : q[i].of = d /\ q[i].kind = kind}
AtMostOne(S) == \A i, j \in S : i = j
NoneWaiting(q, d) == \A i \in DOMAIN q : q[i].of # d
Quiet(q, k, d) == NoneWaiting(q, d) /\ ~ k.listening /\ k.flying = 0

HasTask(w, d) == \E t \in w.timer.tasks : t.owner = d

StartGood(q, k, d) ==
    \A i \in Waiting(q, d, "start") :
        /\ \A j \in DOMAIN q : q[j].of = d => j = i
        /\ ~ k.listening /\ k.flying = 0
ReadGood(q, k, d) ==
    /\ AtMostOne(Waiting(q, d, "read"))
    /\ Waiting(q, d, "read") # {} => k.reading /\ ~ k.listening
    /\ k.listening => k.reading /\ k.open /\ k.life = "live"
WriteGood(q, k, d) ==
    ~ k.overlapped =>
        /\ AtMostOne(Waiting(q, d, "write"))
        /\ Waiting(q, d, "write") # {} => k.writing /\ k.flying = 0
        /\ k.flying > 0 => k.writing /\ k.flying = 1
LifeGood(q, k, d) ==
    \/ k.life = "live"
    \/ k.life = "gone" /\ k.overlapped
    \/ Quiet(q, k, d)
Handlers(q, k, d) ==
    StartGood(q, k, d) /\ ReadGood(q, k, d) /\ WriteGood(q, k, d) /\ LifeGood(q, k, d)
FlagsGood(k) == (k.completed => k.writing) /\ (k.skipped => k.overlapped)
Watched(w, d) == w.conn[d].listening /\ ~ w.conn[d].robbed => HasTask(w, d)

ObjectGood(w, d) ==
    Handlers(w.queue, w.conn[d], d) /\ FlagsGood(w.conn[d]) /\ Watched(w, d)
TicksGood(w) == \A i \in DOMAIN w.queue : w.queue[i].kind = "tick" <=> w.queue[i].of = "none"

Good(w) == TasksGood(w) /\ TicksGood(w) /\ \A d \in Conn : ObjectGood(w, d)
Inv == Good(World)

-----------------------------------------------------------------------------
(* What a step does for one object, part after part *)
LEMMA StepsInOrder ==
  ASSUME NEW w, NEW c
  PROVE  /\ StartDeadline(w, c) = Schedule(Cancel(w, c), c)
         /\ GoOnReading(w, c) = DoRead(StartDeadline(w, c), c)
         /\ BreakOff(w, c) = CloseSocket(Cancel(w, c), c)
         /\ EndReading(w, c) = CheckDestroy([w EXCEPT !.conn[c].reading = FALSE], c)
         /\ DoWrite(w, c) = StartWrite([w EXCEPT !.conn[c].writing = TRUE,
                              !.conn[c].overlapped = @ \/ w.conn[c].writing], c)
BY DEF StartDeadline, GoOnReading, BreakOff, EndReading, DoWrite, Then

(* A queue that grows by handlers of c only *)
GrowsBy(q, r, c) ==
    /\ DOMAIN q \subseteq DOMAIN r
    /\ \A i \in DOMAIN q : r[i] = q[i]
    /\ \A i \in DOMAIN r \ DOMAIN q : r[i].of = c /\ r[i].kind # "tick"

(* or, of those of d, by none *)
Spares(q, r, d) ==
    /\ DOMAIN q \subseteq DOMAIN r
    /\ \A i \in DOMAIN q : r[i] = q[i]
    /\ \A i \in DOMAIN r \ DOMAIN q : r[i].of # d

LEMMA OthersWaiting ==
  ASSUME NEW q, NEW r, NEW d, Spares(q, r, d), NEW k, Handlers(q, k, d)
  PROVE  Handlers(r, k, d)
<1>1. \A kind : Waiting(r, d, kind) = Waiting(q, d, kind) BY DEF Waiting, Spares
<1>2. NoneWaiting(q, d) => NoneWaiting(r, d) BY DEF NoneWaiting, Spares
<1>3. StartGood(r, k, d) BY <1>1 DEF Handlers, StartGood, Spares
<1>4. ReadGood(r, k, d) /\ WriteGood(r, k, d) BY <1>1 DEF Handlers, ReadGood, WriteGood
<1>5. LifeGood(r, k, d) BY <1>2 DEF Handlers, LifeGood, Quiet
<1> QED BY <1>3, <1>4, <1>5 DEF Handlers

(* A step that touches object c only, and not its deadline *)
Touches(w, v, c) ==
    /\ v \in Worlds /\ v.timer = w.timer
    /\ \A d \in Conn \ {c} : v.conn[d] = w.conn[d]
    /\ v.conn[c].life = w.conn[c].life /\ v.conn[c].taskId = w.conn[c].taskId
    /\ GrowsBy(w.queue, v.queue, c)

LEMMA TouchesGood ==
  ASSUME NEW w \in Worlds, NEW v, NEW c \in Conn, Good(w), Touches(w, v, c), ObjectGood(v, c)
  PROVE  Good(v)
<1>1. TasksGood(v)
  <2>1. \A d \in Conn : v.conn[d].life = w.conn[d].life /\ v.conn[d].taskId = w.conn[d].taskId
    BY DEF Touches
  <2>2. \A t \in w.timer.tasks : t.owner \in Conn BY DEF Worlds, Task
  <2> QED BY <2>1, <2>2 DEF Good, TasksGood, Touches
<1>2. TicksGood(v) BY DEF Good, TicksGood, Touches, GrowsBy
<1>3. ASSUME NEW d \in Conn, d # c PROVE ObjectGood(v, d)
  <2>1. v.conn[d] = w.conn[d] /\ v.timer = w.timer BY <1>3 DEF Touches
  <2>2. Spares(w.queue, v.queue, d) BY <1>3 DEF Touches, GrowsBy, Spares
  <2>3. Handlers(v.queue, v.conn[d], d)
    BY <2>1, <2>2, OthersWaiting DEF Good, ObjectGood
  <2> QED BY <2>1, <2>3 DEF Good, ObjectGood, Watched, HasTask
<1> QED BY <1>1, <1>2, <1>3 DEF Good

(* Posting a handler grows the queue *)
Posts(q, r, kind, c) ==
    /\ r \in Seq(Entry) /\ GrowsBy(q, r, c)
    /\ \A i \in DOMAIN r : i \in DOMAIN q \/ (i = Len(q) + 1 /\ r[i].kind = kind)
LEMMA AppendPosts ==
  ASSUME NEW q \in Seq(Entry), NEW c \in Conn, NEW e \in Entry, e.of = c, e.kind # "tick"
  PROVE  Posts(q, Append(q, e), e.kind, c)
<1>1. DOMAIN q = 1 .. Len(q) /\ Len(q) \in Nat OBVIOUS
<1>2. /\ Append(q, e) \in Seq(Entry) /\ DOMAIN Append(q, e) = 1 .. Len(q) + 1
      /\ \A i \in 1 .. Len(q) : Append(q, e)[i] = q[i]
      /\ Append(q, e)[Len(q) + 1] = e
  BY <1>1
<1>3. 1 .. Len(q) + 1 = 1 .. Len(q) \cup {Len(q) + 1} BY <1>1
<1>4. GrowsBy(q, Append(q, e), c) BY <1>1, <1>2, <1>3 DEF GrowsBy
<1> QED BY <1>1, <1>2, <1>3, <1>4 DEF Posts

LEMMA FailurePosts ==
  ASSUME NEW q \in Seq(Entry), NEW c \in Conn, NEW kind \in {"read", "write"}
  PROVE  Posts(q, Post(q, kind, c, FALSE, <<>>), kind, c)
<1> DEFINE e == Queued(kind, c, FALSE, <<>>)
<1>1. e \in Entry /\ e.of = c /\ e.kind = kind BY DEF Queued, Entry
<1> HIDE DEF e
<1>2. Posts(q, Append(q, e), e.kind, c) BY <1>1, AppendPosts
<1> QED BY <1>1, <1>2 DEF Post, e

(* The world with another object at c, and another queue *)
With(w, c, k, q) == [w EXCEPT !.conn = [w.conn EXCEPT ![c] = k], !.queue = q]
LEMMA WithIs ==
  ASSUME NEW w \in Worlds, NEW c \in Conn, NEW k \in Object, NEW q \in Seq(Entry)
  PROVE  /\ With(w, c, k, q) \in Worlds /\ With(w, c, k, q).timer = w.timer
         /\ With(w, c, k, q).queue = q /\ With(w, c, k, q).conn[c] = k
         /\ \A d \in Conn \ {c} : With(w, c, k, q).conn[d] = w.conn[d]
BY DEF Worlds, With

LEMMA ObjectOf == ASSUME NEW w \in Worlds, NEW c \in Conn
                  PROVE  w.conn[c] \in Object /\ w.queue \in Seq(Entry)
BY DEF Worlds

LEMMA Still == ASSUME NEW q, NEW c PROVE GrowsBy(q, q, c)
BY DEF GrowsBy

(* No start and no read of c is to run, nor will the socket end one *)
Settled(w, c) ==
    /\ w.conn[c].life = "live" /\ ~ w.conn[c].listening
    /\ Waiting(w.queue, c, "start") = {} /\ Waiting(w.queue, c, "read") = {}

LEMMA DoReadGood ==
  ASSUME NEW w \in Worlds, NEW c \in Conn, Good(w), Settled(w, c),
         w.conn[c].robbed \/ HasTask(w, c)
  PROVE  DoRead(w, c) \in Worlds /\ Good(DoRead(w, c))
<1> DEFINE v == DoRead(w, c)
           k == w.conn[c]
<1>1. k \in Object /\ w.queue \in Seq(Entry) BY ObjectOf
<1>2. ObjectGood(w, c) BY DEF Good
<1>3. CASE k.open
  <2> DEFINE l == [k EXCEPT !.reading = TRUE, !.listening = TRUE]
  <2>1. l \in Object BY <1>1 DEF Object
  <2>2. v = With(w, c, l, w.queue)
    BY <1>3 DEF DoRead, Worlds, With
  <2>3. /\ l.reading /\ l.listening /\ l.open /\ l.life = "live" /\ l.taskId = k.taskId
        /\ l.flying = k.flying /\ l.writing = k.writing /\ l.overlapped = k.overlapped
        /\ l.completed = k.completed /\ l.skipped = k.skipped /\ l.robbed = k.robbed
    BY <1>1, <1>3 DEF Object, Settled
  <2> HIDE DEF l, v
  <2>4. /\ v \in Worlds /\ v.timer = w.timer /\ v.queue = w.queue /\ v.conn[c] = l
        /\ \A d \in Conn \ {c} : v.conn[d] = w.conn[d]
    BY <1>1, <2>1, <2>2, WithIs
  <2>5. Touches(w, v, c) BY <2>3, <2>4, Still DEF Touches, Settled
  <2>6. Handlers(w.queue, l, c)
    BY <1>2, <2>3 DEF ObjectGood, Handlers, StartGood, ReadGood, WriteGood, LifeGood, Settled,
                      AtMostOne
  <2>7. ObjectGood(v, c)
    BY <1>2, <2>3, <2>4, <2>6 DEF ObjectGood, FlagsGood, Watched, HasTask
  <2> QED BY <2>4, <2>5, <2>7, TouchesGood DEF v
<1>4. CASE ~ k.open
  <2> DEFINE l == [k EXCEPT !.reading = TRUE]
             r == Post(w.queue, "read", c, FALSE, <<>>)
  <2>1. l \in Object BY <1>1 DEF Object
  <2>2. v = With(w, c, l, r)
    BY <1>4 DEF DoRead, Worlds, With
  <2>3. /\ l.reading /\ ~ l.listening /\ l.life = "live" /\ l.taskId = k.taskId
        /\ l.flying = k.flying /\ l.writing = k.writing /\ l.overlapped = k.overlapped
        /\ l.completed = k.completed /\ l.skipped = k.skipped
    BY <1>1, <1>4 DEF Object, Settled
  <2>4. Posts(w.queue, r, "read", c) BY <1>1, FailurePosts
  <2>5. r \in Seq(Entry) /\ GrowsBy(w.queue, r, c) BY <2>4 DEF Posts
  <2> HIDE DEF l, v, r
  <2>6. /\ v \in Worlds /\ v.timer = w.timer /\ v.queue = r /\ v.conn[c] = l
        /\ \A d \in Conn \ {c} : v.conn[d] = w.conn[d]
    BY <1>1, <2>1, <2>2, <2>5, WithIs
  <2>7. Touches(w, v, c) BY <2>3, <2>5, <2>6 DEF Touches, Settled
  <2>8. /\ Waiting(r, c, "start") = {} /\ Waiting(r, c, "write") = Waiting(w.queue, c, "write")
        /\ AtMostOne(Waiting(r, c, "read"))
    BY <2>4 DEF Waiting, Posts, Settled, GrowsBy, AtMostOne
  <2>9. Handlers(r, l, c)
    BY <1>2, <2>3, <2>8 DEF ObjectGood, Handlers, StartGood, ReadGood, WriteGood, LifeGood, Settled,
                      AtMostOne
  <2>10. ObjectGood(v, c)
    BY <1>2, <2>3, <2>6, <2>9 DEF ObjectGood, FlagsGood, Watched
  <2> QED BY <2>6, <2>7, <2>10, TouchesGood DEF v
<1> QED BY <1>3, <1>4

(* A write that starts while another one is under way makes c overlapped,  *)
(* so that the handlers of c stay as they must be.  u differs from w in    *)
(* flags of c that Complete sets before the write starts.                  *)
LEMMA DoWriteGood ==
  ASSUME NEW w \in Worlds, NEW u \in Worlds, NEW c \in Conn, Good(w), Settled(w, c),
         Touches(w, u, c), u.queue = w.queue, Handlers(u.queue, u.conn[c], c),
         ~ u.conn[c].listening,
         u.conn[c].skipped => u.conn[c].overlapped \/ u.conn[c].writing
  PROVE  /\ DoWrite(u, c) \in Worlds /\ Good(DoWrite(u, c)) /\ Settled(DoWrite(u, c), c)
         /\ DoWrite(u, c).conn[c].reading = u.conn[c].reading
<1> DEFINE v == DoWrite(u, c)
           k == u.conn[c]
           m == [u EXCEPT !.conn[c].writing = TRUE, !.conn[c].overlapped = @ \/ u.conn[c].writing]
           f == IF k.open THEN k.flying + 1 ELSE k.flying
           o == k.overlapped \/ k.writing
           l == [k EXCEPT !.writing = TRUE, !.overlapped = o, !.flying = f]
           r == IF k.open THEN u.queue ELSE Post(u.queue, "write", c, FALSE, <<>>)
<1>1. k \in Object /\ u.queue \in Seq(Entry) BY ObjectOf
<1>2. f \in Nat
  <2>1. k.flying \in Nat BY <1>1 DEF Object
  <2>2. CASE k.open BY <2>1, <2>2
  <2>3. CASE ~ k.open BY <2>1, <2>3
  <2> QED BY <2>2, <2>3
<1>3. l \in Object
  <2>1. o \in BOOLEAN OBVIOUS
  <2> HIDE DEF f, k, o
  <2> QED BY <1>1, <1>2, <2>1 DEF Object
<1>4. v = With(u, c, l, r)
  <2> DEFINE n == [k EXCEPT !.writing = TRUE, !.overlapped = o]
  <2>1. v = StartWrite(m, c) BY StepsInOrder
  <2>2. m = [u EXCEPT !.conn = [u.conn EXCEPT ![c] = n]]
    <3> HIDE DEF o
    <3>1. m = [u EXCEPT !.conn[c].writing = TRUE, !.conn[c].overlapped = o] BY DEF o
    <3> HIDE DEF m
    <3> QED BY <3>1 DEF Worlds, Object
  <2>3. n.open = k.open /\ n.flying = k.flying /\ l = [n EXCEPT !.flying = f]
    <3> HIDE DEF o, k, f
    <3> QED BY <1>1 DEF Object
  <2> HIDE DEF m, n, l
  <2>4. m.conn[c] = n /\ m.queue = u.queue BY <2>2 DEF Worlds
  <2>5. CASE k.open
    <3>1. v = [m EXCEPT !.conn[c].flying = f] BY <2>1, <2>3, <2>4, <2>5 DEF StartWrite
    <3>2. r = u.queue BY <2>5
    <3> HIDE DEF f, r, v
    <3>3. v = [u EXCEPT !.conn = [u.conn EXCEPT ![c] = [n EXCEPT !.flying = f]]]
      BY <2>2, <3>1 DEF Worlds
    <3> QED BY <2>3, <3>2, <3>3 DEF With, Worlds
  <2>6. CASE ~ k.open
    <3>1. v = [m EXCEPT !.queue = Post(@, "write", c, FALSE, <<>>)]
      BY <2>1, <2>3, <2>4, <2>6 DEF StartWrite
    <3>2. f = k.flying /\ r = Post(u.queue, "write", c, FALSE, <<>>) BY <2>6
    <3>3. l = n
      <4> HIDE DEF f, o, k
      <4> QED BY <1>1, <2>3, <3>2 DEF Object, n
    <3> HIDE DEF f, r, v
    <3> QED BY <2>2, <2>4, <3>1, <3>2, <3>3 DEF With, Worlds
  <2> QED BY <2>5, <2>6
<1>5. /\ l.listening = k.listening /\ l.reading = k.reading /\ l.open = k.open
      /\ l.life = k.life /\ l.taskId = k.taskId /\ l.writing
      /\ l.overlapped = (k.overlapped \/ k.writing) /\ l.robbed = k.robbed
      /\ l.flying = f /\ l.completed = k.completed /\ l.skipped = k.skipped
  BY <1>1 DEF Object
<1>6. k.flying \in Nat /\ k.life = "live" /\ ~ k.listening
  BY <1>1 DEF Object, Touches, Settled
<1>7. r \in Seq(Entry) /\ GrowsBy(u.queue, r, c) /\ (k.open => r = u.queue)
      /\ (~ k.open => Posts(u.queue, r, "write", c))
  <2>1. CASE k.open BY <2>1, <1>1, Still
  <2>2. CASE ~ k.open
    <3>1. Posts(u.queue, r, "write", c) BY <2>2, <1>1, FailurePosts
    <3> QED BY <2>2, <3>1 DEF Posts
  <2> QED BY <2>1, <2>2
<1> HIDE DEF l, v, r
<1>8. /\ v \in Worlds /\ v.timer = u.timer /\ v.queue = r /\ v.conn[c] = l
      /\ \A d \in Conn \ {c} : v.conn[d] = u.conn[d]
  BY <1>1, <1>3, <1>4, <1>7, WithIs
<1>9. Touches(w, v, c) BY <1>5, <1>7, <1>8 DEF Touches
<1>10. /\ Waiting(r, c, "start") = {} /\ Waiting(r, c, "read") = {}
       /\ k.open => Waiting(r, c, "write") = Waiting(u.queue, c, "write")
       /\ Waiting(u.queue, c, "write") = {} => AtMostOne(Waiting(r, c, "write"))
  <2>1. CASE k.open BY <2>1, <1>7 DEF Settled, AtMostOne
  <2>2. CASE ~ k.open
     BY <2>2, <1>7 DEF Waiting, Posts, Settled, GrowsBy, AtMostOne
  <2> QED BY <2>1, <2>2
<1>11. Handlers(r, l, c)
  <2>1. StartGood(r, l, c) /\ ReadGood(r, l, c)
    BY <1>5, <1>6, <1>10 DEF StartGood, ReadGood, AtMostOne
  <2>2. LifeGood(r, l, c) BY <1>5, <1>6 DEF LifeGood
  <2>3. WriteGood(r, l, c)
    <3>1. CASE k.writing \/ k.overlapped BY <3>1, <1>5 DEF WriteGood
    <3>2. CASE ~ k.writing /\ ~ k.overlapped
      <4>1. Waiting(u.queue, c, "write") = {} /\ k.flying = 0
        BY <3>2, <1>6 DEF Handlers, WriteGood
      <4> QED BY <3>2, <4>1, <1>5, <1>10 DEF WriteGood, AtMostOne
    <3> QED BY <3>1, <3>2
  <2> QED BY <2>1, <2>2, <2>3 DEF Handlers
<1>12. ObjectGood(v, c)
  BY <1>5, <1>6, <1>8, <1>11 DEF ObjectGood, FlagsGood, Watched
<1>13. Settled(v, c) BY <1>5, <1>6, <1>8, <1>10 DEF Settled
<1> QED BY <1>5, <1>8, <1>9, <1>12, <1>13, TouchesGood DEF v

(* The same handler several times *)
Copies(n, e) == [i \in 1 .. n |-> e]
LEMMA ConcatPosts ==
  ASSUME NEW q \in Seq(Entry), NEW c \in Conn, NEW n \in Nat, NEW e \in Entry,
         e.of = c, e.kind = "write"
  PROVE  LET r == q \o Copies(n, e) IN
         /\ r \in Seq(Entry) /\ GrowsBy(q, r, c)
         /\ \A i \in DOMAIN r : i \in DOMAIN q
               \/ (n > 0 /\ i > Len(q) /\ i <= Len(q) + n /\ r[i].kind = "write")
<1> DEFINE s == Copies(n, e)
           r == q \o s
<1>1. s \in Seq(Entry) /\ Len(s) = n BY DEF Copies
<1>2. \A i \in 1 .. n : s[i] = e BY DEF Copies
<1> HIDE DEF s
<1>3. /\ r \in Seq(Entry) /\ Len(r) = Len(q) + n /\ Len(q) \in Nat
      /\ DOMAIN r = 1 .. Len(q) + n /\ DOMAIN q = 1 .. Len(q)
      /\ \A i \in 1 .. Len(q) + n : r[i] = IF i <= Len(q) THEN q[i] ELSE s[i - Len(q)]
  BY <1>1
<1> HIDE DEF r
<1>4. ASSUME NEW i \in DOMAIN r, i \notin DOMAIN q
      PROVE  r[i] = e /\ n > 0 /\ i > Len(q) /\ i <= Len(q) + n
  <2>1. i > Len(q) /\ i <= Len(q) + n /\ i \in Nat BY <1>3, <1>4
  <2>2. i - Len(q) \in 1 .. n BY <2>1, <1>3
  <2> QED BY <2>1, <2>2, <1>2, <1>3
<1>5. DOMAIN q \subseteq DOMAIN r /\ \A i \in DOMAIN q : r[i] = q[i] BY <1>3
<1>6. GrowsBy(q, r, c) BY <1>4, <1>5 DEF GrowsBy
<1> QED BY <1>3, <1>4, <1>6 DEF r, s

(* Closing the socket hands its read and its writes to the queue. *)
LEMMA CloseGood ==
  ASSUME NEW w \in Worlds, NEW c \in Conn, Good(w), w.conn[c].life = "live"
  PROVE  /\ CloseSocket(w, c) \in Worlds /\ Good(CloseSocket(w, c))
         /\ Touches(w, CloseSocket(w, c), c) /\ ~ CloseSocket(w, c).conn[c].listening
         /\ Waiting(w.queue, c, "start") = {} =>
               Waiting(CloseSocket(w, c).queue, c, "start") = {}
         /\ Settled(w, c) => Settled(CloseSocket(w, c), c)
<1> DEFINE v == CloseSocket(w, c)
           k == w.conn[c]
           q == w.queue
           p == IF k.listening THEN Post(q, "read", c, FALSE, <<>>) ELSE q
           e == Queued("write", c, FALSE, <<>>)
           s == p \o Copies(k.flying, e)
           r == IF k.open THEN s ELSE q
           f == IF k.open THEN 0 ELSE k.flying
           h == IF k.open THEN FALSE ELSE k.listening
           l == [k EXCEPT !.open = FALSE, !.listening = h, !.flying = f]
<1>1. k \in Object /\ q \in Seq(Entry) BY ObjectOf
<1>2. k.flying \in Nat /\ k.listening \in BOOLEAN BY <1>1 DEF Object
<1>3. Handlers(q, k, c) /\ FlagsGood(k) BY DEF Good, ObjectGood
<1>4. k.listening => k.open /\ k.reading /\ Waiting(q, c, "read") = {}
  BY <1>3 DEF Handlers, ReadGood
<1>5. h = FALSE /\ k.life = "live" BY <1>2, <1>4
<1>6. f \in Nat BY <1>2
<1>7. l \in Object
  <2> HIDE DEF f, k, h
  <2> QED BY <1>1, <1>5, <1>6 DEF Object
<1>8. v = With(w, c, l, r)
  <2>1. CASE k.open
    <3>1. v = [w EXCEPT !.queue = s, !.conn[c].open = FALSE, !.conn[c].listening = FALSE,
                        !.conn[c].flying = 0]
      BY <2>1 DEF CloseSocket, Copies
    <3>2. r = s /\ f = 0 /\ h = FALSE BY <2>1, <1>5
    <3> HIDE DEF r, s, f, h, v
    <3> QED BY <3>1, <3>2 DEF With, Worlds, Object
  <2>2. CASE ~ k.open
    <3>1. v = [w EXCEPT !.queue = @, !.conn[c].open = FALSE, !.conn[c].listening = @,
                        !.conn[c].flying = @]
      BY <2>2 DEF CloseSocket
    <3>2. r = q /\ f = k.flying /\ h = k.listening BY <2>2
    <3> HIDE DEF r, f, h, v
    <3> QED BY <3>1, <3>2 DEF With, Worlds, Object
  <2> QED BY <2>1, <2>2
<1>9. /\ l.life = k.life /\ k.life = "live" /\ l.taskId = k.taskId /\ ~ l.listening /\ l.flying = f
      /\ l.reading = k.reading /\ l.writing = k.writing /\ l.overlapped = k.overlapped
      /\ l.completed = k.completed /\ l.skipped = k.skipped
  <2> HIDE DEF f, k, h
  <2> QED BY <1>1, <1>5 DEF Object
<1>10. /\ p \in Seq(Entry) /\ GrowsBy(q, p, c)
       /\ \A i \in DOMAIN p : i \in DOMAIN q
             \/ (k.listening /\ i = Len(q) + 1 /\ p[i].kind = "read")
  <2>1. CASE k.listening
    <3>1. Posts(q, p, "read", c) BY <2>1, <1>1, FailurePosts
    <3> QED BY <2>1, <3>1 DEF Posts
  <2>2. CASE ~ k.listening
    <3>1. p = q BY <2>2
    <3> HIDE DEF p, q
    <3> QED BY <1>1, <3>1, Still
  <2> QED BY <2>1, <2>2
<1>11. /\ s \in Seq(Entry) /\ GrowsBy(p, s, c)
       /\ \A i \in DOMAIN s : i \in DOMAIN p
            \/ (k.flying > 0 /\ i > Len(p) /\ i <= Len(p) + k.flying /\ s[i].kind = "write")
  <2>1. e \in Entry /\ e.of = c /\ e.kind = "write" BY DEF Queued, Entry
  <2> HIDE DEF p, e, k
  <2> QED BY <1>2, <1>10, <2>1, ConcatPosts
<1>12. GrowsBy(q, s, c)
  <2> HIDE DEF p, s, q
  <2> QED BY <1>10, <1>11 DEF GrowsBy
<1>13. r \in Seq(Entry) /\ GrowsBy(q, r, c)
  <2> HIDE DEF s, q, k
  <2> QED BY <1>1, <1>11, <1>12, Still
<1> HIDE DEF v, l
<1>14. /\ v \in Worlds /\ v.timer = w.timer /\ v.queue = r /\ v.conn[c] = l
       /\ \A d \in Conn \ {c} : v.conn[d] = w.conn[d]
  <2> HIDE DEF r
  <2> QED BY <1>7, <1>8, <1>13, WithIs
<1>15. Touches(w, v, c) BY <1>9, <1>13, <1>14 DEF Touches
<1>16. /\ Waiting(s, c, "start") = Waiting(q, c, "start")
       /\ ~ k.listening => Waiting(s, c, "read") = Waiting(q, c, "read")
       /\ k.listening => AtMostOne(Waiting(s, c, "read"))
  <2> HIDE DEF p, s, q, k
  <2>1. \A i \in DOMAIN s : i \in DOMAIN q \/ (s[i].kind = "write") 
          \/ (k.listening /\ i = Len(q) + 1 /\ s[i].kind = "read")
    BY <1>10, <1>11 DEF GrowsBy
  <2>2. \A i \in DOMAIN q : i \in DOMAIN s /\ s[i] = q[i] BY <1>12 DEF GrowsBy
  <2> QED BY <1>4, <2>1, <2>2 DEF Waiting, AtMostOne
<1>17. /\ k.flying = 0 => Waiting(s, c, "write") = Waiting(q, c, "write")
       /\ k.flying = 1 /\ Waiting(q, c, "write") = {} => AtMostOne(Waiting(s, c, "write"))
  <2> HIDE DEF p, s, q, k
  <2>1. \A i \in DOMAIN s : i \in DOMAIN q \/ s[i].kind = "read"
          \/ (k.flying > 0 /\ i > Len(p) /\ i <= Len(p) + k.flying /\ s[i].kind = "write")
    BY <1>10, <1>11 DEF GrowsBy
  <2>2. \A i \in DOMAIN q : i \in DOMAIN s /\ s[i] = q[i] BY <1>12 DEF GrowsBy
  <2>3. Len(p) \in Nat /\ \A i \in DOMAIN s : i \in Nat BY <1>10, <1>11
  <2>4. CASE k.flying = 0 BY <2>1, <2>2, <2>4 DEF Waiting
  <2>5. ASSUME k.flying = 1, Waiting(q, c, "write") = {} PROVE AtMostOne(Waiting(s, c, "write"))
    <3>1. \A i \in Waiting(s, c, "write") : i = Len(p) + 1 
      BY <2>1, <2>2, <2>3, <2>5 DEF Waiting
    <3> QED BY <3>1 DEF AtMostOne
  <2> QED BY <2>4, <2>5
<1>18. Handlers(r, l, c)
  <2>1. CASE ~ k.open
    <3>1. r = q /\ ~ k.listening /\ f = k.flying BY <2>1, <1>4
    <3> HIDE DEF q, k, f, r
    <3> QED BY <1>3, <1>9, <3>1 DEF Handlers, StartGood, ReadGood, WriteGood, LifeGood
  <2>2. CASE k.open
    <3>1. r = s /\ f = 0 BY <2>2
    <3> HIDE DEF q, k, f, r, s
    <3>2. LifeGood(s, l, c) BY <1>9 DEF LifeGood, k
    <3>3. ReadGood(s, l, c) BY <1>3, <1>4, <1>9, <1>16 DEF Handlers, ReadGood, AtMostOne
    <3>4. WriteGood(s, l, c)
      <4>1. ASSUME ~ k.overlapped
            PROVE  /\ k.flying = 0 \/ (k.flying = 1 /\ Waiting(q, c, "write") = {} /\ k.writing)
                   /\ AtMostOne(Waiting(q, c, "write"))
                   /\ Waiting(q, c, "write") # {} => k.writing
        BY <1>2, <1>3, <4>1 DEF Handlers, WriteGood
      <4> QED BY <1>9, <1>17, <3>1, <4>1 DEF WriteGood
    <3>5. StartGood(s, l, c)
      <4> SUFFICES ASSUME NEW i \in Waiting(q, c, "start") PROVE StartGood(s, l, c)
        BY <1>16 DEF StartGood
      <4>1. /\ \A j \in DOMAIN q : q[j].of = c => j = i
            /\ ~ k.listening /\ k.flying = 0
        BY <1>3 DEF Handlers, StartGood
      <4>2. \A j \in DOMAIN s : j \in DOMAIN q BY <4>1, <1>10, <1>11
      <4>3. \A j \in DOMAIN q : s[j] = q[j] BY <1>12 DEF GrowsBy
      <4> QED BY <1>9, <1>16, <3>1, <4>1, <4>2, <4>3 DEF StartGood, Waiting
    <3> QED BY <3>1, <3>2, <3>3, <3>4, <3>5 DEF Handlers
  <2> QED BY <2>1, <2>2
<1>19. ObjectGood(v, c) BY <1>3, <1>9, <1>14, <1>18 DEF ObjectGood, FlagsGood, Watched
<1>20. Good(v) BY <1>15, <1>19, TouchesGood
<1>21. Waiting(r, c, "start") = Waiting(q, c, "start")
       /\ (~ k.listening => Waiting(r, c, "read") = Waiting(q, c, "read"))
  <2> HIDE DEF s, q
  <2> QED BY <1>16
<1> QED BY <1>9, <1>14, <1>15, <1>20, <1>21 DEF v, Settled

(* Cancel takes the tasks with the identifier c holds: its own, and at     *)
(* most one other, whose owner is robbed of it.                            *)
LEMMA CancelGood ==
  ASSUME NEW w \in Worlds, NEW c \in Conn, Good(w), ~ w.conn[c].listening
  PROVE  /\ Cancel(w, c) \in Worlds /\ Good(Cancel(w, c)) /\ ~ HasTask(Cancel(w, c), c)
         /\ Cancel(w, c).conn[c] = w.conn[c] /\ Cancel(w, c).queue = w.queue
<1> DEFINE v == Cancel(w, c)
           id == w.conn[c].taskId
           erased == {t \in w.timer.tasks : t.id = id}
           kept == w.timer.tasks \ erased
           victims == {t.owner : t \in erased} \ {c}
           x == [w EXCEPT !.timer.tasks = kept]
<1>1. w.timer.tasks \subseteq Task /\ \A t \in w.timer.tasks : t.owner \in Conn
  BY DEF Worlds, Task
<1>2. x \in Worlds /\ x.conn = w.conn /\ x.queue = w.queue /\ x.timer.tasks = kept
      /\ x.timer.highest = w.timer.highest
  <2>1. kept \in SUBSET Task BY <1>1
  <2> HIDE DEF kept
  <2> QED BY <2>1 DEF Worlds
<1>3. v = IF victims = {} THEN x ELSE [x EXCEPT !.conn[CHOOSE d \in victims : TRUE].robbed = TRUE]
  BY DEF Cancel
<1>4. /\ v \in Worlds /\ v.queue = w.queue /\ v.timer = x.timer
      /\ \A d \in Conn : \/ v.conn[d] = w.conn[d] /\ d \notin victims
                         \/ v.conn[d] = [w.conn[d] EXCEPT !.robbed = TRUE] /\ d # c
  <2>1. CASE victims = {}
    <3>1. v = x BY <1>3, <2>1
    <3> HIDE DEF v, x, kept
    <3> QED BY <1>2, <2>1, <3>1
  <2>2. CASE victims # {}
    <3> DEFINE o == CHOOSE d \in victims : TRUE
    <3>1. o \in victims BY <2>2
    <3>2. o \in Conn /\ o # c BY <1>1, <3>1
    <3>3. \A d \in victims : d = o BY <3>1, <1>1 DEF Good, TasksGood
    <3>4. v = [x EXCEPT !.conn[o].robbed = TRUE] BY <1>3, <2>2
    <3> HIDE DEF v, x, kept, o, victims
    <3>5. w.conn[o] \in Object BY <3>2, ObjectOf
    <3>6. [w.conn[o] EXCEPT !.robbed = TRUE] \in Object BY <3>5 DEF Object
    <3>7. v = [x EXCEPT !.conn = [w.conn EXCEPT ![o] = [w.conn[o] EXCEPT !.robbed = TRUE]]]
      BY <1>2, <3>4
    <3>8. v \in Worlds /\ v.queue = x.queue /\ v.timer = x.timer
          /\ v.conn = [w.conn EXCEPT ![o] = [w.conn[o] EXCEPT !.robbed = TRUE]]
      BY <1>2, <3>2, <3>6, <3>7 DEF Worlds
    <3>9. DOMAIN w.conn = Conn BY DEF Worlds
    <3> QED BY <1>2, <3>2, <3>3, <3>8, <3>9
  <2> QED BY <2>1, <2>2
<1>5. c \notin victims OBVIOUS
<1>6. v.conn[c] = w.conn[c] BY <1>4, <1>5
<1>7. ~ HasTask(v, c)
  <2>1. \A t \in kept : t.owner # c BY DEF Good, TasksGood
  <2> HIDE DEF v, x, kept
  <2> QED BY <1>2, <1>4, <2>1 DEF HasTask
<1>8. \A d \in Conn : d \notin victims /\ d # c => (HasTask(w, d) => HasTask(v, d))
  <2>1. \A t \in w.timer.tasks : t.owner \notin victims /\ t.owner # c => t \in kept OBVIOUS
  <2> HIDE DEF v, x, kept, victims
  <2> QED BY <1>2, <1>4, <2>1 DEF HasTask
<1> HIDE DEF v
<1>9. \A d \in Conn : /\ v.conn[d].life = w.conn[d].life /\ v.conn[d].taskId = w.conn[d].taskId
                      /\ v.conn[d].listening = w.conn[d].listening
                      /\ v.conn[d].open = w.conn[d].open /\ v.conn[d].flying = w.conn[d].flying
                      /\ v.conn[d].reading = w.conn[d].reading
                      /\ v.conn[d].writing = w.conn[d].writing
                      /\ v.conn[d].overlapped = w.conn[d].overlapped
                      /\ v.conn[d].completed = w.conn[d].completed
                      /\ v.conn[d].skipped = w.conn[d].skipped
                      /\ (v.conn[d].robbed \/ (v.conn[d].robbed = w.conn[d].robbed
                                               /\ d \notin victims))
  <2> HIDE DEF victims
  <2> SUFFICES ASSUME NEW d \in Conn,
                      \/ v.conn[d] = w.conn[d] /\ d \notin victims
                      \/ v.conn[d] = [w.conn[d] EXCEPT !.robbed = TRUE]
               PROVE  <1>9!(d)
    BY <1>4
  <2>1. w.conn[d] \in Object BY ObjectOf
  <2>2. CASE v.conn[d] = w.conn[d] /\ d \notin victims BY <2>2
  <2>3. CASE v.conn[d] = [w.conn[d] EXCEPT !.robbed = TRUE] BY <2>1, <2>3 DEF Object
  <2> QED BY <2>2, <2>3
<1>10. TasksGood(v)
  <2>1. kept \subseteq w.timer.tasks OBVIOUS
  <2> HIDE DEF kept, x
  <2>2. v.timer.tasks = kept /\ v.timer.highest = w.timer.highest BY <1>2, <1>4
  <2> QED BY <1>1, <1>9, <2>1, <2>2 DEF Good, TasksGood
<1>11. TicksGood(v) BY <1>4 DEF Good, TicksGood
<1>12. ASSUME NEW d \in Conn PROVE ObjectGood(v, d)
  <2> HIDE DEF victims, x
  <2>1. ObjectGood(w, d) BY DEF Good
  <2>2. Handlers(v.queue, v.conn[d], d)
    BY <1>4, <1>9, <2>1 DEF ObjectGood, Handlers, StartGood, ReadGood, WriteGood, LifeGood, Quiet
  <2>3. FlagsGood(v.conn[d]) BY <1>9, <2>1 DEF ObjectGood, FlagsGood
  <2>4. Watched(v, d) BY <1>8, <1>9, <2>1 DEF ObjectGood, Watched
  <2> QED BY <2>2, <2>3, <2>4 DEF ObjectGood
<1> QED BY <1>4, <1>6, <1>7, <1>10, <1>11, <1>12 DEF Good, v

(* The new task of c has an identifier of its own. *)
LEMMA ScheduleGood ==
  ASSUME NEW w \in Worlds, NEW c \in Conn, Good(w), w.conn[c].life = "live", ~ HasTask(w, c)
  PROVE  /\ Schedule(w, c) \in Worlds /\ Good(Schedule(w, c)) /\ HasTask(Schedule(w, c), c)
         /\ Settled(w, c) => Settled(Schedule(w, c), c)
<1> DEFINE v == Schedule(w, c)
           id == w.timer.highest + 1
           t0 == [id |-> id, owner |-> c, left |-> Timeout]
           l  == [w.conn[c] EXCEPT !.taskId = id]
<1>1. w.conn[c] \in Object BY ObjectOf
<1>2. id \in Nat /\ id > w.timer.highest /\ w.timer.highest \in Nat BY DEF Worlds
<1>3. t0 \in Task /\ t0.owner = c /\ t0.id = id BY <1>2 DEF Task
<1> HIDE DEF id
<1>4. /\ l \in Object /\ l.taskId = id /\ l.life = "live"
      /\ l.listening = w.conn[c].listening /\ l.open = w.conn[c].open
      /\ l.flying = w.conn[c].flying /\ l.reading = w.conn[c].reading
      /\ l.writing = w.conn[c].writing /\ l.overlapped = w.conn[c].overlapped
      /\ l.completed = w.conn[c].completed /\ l.skipped = w.conn[c].skipped
      /\ l.robbed = w.conn[c].robbed
  BY <1>1, <1>2 DEF Object
<1> HIDE DEF t0, l
<1>5. /\ v \in Worlds /\ v.queue = w.queue /\ v.conn[c] = l
      /\ v.timer.tasks = w.timer.tasks \cup {t0} /\ v.timer.highest = id
      /\ \A d \in Conn \ {c} : v.conn[d] = w.conn[d]
  <2>1. v = [w EXCEPT !.timer.highest = id, !.timer.tasks = @ \cup {t0},
                      !.conn = [w.conn EXCEPT ![c] = l]]
    BY DEF Schedule, l, t0, id
  <2> HIDE DEF v
  <2>2. w.timer.tasks \cup {t0} \in SUBSET Task BY <1>3 DEF Worlds
  <2> QED BY <1>2, <1>3, <1>4, <2>1, <2>2 DEF Worlds
<1> HIDE DEF v
<1>6. TasksGood(v)
  <2>1. \A t \in w.timer.tasks : t.owner \in Conn \ {c} /\ t.id \in 1 .. w.timer.highest
    BY DEF Good, TasksGood, HasTask, Worlds, Task
  <2>2. \A t \in w.timer.tasks : t.id \in 1 .. id /\ t.id # id BY <1>2, <2>1
  <2>3. id \in 1 .. id BY <1>2
  <2>4. ASSUME NEW t \in w.timer.tasks
        PROVE  /\ v.conn[t.owner].life = "live" /\ v.conn[t.owner].taskId = t.id
               /\ \A u \in w.timer.tasks : t.id = u.id => t = u
    BY <1>5, <2>1 DEF Good, TasksGood
  <2> QED BY <1>3, <1>4, <1>5, <2>2, <2>3, <2>4 DEF TasksGood
<1>7. TicksGood(v) BY <1>5 DEF Good, TicksGood
<1>8. ASSUME NEW d \in Conn PROVE ObjectGood(v, d)
  <2>1. ObjectGood(w, d) BY DEF Good
  <2>2. Watched(v, d) BY <1>3, <1>4, <1>5, <2>1 DEF ObjectGood, Watched, HasTask
  <2>3. Handlers(v.queue, v.conn[d], d) /\ FlagsGood(v.conn[d])
    BY <1>4, <1>5, <2>1
       DEF ObjectGood, FlagsGood, Handlers, StartGood, ReadGood, WriteGood, LifeGood, Quiet
  <2> QED BY <2>2, <2>3 DEF ObjectGood
<1>9. HasTask(v, c) BY <1>3, <1>5 DEF HasTask
<1>10. Settled(w, c) => Settled(v, c) BY <1>4, <1>5 DEF Settled
<1> QED BY <1>5, <1>6, <1>7, <1>8, <1>9, <1>10 DEF Good, v

(* A read begins under a new deadline. *)
LEMMA GoOnReadingGood ==
  ASSUME NEW w \in Worlds, NEW c \in Conn, Good(w), Settled(w, c)
  PROVE  GoOnReading(w, c) \in Worlds /\ Good(GoOnReading(w, c))
<1> DEFINE x == Cancel(w, c)
           y == Schedule(x, c)
<1>1. x \in Worlds /\ Good(x) /\ ~ HasTask(x, c) /\ Settled(x, c)
  BY CancelGood DEF Settled
<1> HIDE DEF x
<1>2. y \in Worlds /\ Good(y) /\ HasTask(y, c) /\ Settled(y, c)
  BY <1>1, ScheduleGood DEF Settled
<1> HIDE DEF y
<1>3. DoRead(y, c) \in Worlds /\ Good(DoRead(y, c)) BY <1>2, DoReadGood
<1>4. GoOnReading(w, c) = DoRead(y, c) BY StepsInOrder DEF x, y
<1> QED BY <1>3, <1>4

(* An object is deleted when nothing of it is under way, and takes its     *)
(* deadline with it.                                                       *)
LEMMA CheckDestroyGood ==
  ASSUME NEW w \in Worlds, NEW c \in Conn, Good(w), w.conn[c].life = "live",
         Waiting(w.queue, c, "start") = {}
  PROVE  CheckDestroy(w, c) \in Worlds /\ Good(CheckDestroy(w, c))
<1> DEFINE k == w.conn[c]
           x == Cancel(w, c)
           v == Destroy(x, c)
           l == [k EXCEPT !.life = "gone"]
<1>1. k \in Object /\ k.flying \in Nat BY ObjectOf DEF Object
<1>2. Handlers(w.queue, k, c) /\ FlagsGood(k) BY DEF Good, ObjectGood
<1>3. CASE k.reading \/ k.writing
  <2>1. CheckDestroy(w, c) = w BY <1>3 DEF CheckDestroy
  <2> QED BY <2>1
<1>4. CASE ~ k.reading /\ ~ k.writing
  <2>1. CheckDestroy(w, c) = v BY <1>4 DEF CheckDestroy, Then
  <2>2. ~ k.listening /\ Waiting(w.queue, c, "read") = {}
    BY <1>2, <1>4 DEF Handlers, ReadGood
  <2>3. x \in Worlds /\ Good(x) /\ ~ HasTask(x, c) /\ x.conn[c] = k /\ x.queue = w.queue
    BY <2>2, CancelGood
  <2> HIDE DEF x
  <2>4. /\ l \in Object /\ l.life = "gone" /\ ~ l.listening /\ ~ l.reading /\ ~ l.writing
        /\ l.flying = k.flying /\ l.overlapped = k.overlapped /\ l.completed = k.completed
        /\ l.skipped = k.skipped
    BY <1>1, <1>4, <2>2 DEF Object, Lives
  <2> HIDE DEF l
  <2>5. /\ v \in Worlds /\ v.queue = w.queue /\ v.conn[c] = l /\ v.timer = x.timer
        /\ \A d \in Conn \ {c} : v.conn[d] = x.conn[d]
    <3>1. v = [x EXCEPT !.length = @ - 1, !.conn = [x.conn EXCEPT ![c] = l]]
      BY <2>3 DEF Destroy, l
    <3>2. x.length - 1 \in Int BY <2>3 DEF Worlds
    <3> DEFINE n == x.length - 1
    <3>3. v = [x EXCEPT !.length = n, !.conn = [x.conn EXCEPT ![c] = l]] BY <3>1
    <3> HIDE DEF v, k, n
    <3> QED BY <2>3, <2>4, <3>2, <3>3 DEF Worlds, n
  <2> HIDE DEF v
  <2>6. TasksGood(v)
    <3>1. \A t \in x.timer.tasks : t.owner \in Conn \ {c} BY <2>3 DEF HasTask, Worlds, Task
    <3> QED BY <2>3, <2>5, <3>1 DEF Good, TasksGood
  <2>7. TicksGood(v) BY <2>5 DEF Good, TicksGood
  <2>8. ASSUME NEW d \in Conn, d # c PROVE ObjectGood(v, d)
    BY <2>3, <2>5, <2>8 DEF Good, ObjectGood, Watched, HasTask
  <2>9. ObjectGood(v, c)
    <3>1. ~ l.overlapped => Quiet(w.queue, l, c)
      <4> SUFFICES ASSUME ~ k.overlapped PROVE Quiet(w.queue, l, c) BY <2>4
      <4>1. Waiting(w.queue, c, "write") = {} /\ k.flying = 0
        BY <1>1, <1>2, <1>4 DEF Handlers, WriteGood
      <4>2. \A i \in DOMAIN w.queue : w.queue[i].kind \in {"start", "read", "write"}
                                       \/ w.queue[i].of = "none"
        <5>1. \A i \in DOMAIN w.queue : w.queue[i] \in Entry BY DEF Worlds
        <5> QED BY <5>1 DEF Good, TicksGood, Entry
      <4>3. \A i \in DOMAIN w.queue : w.queue[i].of # c BY <2>2, <4>1, <4>2 DEF Waiting
      <4> QED BY <2>4, <4>1, <4>3 DEF Quiet, NoneWaiting
    <3>2. Handlers(w.queue, l, c)
      BY <1>2, <1>4, <2>2, <2>4, <3>1 DEF Handlers, StartGood, ReadGood, WriteGood, LifeGood
    <3>3. FlagsGood(l) BY <1>2, <1>4, <2>4 DEF FlagsGood
    <3>4. Watched(v, c) BY <2>4, <2>5 DEF Watched
    <3> QED BY <2>5, <3>2, <3>3, <3>4 DEF ObjectGood
  <2> QED BY <2>1, <2>5, <2>6, <2>7, <2>8, <2>9 DEF Good
<1> QED BY <1>3, <1>4

(* Other flags of c, which leave its handlers as they must be *)
LEMMA FlagsSet ==
  ASSUME NEW w \in Worlds, NEW c \in Conn, Good(w), NEW l \in Object,
         l.life = w.conn[c].life, l.taskId = w.conn[c].taskId,
         l.listening = w.conn[c].listening, l.robbed = w.conn[c].robbed,
         Handlers(w.queue, l, c), FlagsGood(l)
  PROVE  LET v == With(w, c, l, w.queue) IN
         /\ v \in Worlds /\ Good(v) /\ Touches(w, v, c)
         /\ v.queue = w.queue /\ v.conn[c] = l
<1> DEFINE v == With(w, c, l, w.queue)
<1>1. /\ v \in Worlds /\ v.timer = w.timer /\ v.queue = w.queue /\ v.conn[c] = l
      /\ \A d \in Conn \ {c} : v.conn[d] = w.conn[d]
  BY WithIs, ObjectOf
<1> HIDE DEF v
<1>2. Touches(w, v, c) BY <1>1, Still DEF Touches
<1>3. ObjectGood(v, c) BY <1>1 DEF Good, ObjectGood, Watched, HasTask
<1>4. Good(v) BY <1>2, <1>3, TouchesGood
<1> QED BY <1>1, <1>2, <1>4 DEF v

LEMMA EndReadingGood ==
  ASSUME NEW w \in Worlds, NEW c \in Conn, Good(w), Settled(w, c)
  PROVE  EndReading(w, c) \in Worlds /\ Good(EndReading(w, c))
<1> DEFINE v == [w EXCEPT !.conn[c].reading = FALSE]
           l == [w.conn[c] EXCEPT !.reading = FALSE]
<1>1. w.conn[c] \in Object BY ObjectOf
<1>2. /\ l \in Object /\ l.life = w.conn[c].life /\ l.taskId = w.conn[c].taskId
      /\ l.listening = w.conn[c].listening /\ l.robbed = w.conn[c].robbed
      /\ l.flying = w.conn[c].flying /\ l.writing = w.conn[c].writing /\ ~ l.reading
      /\ l.overlapped = w.conn[c].overlapped /\ l.completed = w.conn[c].completed
      /\ l.skipped = w.conn[c].skipped /\ l.life = "live" /\ ~ l.listening
  BY <1>1 DEF Object, Settled
<1>3. v = With(w, c, l, w.queue) BY DEF With, Worlds
<1> HIDE DEF v, l
<1>4. ObjectGood(w, c) BY DEF Good
<1>5. Handlers(w.queue, l, c) /\ FlagsGood(l)
  BY <1>2, <1>4 DEF ObjectGood, Handlers, FlagsGood, StartGood, ReadGood, WriteGood, LifeGood,
                    Settled, AtMostOne
<1>6. v \in Worlds /\ Good(v) /\ v.queue = w.queue /\ v.conn[c] = l
  BY <1>2, <1>3, <1>5, FlagsSet
<1>7. Waiting(v.queue, c, "start") = {} BY <1>6 DEF Settled
<1>8. CheckDestroy(v, c) \in Worlds /\ Good(CheckDestroy(v, c))
  BY <1>2, <1>6, <1>7, CheckDestroyGood
<1> QED BY <1>8, StepsInOrder DEF v

(* The read handler runs: the parser's calls and what follows them *)
Busy(c) == {v \in Worlds : Good(v) /\ Settled(v, c) /\ v.conn[c].reading}

LEMMA AnswerBusy ==
  ASSUME NEW c \in Conn, NEW w \in Busy(c), NEW closing \in BOOLEAN
  PROVE  Answer(w, c, closing) \in Busy(c)
<1> DEFINE k == w.conn[c]
<1>1. /\ w \in Worlds /\ Good(w) /\ Settled(w, c) /\ k.reading
      /\ w.queue \in Seq(Entry) /\ k \in Object /\ Handlers(w.queue, k, c) /\ FlagsGood(k)
  BY ObjectOf DEF Busy, Good, ObjectGood
<1>2. CASE ~ k.open \/ ~ k.peer
  <2> DEFINE v == [w EXCEPT !.conn[c].stuck = TRUE]
             l == [k EXCEPT !.stuck = TRUE]
  <2>1. Answer(w, c, closing) = v BY <1>2 DEF Answer
  <2>2. v = With(w, c, l, w.queue) BY <1>1 DEF With, Worlds
  <2> HIDE DEF v, k
  <2>3. /\ l \in Object /\ l.life = k.life /\ l.taskId = k.taskId
        /\ l.listening = k.listening /\ l.robbed = k.robbed
        /\ l.flying = k.flying /\ l.writing = k.writing /\ l.reading = k.reading
        /\ l.overlapped = k.overlapped /\ l.completed = k.completed
        /\ l.skipped = k.skipped
    BY <1>1 DEF Object
  <2> HIDE DEF l
  <2>4. Handlers(w.queue, l, c) /\ FlagsGood(l)
    BY <1>1, <2>3 DEF Handlers, FlagsGood, StartGood, ReadGood, WriteGood, LifeGood,
                          Quiet, Settled, k
  <2>5. v \in Worlds /\ Good(v) /\ v.queue = w.queue /\ v.conn[c] = l
    BY <1>1, <2>2, <2>3, <2>4, FlagsSet DEF k
  <2> QED BY <1>1, <2>1, <2>3, <2>5 DEF Busy, Settled, k
<1>3. CASE k.open /\ k.peer
  <2> DEFINE u == Complete(w, c, closing)
             s == k.skipped \/ k.completed
             l == [k EXCEPT !.closing = closing, !.skipped = s, !.completed = TRUE]
  <2>1. Answer(w, c, closing) = DoWrite(u, c) BY <1>3 DEF Answer, Then
  <2>2. u = With(w, c, l, w.queue)
    <3>1. u = [w EXCEPT !.conn[c].closing = closing, !.conn[c].skipped = s,
                        !.conn[c].completed = TRUE]
      BY <1>1 DEF Complete, Worlds, Object
    <3> HIDE DEF u, s
    <3> QED BY <1>1, <3>1 DEF With, Worlds, Object
  <2>3. s \in BOOLEAN OBVIOUS
  <2> HIDE DEF u, k, s
  <2>4. /\ l \in Object /\ l.life = k.life /\ l.taskId = k.taskId
        /\ l.listening = k.listening /\ l.robbed = k.robbed /\ l.open = k.open
        /\ l.flying = k.flying /\ l.writing = k.writing /\ l.reading = k.reading
        /\ l.overlapped = k.overlapped /\ l.skipped = s
    BY <1>1, <2>3 DEF Object
  <2> HIDE DEF l
  <2>5. /\ u \in Worlds /\ u.timer = w.timer /\ u.queue = w.queue /\ u.conn[c] = l
        /\ \A d \in Conn \ {c} : u.conn[d] = w.conn[d]
    BY <1>1, <2>2, <2>4, WithIs
  <2>6. Touches(w, u, c) BY <2>4, <2>5, Still DEF Touches, k
  <2>7. Handlers(u.queue, l, c)
    BY <1>1, <2>4, <2>5 DEF Handlers, StartGood, ReadGood, WriteGood, LifeGood, Quiet
  <2>8. ~ l.listening /\ (l.skipped => l.overlapped \/ l.writing) /\ l.reading
    BY <1>1, <2>4 DEF FlagsGood, Settled, s, k
  <2> QED BY <1>1, <2>1, <2>5, <2>6, <2>7, <2>8, DoWriteGood DEF Busy
<1> QED BY <1>1, <1>2, <1>3 DEF Object

LEMMA ParserCallBusy ==
  ASSUME NEW c \in Conn, NEW w \in Busy(c), NEW call \in Calls
  PROVE  ParserCall(w, c, call) \in Busy(c)
<1>1. /\ w \in Worlds /\ Good(w) /\ Settled(w, c) /\ w.conn[c].reading
      /\ Handlers(w.queue, w.conn[c], c) /\ FlagsGood(w.conn[c]) /\ ~ w.conn[c].listening
      /\ w.queue \in Seq(Entry)
  BY ObjectOf DEF Busy, Good, ObjectGood, Settled
<1>2. CASE w.conn[c].stuck \/ call = "error"
  <2>1. ParserCall(w, c, call) = w BY <1>2 DEF ParserCall
  <2> QED BY <2>1
<1>3. CASE ~ w.conn[c].stuck /\ call = "expect"
  <2>1. ParserCall(w, c, call) = DoWrite(w, c) BY <1>3 DEF ParserCall
  <2>2. Touches(w, w, c) BY <1>1, Still DEF Touches
  <2>3. w.conn[c].skipped => w.conn[c].overlapped \/ w.conn[c].writing
    BY <1>1 DEF FlagsGood
  <2> QED BY <1>1, <2>1, <2>2, <2>3, DoWriteGood DEF Busy
<1>4. CASE ~ w.conn[c].stuck /\ call \in {"keep", "close"}
  <2> DEFINE x == Cancel(w, c)
  <2>1. ParserCall(w, c, call) = Answer(x, c, call = "close")
    BY <1>4 DEF ParserCall, Handle, Then
  <2>2. x \in Busy(c) BY <1>1, CancelGood DEF Busy, Settled
  <2> HIDE DEF x
  <2> QED BY <2>1, <2>2, AnswerBusy
<1> QED BY <1>2, <1>3, <1>4 DEF Calls

(* The parser's calls lead from S to S if each of them does. *)
LEMMA CallsStayWithin ==
  ASSUME NEW S, NEW c, NEW w \in S, NEW bring \in Seq(Calls),
         \A v \in S, x \in Calls : ParserCall(v, c, x) \in S
  PROVE  AfterCalls(w, c, bring) \in S
<1> DEFINE n    == Len(bring)
           R    == [i \in 0 .. n |-> S]
           step == [i \in 1 .. n |-> [v \in S |-> ParserCall(v, c, bring[i])]]
           Solves(f) == f = [i \in 0 .. n |-> IF i = 0 THEN w
                                              ELSE ParserCall(f[i - 1], c, bring[i])]
           after == CHOOSE f : Solves(f)
<1>1. n \in Nat /\ \A i \in 1 .. n : bring[i] \in Calls /\ i - 1 \in 0 .. n /\ i \in 0 .. n OBVIOUS
<1>2. \A i \in 1 .. n : \A v \in S : step[i][v] = ParserCall(v, c, bring[i]) OBVIOUS
<1>3. \A i \in 1 .. n : \A v \in R[i - 1] : step[i][v] \in R[i] BY <1>1, <1>2
<1>4. w \in R[0] BY <1>1
<1>5. PICK f : Follows(f, n, R, w, step)
  <2>1. Leads(n, R, w, step) BY <1>3, <1>4 DEF Leads
  <2> HIDE DEF n, R, step
  <2> QED BY <1>1, <2>1, Iteration
<1>6. \A i \in 1 .. n : f[i] = ParserCall(f[i - 1], c, bring[i])
  <2> HIDE DEF step
  <2>1. \A i \in 1 .. n : f[i] = step[i][f[i - 1]] /\ f[i - 1] \in R[i - 1]
    BY <1>5 DEF Follows
  <2> QED BY <1>1, <1>2, <2>1
<1>7. Solves(f) 
  <2> HIDE DEF step, n
  <2>1. ASSUME NEW i \in 0 .. n
        PROVE  f[i] = IF i = 0 THEN w ELSE ParserCall(f[i - 1], c, bring[i])
    <3>1. i = 0 \/ i \in 1 .. n BY <1>1
    <3>2. CASE i = 0 BY <3>2, <1>5, Zenon DEF Follows
    <3>3. CASE i # 0 BY <3>1, <3>3, <1>6, Zenon
    <3> QED BY <3>2, <3>3
  <2>2. [i \in 0 .. n |-> f[i]] = [i \in 0 .. n |-> IF i = 0 THEN w
                                              ELSE ParserCall(f[i - 1], c, bring[i])]
     BY <2>1, Zenon
  <2> QED BY <2>2, <1>5, Zenon DEF Follows
<1>8. Solves(after)
  <2> HIDE DEF Solves
  <2> QED BY <1>7
<1>9. after[0] = w /\ \A i \in 1 .. n : after[i] = ParserCall(after[i - 1], c, bring[i])
  <2> HIDE DEF after, n
  <2>1. \A i \in 0 .. n : after[i] = IF i = 0 THEN w ELSE ParserCall(after[i - 1], c, bring[i])
    BY <1>8, Zenon
  <2>2. 0 \in 0 .. n /\ \A i \in 1 .. n : i \in 0 .. n /\ i # 0 BY <1>1
  <2> QED BY <2>1, <2>2, Zenon
<1>10. AfterCalls(w, c, bring) = after[n] BY DEF AfterCalls
<1>11. \A i \in 0 .. n : after[i] \in R[i]
  <2>1. after[0] \in R[0] BY <1>4, <1>9
  <2>2. \A i \in 1 .. n : after[i - 1] \in R[i - 1] => after[i] \in R[i]
    <3> HIDE DEF after
    <3> QED BY <1>1, <1>9
  <2> HIDE DEF after, R, n
  <2> QED BY <1>1, <2>1, <2>2, StaysWithin
<1> QED BY <1>1, <1>10, <1>11

LEMMA AfterReadGood ==
  ASSUME NEW c \in Conn, NEW w \in Busy(c), NEW fine \in BOOLEAN
  PROVE  AfterRead(w, c, fine) \in Worlds /\ Good(AfterRead(w, c, fine))
<1> DEFINE k == w.conn[c]
           x == Cancel(w, c)
<1>1. /\ w \in Worlds /\ Good(w) /\ Settled(w, c) /\ k \in Object
  BY ObjectOf DEF Busy
<1>2. x \in Worlds /\ Good(x) /\ Settled(x, c) BY <1>1, CancelGood DEF Settled
<1>3. CASE k.stuck
  <2>1. AfterRead(w, c, fine) = w BY <1>3 DEF AfterRead
  <2> QED BY <1>1, <2>1
<1>4. CASE ~ k.stuck /\ (~ fine \/ ~ k.open)
  <2>1. AfterRead(w, c, fine) = EndReading(CloseSocket(x, c), c)
    BY <1>4, StepsInOrder DEF AfterRead, Then
  <2> HIDE DEF x
  <2>2. x.conn[c].life = "live" BY <1>2 DEF Settled
  <2>3. /\ CloseSocket(x, c) \in Worlds /\ Good(CloseSocket(x, c))
        /\ Settled(CloseSocket(x, c), c)
    BY <1>2, <2>2, CloseGood
  <2> QED BY <2>1, <2>3, EndReadingGood
<1>5. CASE ~ k.stuck /\ fine /\ k.open /\ k.closing
  <2>1. AfterRead(w, c, fine) = EndReading(x, c) BY <1>5 DEF AfterRead, Then
  <2> HIDE DEF x
  <2> QED BY <1>2, <2>1, EndReadingGood
<1>6. CASE ~ k.stuck /\ fine /\ k.open /\ ~ k.closing
  <2>1. AfterRead(w, c, fine) = GoOnReading(w, c) BY <1>6 DEF AfterRead
  <2> QED BY <1>1, <2>1, GoOnReadingGood
<1> QED BY <1>3, <1>4, <1>5, <1>6

LEMMA ReadHandlerGood ==
  ASSUME NEW c \in Conn, NEW w \in Busy(c), NEW ok \in BOOLEAN, NEW bring \in Seq(Calls)
  PROVE  ReadHandler(w, c, ok, bring) \in Worlds /\ Good(ReadHandler(w, c, ok, bring))
<1> DEFINE v == AfterCalls(w, c, bring)
           failed == \E i \in DOMAIN bring : bring[i] = "error"
           fine == ok /\ ~ failed
<1>1. v \in Busy(c)
  <2>1. \A u \in Busy(c), call \in Calls : ParserCall(u, c, call) \in Busy(c)
    BY ParserCallBusy
  <2> QED BY <2>1, CallsStayWithin
<1>2. ReadHandler(w, c, ok, bring) = AfterRead(v, c, fine) BY DEF ReadHandler, Then
<1>3. fine \in BOOLEAN OBVIOUS
<1> HIDE DEF v, fine
<1> QED BY <1>1, <1>2, <1>3, AfterReadGood

(* A write has ended: no other one of c was under way, or c is overlapped. *)
LEMMA WriteHandlerGood ==
  ASSUME NEW c \in Conn, NEW w \in Worlds, NEW ok \in BOOLEAN, Good(w),
         w.conn[c].life = "live", Waiting(w.queue, c, "start") = {},
         ~ w.conn[c].overlapped =>
            Waiting(w.queue, c, "write") = {} /\ w.conn[c].flying = 0
  PROVE  WriteHandler(w, c, ok) \in Worlds /\ Good(WriteHandler(w, c, ok))
<1> DEFINE k == w.conn[c]
           l == Written(k)
           v == With(w, c, l, w.queue)
           r == WriteHandler(w, c, ok)
<1>1. k \in Object /\ Handlers(w.queue, k, c) /\ FlagsGood(k)
  BY ObjectOf DEF Good, ObjectGood
<1>2. r = AfterWrite(v, c, ok)
  <2>1. v = [w EXCEPT !.conn[c] = Written(@)] BY DEF With, Worlds
  <2> QED BY <2>1 DEF WriteHandler, Then
<1> HIDE DEF v, r
<1>3. /\ l \in Object /\ l.life = "live" /\ l.taskId = k.taskId
      /\ l.listening = k.listening /\ l.robbed = k.robbed /\ l.open = k.open
      /\ l.flying = k.flying /\ ~ l.writing /\ l.reading = k.reading
      /\ l.overlapped = k.overlapped /\ ~ l.completed /\ l.skipped = k.skipped
  <2> HIDE DEF k
  <2>1. k.life = "live" BY DEF k
  <2> QED BY <1>1, <2>1 DEF Object, Written
<1> HIDE DEF l
<1>4. k.flying \in Nat BY <1>1 DEF Object
<1>5. Handlers(w.queue, l, c) /\ FlagsGood(l)
  <2>1. StartGood(w.queue, l, c) BY DEF StartGood
  <2>2. ReadGood(w.queue, l, c) BY <1>1, <1>3 DEF Handlers, ReadGood
  <2>3. WriteGood(w.queue, l, c) BY <1>3 DEF WriteGood, AtMostOne
  <2>4. LifeGood(w.queue, l, c) BY <1>3 DEF LifeGood
  <2>5. FlagsGood(l) BY <1>1, <1>3 DEF FlagsGood
  <2> QED BY <2>1, <2>2, <2>3, <2>4, <2>5 DEF Handlers
<1>6. v \in Worlds /\ Good(v) /\ v.queue = w.queue /\ v.conn[c] = l
  BY <1>3, <1>5, FlagsSet DEF v
<1>7. Waiting(v.queue, c, "start") = {} BY <1>6
<1>8. CASE ok /\ l.closing
  <2> DEFINE x == CloseSocket(v, c)
  <2>1. r = CheckDestroy(x, c) BY <1>2, <1>6, <1>8 DEF AfterWrite, Then
  <2>2. x \in Worlds /\ Good(x) /\ x.conn[c].life = "live" /\ Waiting(x.queue, c, "start") = {}
    BY <1>3, <1>6, <1>7, CloseGood DEF Touches
  <2> HIDE DEF x
  <2> QED BY <2>1, <2>2, CheckDestroyGood DEF r
<1>9. CASE ok /\ ~ l.closing
  <2> DEFINE m == [l EXCEPT !.forgotten = ~ l.reading]
  <2>1. r = With(v, c, m, v.queue)
    BY <1>2, <1>6, <1>9 DEF AfterWrite, With, Worlds
  <2>2. /\ m \in Object /\ m.life = l.life /\ m.taskId = l.taskId
        /\ m.listening = l.listening /\ m.robbed = l.robbed /\ m.open = l.open
        /\ m.flying = l.flying /\ m.writing = l.writing /\ m.reading = l.reading
        /\ m.overlapped = l.overlapped /\ m.completed = l.completed /\ m.skipped = l.skipped
    BY <1>3 DEF Object
  <2> HIDE DEF m
  <2>3. Handlers(v.queue, m, c) /\ FlagsGood(m)
    BY <1>3, <1>5, <1>6, <2>2
       DEF Handlers, FlagsGood, StartGood, ReadGood, WriteGood, LifeGood
  <2> QED BY <1>6, <2>1, <2>2, <2>3, FlagsSet DEF r
<1>10. CASE ~ ok
  <2>1. r = CheckDestroy(v, c) BY <1>2, <1>10 DEF AfterWrite
  <2> QED BY <1>3, <1>6, <1>7, <2>1, CheckDestroyGood DEF r
<1> QED BY <1>8, <1>9, <1>10

-----------------------------------------------------------------------------
(* Part of process_tasks is over: the expired tasks up to i are closed.    *)
PartDone(w, expired, i) ==
    {v \in Worlds :
        /\ Good(v) /\ v.timer = w.timer
        /\ \A d \in Conn : v.conn[d].life = w.conn[d].life
        /\ \A t \in expired : t.id <= i => ~ v.conn[t.owner].listening}

LEMMA CloseOwnerDone ==
  ASSUME NEW w \in Worlds, Good(w), NEW expired, expired \subseteq w.timer.tasks,
         NEW i \in Nat \ {0}, NEW v \in PartDone(w, expired, i - 1)
  PROVE  CloseOwner(v, expired, i) \in PartDone(w, expired, i)
<1>1. /\ v \in Worlds /\ Good(v) /\ v.timer = w.timer
      /\ \A d \in Conn : v.conn[d].life = w.conn[d].life
      /\ \A t \in expired : t.id <= i - 1 => ~ v.conn[t.owner].listening
  BY DEF PartDone
<1>2. \A t \in expired : /\ t.owner \in Conn /\ t.id \in Nat /\ w.conn[t.owner].life = "live"
                         /\ \A u \in expired : t.id = u.id => t = u
  BY DEF Good, TasksGood, Worlds, Task
<1>3. \A t \in expired : t.id <= i <=> t.id <= i - 1 \/ t.id = i BY <1>2
<1>4. CASE \E t \in expired : t.id = i
  <2> DEFINE s == CHOOSE t \in expired : t.id = i
             c == s.owner
             x == CloseSocket(v, c)
  <2>1. s \in expired /\ s.id = i BY <1>4
  <2>2. CloseOwner(v, expired, i) = x BY <1>4 DEF CloseOwner
  <2> HIDE DEF s
  <2>3. c \in Conn /\ v.conn[c].life = "live" BY <1>1, <1>2, <2>1
  <2> HIDE DEF c
  <2>4. /\ x \in Worlds /\ Good(x) /\ x.timer = v.timer /\ ~ x.conn[c].listening
        /\ x.conn[c].life = v.conn[c].life /\ \A d \in Conn \ {c} : x.conn[d] = v.conn[d]
    BY <1>1, <2>3, CloseGood DEF Touches
  <2> HIDE DEF x
  <2>5. \A t \in expired : t.id <= i => ~ x.conn[t.owner].listening
    <3> SUFFICES ASSUME NEW t \in expired, t.id <= i PROVE ~ x.conn[t.owner].listening
      OBVIOUS
    <3>1. CASE t.owner = c BY <2>4, <3>1
    <3>2. CASE t.owner # c
      <4>1. t.id # i BY <1>2, <2>1, <3>2 DEF c
      <4> QED BY <1>1, <1>2, <1>3, <2>4, <3>2, <4>1
    <3> QED BY <3>1, <3>2
  <2>6. \A d \in Conn : x.conn[d].life = w.conn[d].life BY <1>1, <2>4
  <2> QED BY <1>1, <2>2, <2>4, <2>5, <2>6 DEF PartDone
<1>5. CASE ~ \E t \in expired : t.id = i
  <2>1. CloseOwner(v, expired, i) = v BY <1>5 DEF CloseOwner
  <2> QED BY <1>1, <1>3, <1>5, <2>1 DEF PartDone
<1> QED BY <1>4, <1>5

LEMMA SocketsClosedDone ==
  ASSUME NEW w \in Worlds, Good(w), NEW expired, expired \subseteq w.timer.tasks
  PROVE  SocketsClosed(w, expired) \in PartDone(w, expired, w.timer.highest)
<1> DEFINE n    == w.timer.highest
           R    == [i \in 0 .. n |-> PartDone(w, expired, i)]
           step == [i \in 1 .. n |-> [v \in PartDone(w, expired, i - 1) |->
                                        CloseOwner(v, expired, i)]]
           Solves(f) == f = [i \in 0 .. n |-> IF i = 0 THEN w
                                              ELSE CloseOwner(f[i - 1], expired, i)]
           upTo == CHOOSE f : Solves(f)
<1>1. n \in Nat /\ \A i \in 1 .. n : i \in Nat \ {0} /\ i - 1 \in 0 .. n /\ i \in 0 .. n
  BY DEF Worlds
<1> HIDE DEF n
<1>2. \A i \in 1 .. n : \A v \in PartDone(w, expired, i - 1) :
          step[i][v] = CloseOwner(v, expired, i)
  OBVIOUS
<1>3. \A i \in 0 .. n : R[i] = PartDone(w, expired, i) OBVIOUS
<1>4. \A i \in 1 .. n : \A v \in R[i - 1] :
          CloseOwner(v, expired, i) \in R[i] /\ step[i][v] = CloseOwner(v, expired, i)
  <2> HIDE DEF R, step
  <2> QED BY <1>1, <1>2, <1>3, CloseOwnerDone
<1>5. w \in R[0]
  <2>1. \A t \in expired : ~ t.id <= 0 BY DEF Good, TasksGood, Worlds, Task
  <2> QED BY <1>1, <2>1 DEF PartDone
<1>6. PICK f : Follows(f, n, R, w, step)
  <2> HIDE DEF R, step
  <2>1. Leads(n, R, w, step) BY <1>4, <1>5 DEF Leads
  <2> QED BY <1>1, <2>1, Iteration
<1>7. \A i \in 1 .. n : f[i] = CloseOwner(f[i - 1], expired, i)
  <2> HIDE DEF step, R
  <2> QED BY <1>4, <1>6 DEF Follows
<1>8. Solves(f)
  <2> HIDE DEF step, R
  <2>1. ASSUME NEW i \in 0 .. n
        PROVE  f[i] = IF i = 0 THEN w ELSE CloseOwner(f[i - 1], expired, i)
    <3>1. i = 0 \/ i \in 1 .. n BY <1>1
    <3>2. CASE i = 0 BY <3>2, <1>6, Zenon DEF Follows
    <3>3. CASE i # 0 BY <3>1, <3>3, <1>7, Zenon
    <3> QED BY <3>2, <3>3
  <2>2. [i \in 0 .. n |-> f[i]] = [i \in 0 .. n |-> IF i = 0 THEN w
                                              ELSE CloseOwner(f[i - 1], expired, i)]
    BY <2>1, Zenon
  <2> QED BY <2>2, <1>6, Zenon DEF Follows
<1>9. Solves(upTo)
  <2> HIDE DEF Solves
  <2> QED BY <1>8
<1>10. upTo[0] = w /\ \A i \in 1 .. n : upTo[i] = CloseOwner(upTo[i - 1], expired, i)
  <2> HIDE DEF upTo
  <2>1. \A i \in 0 .. n : upTo[i] = IF i = 0 THEN w ELSE CloseOwner(upTo[i - 1], expired, i)
    BY <1>9, Zenon
  <2>2. 0 \in 0 .. n /\ \A i \in 1 .. n : i \in 0 .. n /\ i # 0 BY <1>1
  <2> QED BY <2>1, <2>2, Zenon
<1>11. SocketsClosed(w, expired) = upTo[n] BY DEF SocketsClosed, n
<1>12. \A i \in 0 .. n : upTo[i] \in R[i]
  <2> HIDE DEF upTo, R, step
  <2>1. upTo[0] \in R[0] BY <1>5, <1>10
  <2>2. \A i \in 1 .. n : upTo[i - 1] \in R[i - 1] => upTo[i] \in R[i] BY <1>4, <1>10
  <2> QED BY <1>1, <2>1, <2>2, StaysWithin
<1> HIDE DEF upTo, R
<1> QED BY <1>1, <1>3, <1>11, <1>12 DEF n

LEMMA TickHandlerGood ==
  ASSUME NEW w \in Worlds, Good(w)
  PROVE  TickHandler(w) \in Worlds /\ Good(TickHandler(w))
<1> DEFINE tasks == w.timer.tasks
           expired == {t \in tasks : t.left = 0}
           kept == {[t EXCEPT !.left = @ - 1] : t \in tasks \ expired}
           x == SocketsClosed(w, expired)
           h == NextHighest(kept, x.timer.highest)
           r == TickHandler(w)
<1>1. tasks \subseteq Task BY DEF Worlds
<1>2. /\ x \in Worlds /\ Good(x) /\ x.timer = w.timer
      /\ \A t \in expired : ~ x.conn[t.owner].listening
  <2>1. x \in PartDone(w, expired, w.timer.highest) BY SocketsClosedDone
  <2>2. \A t \in expired : t.id <= w.timer.highest
    BY DEF Good, TasksGood, Worlds, Task
  <2> HIDE DEF x, expired
  <2> QED BY <2>1, <2>2 DEF PartDone
<1>3. r = [x EXCEPT !.timer = [tasks |-> kept, highest |-> h, armed |-> TRUE]]
  BY DEF TickHandler, Then
<1>4. \A s \in kept : /\ s \in Task
                      /\ \E t \in tasks \ expired : s = [t EXCEPT !.left = @ - 1]
                                                    /\ s.id = t.id /\ s.owner = t.owner
  BY <1>1 DEF Task
<1>5. ASSUME NEW t \in tasks \ expired PROVE \E s \in kept : s.owner = t.owner
  <2>1. [t EXCEPT !.left = @ - 1] \in kept OBVIOUS
  <2>2. [t EXCEPT !.left = @ - 1].owner = t.owner BY <1>1 DEF Task
  <2> HIDE DEF kept
  <2> QED BY <2>1, <2>2
<1>6. h \in Nat /\ (kept # {} => h = w.timer.highest)
  BY <1>2 DEF NextHighest, Worlds
<1> HIDE DEF x, h, r, kept
<1>7. /\ r \in Worlds /\ r.conn = x.conn /\ r.queue = x.queue
      /\ r.timer.tasks = kept /\ r.timer.highest = h
  BY <1>2, <1>3, <1>4, <1>6 DEF Worlds
<1>8. TasksGood(r)
  <2> SUFFICES ASSUME NEW s \in kept
               PROVE  /\ x.conn[s.owner].life = "live" /\ x.conn[s.owner].taskId = s.id
                      /\ s.id \in 1 .. h
                      /\ \A u \in kept : s.id = u.id => s = u
    BY <1>7 DEF TasksGood
  <2>1. PICK t \in tasks : /\ s = [t EXCEPT !.left = @ - 1]
                           /\ s.id = t.id /\ s.owner = t.owner
    BY <1>4
  <2>2. /\ x.conn[t.owner].life = "live" /\ x.conn[t.owner].taskId = t.id
        /\ t.id \in 1 .. w.timer.highest /\ \A u \in tasks : t.id = u.id => t = u
    BY <1>2 DEF Good, TasksGood
  <2>3. h = w.timer.highest BY <1>6
  <2>4. ASSUME NEW u \in kept, s.id = u.id PROVE s = u
    <3>1. PICK y \in tasks : u = [y EXCEPT !.left = @ - 1] /\ u.id = y.id BY <1>4
    <3> QED BY <2>1, <2>2, <2>4, <3>1
  <2> QED BY <2>1, <2>2, <2>3, <2>4
<1>9. TicksGood(r) BY <1>2, <1>7 DEF Good, TicksGood
<1>10. ASSUME NEW d \in Conn PROVE ObjectGood(r, d)
  <2>1. ObjectGood(x, d) BY <1>2 DEF Good
  <2>2. Watched(r, d)
    <3> SUFFICES ASSUME x.conn[d].listening, ~ x.conn[d].robbed PROVE HasTask(r, d)
      BY <1>7 DEF Watched
    <3>1. PICK t \in tasks : t.owner = d BY <1>2, <2>1 DEF ObjectGood, Watched, HasTask
    <3>2. t \notin expired BY <1>2, <3>1
    <3> QED BY <1>5, <1>7, <3>1, <3>2 DEF HasTask
  <2> QED BY <1>7, <2>1, <2>2 DEF ObjectGood
<1> QED BY <1>7, <1>8, <1>9, <1>10 DEF Good, r

-----------------------------------------------------------------------------
(* Taking the first handler from the queue *)
LEMMA TailShifts ==
  ASSUME NEW q \in Seq(Entry), q # <<>>
  PROVE  /\ Head(q) = q[1] /\ 1 \in DOMAIN q /\ Head(q) \in Entry
         /\ Tail(q) \in Seq(Entry)
         /\ \A i \in DOMAIN Tail(q) :
               i \in Nat \ {0} /\ i + 1 \in DOMAIN q /\ Tail(q)[i] = q[i + 1]
OBVIOUS

LEMMA TailWaiting ==
  ASSUME NEW q \in Seq(Entry), q # <<>>, NEW k, NEW d, Handlers(q, k, d)
  PROVE  /\ Handlers(Tail(q), k, d)
         /\ Head(q).of = d =>
              /\ k.life = "live" \/ (k.life = "gone" /\ k.overlapped)
              /\ Head(q).kind = "start" =>
                   ~ k.listening /\ \A kind : Waiting(Tail(q), d, kind) = {}
              /\ Head(q).kind = "read" =>
                   /\ k.reading /\ ~ k.listening
                   /\ Waiting(Tail(q), d, "start") = {} /\ Waiting(Tail(q), d, "read") = {}
              /\ Head(q).kind = "write" =>
                   /\ Waiting(Tail(q), d, "start") = {}
                   /\ ~ k.overlapped => Waiting(Tail(q), d, "write") = {} /\ k.flying = 0
<1> DEFINE r == Tail(q)
           e == Head(q)
<1>1. /\ e = q[1] /\ 1 \in DOMAIN q
      /\ \A i \in DOMAIN r : i \in Nat \ {0} /\ i + 1 \in DOMAIN q /\ r[i] = q[i + 1]
  BY TailShifts
<1> HIDE DEF r, e
<1>2. \A kind : \A i \in Waiting(r, d, kind) : i \in Nat \ {0} /\ i + 1 \in Waiting(q, d, kind)
  BY <1>1 DEF Waiting
<1>3. ASSUME NEW kind, AtMostOne(Waiting(q, d, kind)) PROVE AtMostOne(Waiting(r, d, kind))
  BY <1>2, <1>3 DEF AtMostOne
<1>4. ASSUME NEW kind, AtMostOne(Waiting(q, d, kind)), e.of = d, e.kind = kind
      PROVE  Waiting(r, d, kind) = {}
  <2>1. 1 \in Waiting(q, d, kind) BY <1>1, <1>4 DEF Waiting
  <2> QED BY <1>2, <1>4, <2>1 DEF AtMostOne
<1>5. NoneWaiting(q, d) => NoneWaiting(r, d) /\ e.of # d BY <1>1 DEF NoneWaiting
<1>6. StartGood(r, k, d)
  <2> SUFFICES ASSUME NEW i \in Waiting(r, d, "start")
               PROVE  /\ \A j \in DOMAIN r : r[j].of = d => j = i
                      /\ ~ k.listening /\ k.flying = 0
    BY DEF StartGood
  <2>1. /\ \A j \in DOMAIN q : q[j].of = d => j = i + 1
        /\ ~ k.listening /\ k.flying = 0
    BY <1>2 DEF Handlers, StartGood
  <2>2. i \in Nat BY <1>2
  <2> QED BY <1>1, <2>1, <2>2
<1>7. ReadGood(r, k, d) BY <1>2, <1>3 DEF Handlers, ReadGood
<1>8. WriteGood(r, k, d) BY <1>2, <1>3 DEF Handlers, WriteGood
<1>9. LifeGood(r, k, d) BY <1>5 DEF Handlers, LifeGood, Quiet
<1>10. ASSUME e.of = d PROVE k.life = "live" \/ (k.life = "gone" /\ k.overlapped)
  BY <1>5, <1>10 DEF Handlers, LifeGood, Quiet
<1>11. ASSUME e.of = d, NEW i \in Waiting(r, d, "start") PROVE FALSE
  <2>1. \A j \in DOMAIN q : q[j].of = d => j = i + 1
    BY <1>2 DEF Handlers, StartGood
  <2> QED BY <1>1, <1>2, <1>11, <2>1
<1>12. ASSUME e.of = d, e.kind = "start"
       PROVE  ~ k.listening /\ \A kind : Waiting(r, d, kind) = {}
  <2>1. 1 \in Waiting(q, d, "start") BY <1>1, <1>12 DEF Waiting
  <2>2. ~ k.listening /\ \A j \in DOMAIN q : q[j].of = d => j = 1
    BY <2>1 DEF Handlers, StartGood
  <2>3. \A kind : \A i \in Waiting(r, d, kind) : FALSE
    BY <1>2, <2>2 DEF Waiting
  <2> QED BY <2>2, <2>3
<1>13. ASSUME e.of = d, e.kind = "read"
       PROVE  k.reading /\ ~ k.listening /\ Waiting(r, d, "read") = {}
  <2>1. 1 \in Waiting(q, d, "read") BY <1>1, <1>13 DEF Waiting
  <2> QED BY <2>1, <1>4, <1>13 DEF Handlers, ReadGood
<1>14. ASSUME e.of = d, e.kind = "write", ~ k.overlapped
       PROVE  Waiting(r, d, "write") = {} /\ k.flying = 0
  <2>1. 1 \in Waiting(q, d, "write") BY <1>1, <1>14 DEF Waiting
  <2> QED BY <2>1, <1>4, <1>14 DEF Handlers, WriteGood
<1> QED BY <1>6, <1>7, <1>8, <1>9, <1>10, <1>11, <1>12, <1>13, <1>14 DEF Handlers, r, e

LEMMA Popped ==
  ASSUME NEW w \in Worlds, Good(w), w.queue # <<>>
  PROVE  LET p == [w EXCEPT !.queue = Tail(w.queue)] IN
         /\ p \in Worlds /\ Good(p) /\ p.conn = w.conn /\ p.queue = Tail(w.queue)
<1> DEFINE p == [w EXCEPT !.queue = Tail(w.queue)]
<1>1. p \in Worlds /\ p.conn = w.conn /\ p.queue = Tail(w.queue) /\ p.timer = w.timer
  <2>1. Tail(w.queue) \in Seq(Entry) BY TailShifts, ObjectOf DEF Worlds
  <2> QED BY <2>1 DEF Worlds
<1> HIDE DEF p
<1>2. w.queue \in Seq(Entry) BY DEF Worlds
<1>3. TicksGood(p)
  <2>1. \A i \in DOMAIN p.queue : i + 1 \in DOMAIN w.queue /\ p.queue[i] = w.queue[i + 1]
    BY <1>1, <1>2, TailShifts
  <2> QED BY <2>1 DEF Good, TicksGood
<1>4. TasksGood(p) BY <1>1 DEF Good, TasksGood
<1>5. ASSUME NEW d \in Conn PROVE ObjectGood(p, d)
  <2>1. Handlers(p.queue, w.conn[d], d)
    BY <1>1, <1>2, TailWaiting DEF Good, ObjectGood
  <2> QED BY <1>1, <2>1 DEF Good, ObjectGood, Watched, HasTask
<1> QED BY <1>1, <1>3, <1>4, <1>5 DEF Good, p

(* The thread takes up a new state that is as it must be. *)
LEMMA Becomes ==
  ASSUME NEW v \in Worlds, Good(v), Become(v)
  PROVE  TypeOK' /\ Inv'
<1>1. World' = v
  <2>1. v = [conn |-> v.conn, queue |-> v.queue, timer |-> v.timer, length |-> v.length]
    BY DEF Worlds
  <2> QED BY <2>1 DEF Become, World
<1>2. TypeOK' BY <1>1 DEF TypeOK
<1>3. Inv'
  <2>1. Good(World') BY <1>1
  <2> QED BY <2>1 DEF Inv
<1> QED BY <1>2, <1>3

LEMMA WorldIs ==
  /\ World.conn = conn /\ World.queue = queue /\ World.timer = timer /\ World.length = length
BY DEF World

LEMMA RunGood == ASSUME TypeOK, Inv, Run PROVE TypeOK' /\ Inv'
<1> DEFINE e == Head(queue)
           w == [World EXCEPT !.queue = Tail(queue)]
           c == e.of
           dead == e.kind # "tick" /\ conn[e.of].life = "gone"
           result ==
               CASE dead -> w
                 [] ~ dead /\ e.kind = "start" ->
                      Then(StartDeadline(w, e.of), LAMBDA v : DoRead(v, e.of))
                 [] ~ dead /\ e.kind = "read" -> ReadHandler(w, e.of, e.ok, e.bring)
                 [] ~ dead /\ e.kind = "write" -> WriteHandler(w, e.of, e.ok)
                 [] OTHER -> TickHandler(w)
<1>1. queue # <<>> /\ Become(result) BY DEF Run
<1>2. queue \in Seq(Entry) /\ World \in Worlds /\ Good(World) /\ conn \in [Conn -> Object]
  BY WorldIs DEF TypeOK, Inv, Worlds
<1>3. w \in Worlds /\ Good(w) /\ w.conn = conn /\ w.queue = Tail(queue)
  BY <1>1, <1>2, WorldIs, Popped
<1>4. e \in Entry BY <1>1, <1>2, TailShifts
<1>5. e.kind = "tick" <=> e.of = "none"
  <2>1. Head(queue) = queue[1] /\ 1 \in DOMAIN queue BY <1>1, <1>2, TailShifts
  <2> QED BY <1>2, <2>1, WorldIs DEF Good, TicksGood
<1>6. ASSUME c \in Conn, ~ dead, e.kind # "tick"
      PROVE  /\ conn[c].life = "live"
             /\ e.kind = "start" => Settled(w, c)
             /\ e.kind = "read" => w \in Busy(c)
             /\ e.kind = "write" =>
                  /\ Waiting(w.queue, c, "start") = {}
                  /\ ~ conn[c].overlapped =>
                        Waiting(w.queue, c, "write") = {} /\ conn[c].flying = 0
  <2>1. Handlers(queue, conn[c], c) BY <1>2, <1>6, WorldIs DEF Good, ObjectGood
  <2> HIDE DEF w
  <2> QED BY <1>1, <1>2, <1>3, <1>6, <2>1, TailWaiting DEF Settled, Busy
<1> HIDE DEF w, dead
<1>7. result \in Worlds /\ Good(result)
  <2>1. CASE dead
    <3>1. result = w BY <2>1
    <3> QED BY <1>3, <3>1
  <2>2. CASE ~ dead /\ e.kind = "start"
    <3>1. result = GoOnReading(w, c) BY <2>2 DEF GoOnReading
    <3> HIDE DEF result
    <3>2. c \in Conn BY <1>4, <1>5, <2>2 DEF Entry
    <3> HIDE DEF e
    <3> QED BY <1>3, <1>6, <2>2, <3>1, <3>2, GoOnReadingGood
  <2>3. CASE ~ dead /\ e.kind = "read"
    <3>1. result = ReadHandler(w, c, e.ok, e.bring) BY <2>3
    <3> HIDE DEF result
    <3>2. c \in Conn /\ e.ok \in BOOLEAN /\ e.bring \in Seq(Calls)
      BY <1>4, <1>5, <2>3 DEF Entry
    <3> HIDE DEF e
    <3> QED BY <1>6, <2>3, <3>1, <3>2, ReadHandlerGood
  <2>4. CASE ~ dead /\ e.kind = "write"
    <3>1. result = WriteHandler(w, c, e.ok) BY <2>4
    <3> HIDE DEF result
    <3>2. c \in Conn /\ e.ok \in BOOLEAN BY <1>4, <1>5, <2>4 DEF Entry
    <3> HIDE DEF e
    <3> QED BY <1>3, <1>6, <2>4, <3>1, <3>2, WriteHandlerGood
  <2>5. CASE ~ dead /\ e.kind = "tick"
    <3>1. result = TickHandler(w) BY <2>5
    <3> HIDE DEF result
    <3> QED BY <1>3, <3>1, TickHandlerGood
  <2> HIDE DEF result
  <2>6. e.kind \in {"start", "read", "write", "tick"} BY <1>4 DEF Entry
  <2> QED BY <2>1, <2>2, <2>3, <2>4, <2>5, <2>6
<1> HIDE DEF result
<1> QED BY <1>1, <1>7, Becomes

LEMMA TickGood == ASSUME TypeOK, Inv, Tick PROVE TypeOK' /\ Inv'
<1> DEFINE e == Queued("tick", "none", TRUE, <<>>)
           r == Append(queue, e)
           v == [World EXCEPT !.timer.armed = FALSE, !.queue = r]
<1>1. queue \in Seq(Entry) /\ World \in Worlds /\ Good(World)
  BY WorldIs DEF TypeOK, Inv, Worlds
<1>2. e \in Entry /\ e.of = "none" /\ e.kind = "tick" BY DEF Queued, Entry
<1> HIDE DEF e
<1>3. /\ r \in Seq(Entry) /\ DOMAIN queue \subseteq DOMAIN r
      /\ \A i \in DOMAIN queue : r[i] = queue[i]
      /\ \A i \in DOMAIN r \ DOMAIN queue : r[i] = e
  <2>1. DOMAIN queue = 1 .. Len(queue) /\ Len(queue) \in Nat BY <1>1
  <2>2. /\ r \in Seq(Entry) /\ DOMAIN r = 1 .. Len(queue) + 1
        /\ \A i \in 1 .. Len(queue) : r[i] = queue[i]
        /\ r[Len(queue) + 1] = e
    BY <1>1, <1>2, <2>1
  <2>3. 1 .. Len(queue) + 1 = 1 .. Len(queue) \cup {Len(queue) + 1} BY <2>1
  <2> QED BY <2>1, <2>2, <2>3
<1> HIDE DEF r
<1>4. /\ v \in Worlds /\ v.conn = conn /\ v.queue = r
      /\ v.timer.tasks = timer.tasks /\ v.timer.highest = timer.highest
  BY <1>1, <1>3, WorldIs DEF Worlds
<1>5. Become(v)
  <2>1. timer' = [timer EXCEPT !.armed = FALSE] /\ queue' = r /\ conn' = conn /\ length' = length
    BY DEF Tick, Post, r, e
  <2>2. v.timer = [timer EXCEPT !.armed = FALSE] /\ v.length = length
    BY <1>1, WorldIs DEF Worlds
  <2> HIDE DEF v
  <2> QED BY <1>4, <2>1, <2>2 DEF Become
<1> HIDE DEF v
<1>6. TasksGood(v) BY <1>1, <1>4, WorldIs DEF Good, TasksGood
<1>7. TicksGood(v) BY <1>1, <1>2, <1>3, <1>4, WorldIs DEF Good, TicksGood
<1>8. ASSUME NEW d \in Conn PROVE ObjectGood(v, d)
  <2>1. Spares(queue, r, d) BY <1>2, <1>3 DEF Spares
  <2>2. Handlers(r, conn[d], d) BY <1>1, <2>1, WorldIs, OthersWaiting DEF Good, ObjectGood
  <2> QED BY <1>1, <1>4, <2>2, WorldIs DEF Good, ObjectGood, Watched, HasTask
<1> QED BY <1>4, <1>5, <1>6, <1>7, <1>8, Becomes DEF Good

(* An object without a deadline becomes another one. *)
LEMMA ReplacedGood ==
  ASSUME NEW w \in Worlds, NEW c \in Conn, Good(w), w.conn[c].life # "live" \/ ~ HasTask(w, c),
         NEW v \in Worlds, v.timer = w.timer, GrowsBy(w.queue, v.queue, c),
         \A d \in Conn \ {c} : v.conn[d] = w.conn[d],
         Handlers(v.queue, v.conn[c], c), FlagsGood(v.conn[c]), ~ v.conn[c].listening
  PROVE  Good(v)
<1>1. \A t \in w.timer.tasks : t.owner \in Conn \ {c} 
  BY DEF Good, TasksGood, HasTask, Worlds, Task
<1>2. TasksGood(v) BY <1>1 DEF Good, TasksGood
<1>3. TicksGood(v) BY DEF Good, TicksGood, GrowsBy
<1>4. ASSUME NEW d \in Conn, d # c PROVE ObjectGood(v, d)
  <2>1. v.conn[d] = w.conn[d] BY <1>4
  <2>2. Spares(w.queue, v.queue, d) BY <1>4 DEF GrowsBy, Spares
  <2>3. Handlers(v.queue, v.conn[d], d) BY <2>1, <2>2, OthersWaiting DEF Good, ObjectGood
  <2> QED BY <2>1, <2>3 DEF Good, ObjectGood, Watched, HasTask
<1>5. ObjectGood(v, c) BY DEF ObjectGood, Watched
<1> QED BY <1>2, <1>3, <1>4, <1>5 DEF Good

LEMMA AllocateGood ==
  ASSUME TypeOK, Inv, NEW c \in Conn, NEW id \in Garbage, Allocate(c, id)
  PROVE  TypeOK' /\ Inv'
<1> DEFINE l == Fresh(id)
           v == [World EXCEPT !.conn = [conn EXCEPT ![c] = l], !.length = length + 1]
<1>1. queue \in Seq(Entry) /\ World \in Worlds /\ Good(World) /\ length \in Int
      /\ conn \in [Conn -> Object]
  BY WorldIs DEF TypeOK, Inv, Worlds
<1>2. /\ l \in Object /\ l.life = "accepting" /\ ~ l.listening /\ l.flying = 0
      /\ ~ l.reading /\ ~ l.writing /\ ~ l.completed /\ ~ l.skipped
  BY DEF Fresh, Object, Lives
<1> HIDE DEF l
<1>3. conn[c].life # "live" /\ NoneWaiting(queue, c)
  <2>1. Handlers(queue, conn[c], c) BY <1>1, WorldIs DEF Good, ObjectGood
  <2>2. CASE conn[c].life = "none" BY <2>1, <2>2 DEF Handlers, LifeGood, Quiet
  <2>3. CASE conn[c].life = "gone" /\ Posted(queue, c) = {}
    BY <2>3 DEF Posted, NoneWaiting
  <2> QED BY <2>2, <2>3 DEF Allocate
<1>4. /\ v \in Worlds /\ v.timer = timer /\ v.queue = queue /\ v.conn[c] = l
      /\ \A d \in Conn \ {c} : v.conn[d] = conn[d]
  <2>1. [conn EXCEPT ![c] = l] \in [Conn -> Object] /\ length + 1 \in Int BY <1>1, <1>2
  <2> QED BY <1>1, <2>1, WorldIs DEF Worlds
<1>5. Become(v) BY <1>1, WorldIs DEF Become, Allocate, Worlds, l
<1> HIDE DEF v
<1>6. Handlers(queue, l, c)
  BY <1>2, <1>3 DEF Handlers, StartGood, ReadGood, WriteGood, LifeGood, Quiet, NoneWaiting,
                    Waiting, AtMostOne
<1>7. FlagsGood(l) BY <1>2 DEF FlagsGood
<1>8. Good(v) BY <1>1, <1>2, <1>3, <1>4, <1>6, <1>7, WorldIs, Still, ReplacedGood
<1> QED BY <1>4, <1>5, <1>8, Becomes

LEMMA AcceptGood ==
  ASSUME TypeOK, Inv, NEW c \in Conn, Accept(c)
  PROVE  TypeOK' /\ Inv'
<1> DEFINE l == [conn[c] EXCEPT !.life = "live"]
           e == Queued("start", c, TRUE, <<>>)
           r == Append(queue, e)
           v == With(World, c, l, r)
<1>1. queue \in Seq(Entry) /\ World \in Worlds /\ Good(World) /\ conn[c] \in Object
      /\ conn[c].life = "accepting"
  BY WorldIs DEF TypeOK, Inv, Worlds, Accept
<1>2. Handlers(queue, conn[c], c) /\ FlagsGood(conn[c])
  BY <1>1, WorldIs DEF Good, ObjectGood
<1>3. Quiet(queue, conn[c], c) BY <1>1, <1>2 DEF Handlers, LifeGood
<1>4. e \in Entry /\ e.of = c /\ e.kind = "start" BY DEF Queued, Entry
<1> HIDE DEF e
<1>5. Posts(queue, r, "start", c) BY <1>1, <1>4, AppendPosts
<1>6. r \in Seq(Entry) /\ GrowsBy(queue, r, c) BY <1>5 DEF Posts
<1>7. l \in Object BY <1>1 DEF Object, Lives
<1>8. /\ v \in Worlds /\ v.timer = timer /\ v.queue = r /\ v.conn[c] = l
      /\ \A d \in Conn \ {c} : v.conn[d] = conn[d]
  <2> HIDE DEF l, r
  <2> QED BY <1>1, <1>6, <1>7, WithIs, WorldIs
<1>9. Become(v)
  BY <1>1, <1>8, WorldIs DEF Become, Accept, Post, With, Worlds, e
<1>10. /\ l.life = "live" /\ ~ l.listening /\ l.flying = 0 /\ l.reading = conn[c].reading
       /\ l.writing = conn[c].writing /\ l.completed = conn[c].completed
       /\ l.skipped = conn[c].skipped /\ l.overlapped = conn[c].overlapped
  BY <1>1, <1>3 DEF Object, Quiet
<1> HIDE DEF v, l, r
<1>11. FlagsGood(l) BY <1>2, <1>10 DEF FlagsGood
<1>12. /\ Waiting(r, c, "read") = {} /\ Waiting(r, c, "write") = {}
       /\ \A i, j \in DOMAIN r : r[i].of = c /\ r[j].of = c => i = j
  <2>1. \A i \in DOMAIN queue : r[i].of # c BY <1>3, <1>6 DEF Quiet, NoneWaiting, GrowsBy
  <2>2. \A i \in DOMAIN r : r[i].of = c => i = Len(queue) + 1 /\ r[i].kind = "start"
    BY <1>5, <2>1 DEF Posts
  <2> QED BY <2>2 DEF Waiting
<1>13. Handlers(r, l, c)
  BY <1>10, <1>12 DEF Handlers, StartGood, ReadGood, WriteGood, LifeGood, AtMostOne, Waiting
<1>14. Good(v) BY <1>1, <1>6, <1>8, <1>10, <1>11, <1>13, WorldIs, ReplacedGood
<1> QED BY <1>8, <1>9, <1>14, Becomes

LEMMA AcceptFailsGood ==
  ASSUME TypeOK, Inv, NEW c \in Conn, AcceptFails(c)
  PROVE  TypeOK' /\ Inv'
<1> DEFINE x == Cancel(World, c)
           l == [conn[c] EXCEPT !.life = "gone"]
           v == [x EXCEPT !.length = @ - 1, !.conn[c].life = "gone"]
<1>1. queue \in Seq(Entry) /\ World \in Worlds /\ Good(World) /\ conn[c] \in Object
      /\ conn[c].life = "accepting" /\ Become(v)
  BY WorldIs DEF TypeOK, Inv, Worlds, AcceptFails
<1>2. Handlers(queue, conn[c], c) /\ FlagsGood(conn[c])
  BY <1>1, WorldIs DEF Good, ObjectGood
<1>3. Quiet(queue, conn[c], c) BY <1>1, <1>2 DEF Handlers, LifeGood
<1>4. /\ x \in Worlds /\ Good(x) /\ ~ HasTask(x, c) /\ x.conn[c] = conn[c]
      /\ x.queue = queue
  BY <1>1, <1>3, WorldIs, CancelGood DEF Quiet
<1> HIDE DEF x
<1>5. /\ l \in Object /\ l.life = "gone" /\ ~ l.listening /\ l.flying = 0
      /\ l.writing = conn[c].writing /\ l.completed = conn[c].completed
      /\ l.skipped = conn[c].skipped /\ l.overlapped = conn[c].overlapped
  BY <1>1, <1>3 DEF Object, Lives, Quiet
<1> HIDE DEF l
<1>6. /\ v \in Worlds /\ v.timer = x.timer /\ v.queue = queue /\ v.conn[c] = l
      /\ \A d \in Conn \ {c} : v.conn[d] = x.conn[d]
  <2> DEFINE n == x.length - 1
  <2>1. v = [x EXCEPT !.length = n, !.conn = [x.conn EXCEPT ![c] = l]] BY <1>4 DEF l
  <2>2. n \in Int BY <1>4 DEF Worlds
  <2> HIDE DEF v, n
  <2> QED BY <1>4, <1>5, <2>1, <2>2 DEF Worlds
<1> HIDE DEF v
<1>7. FlagsGood(l) BY <1>2, <1>5 DEF FlagsGood
<1>8. Quiet(queue, l, c) BY <1>3, <1>5 DEF Quiet
<1>9. Handlers(queue, l, c)
  BY <1>5, <1>8 DEF Handlers, StartGood, ReadGood, WriteGood, LifeGood, AtMostOne, Waiting,
                    Quiet, NoneWaiting
<1>10. Good(v) BY <1>4, <1>5, <1>6, <1>7, <1>9, Still, ReplacedGood
<1> QED BY <1>1, <1>6, <1>10, Becomes

(* The socket layer and the client change c and post its handlers. *)
LEMMA SocketGood ==
  ASSUME TypeOK, Inv, NEW c \in Conn, NEW l \in Object, NEW r \in Seq(Entry),
         l.life = conn[c].life, l.taskId = conn[c].taskId, GrowsBy(queue, r, c),
         Handlers(r, l, c), FlagsGood(l),
         l.listening => conn[c].listening /\ l.robbed = conn[c].robbed,
         conn' = [conn EXCEPT ![c] = l], queue' = r, timer' = timer, length' = length
  PROVE  TypeOK' /\ Inv'
<1> DEFINE v == With(World, c, l, r)
<1>1. World \in Worlds /\ Good(World) BY DEF TypeOK, Inv
<1>2. /\ v \in Worlds /\ v.timer = timer /\ v.queue = r /\ v.conn[c] = l
      /\ \A d \in Conn \ {c} : v.conn[d] = conn[d]
  BY <1>1, WithIs, WorldIs
<1>3. Become(v) BY <1>1, <1>2, WorldIs DEF Become, With, Worlds
<1> HIDE DEF v
<1>4. Touches(World, v, c) BY <1>2, WorldIs DEF Touches
<1>5. ObjectGood(v, c) BY <1>1, <1>2, WorldIs DEF Good, ObjectGood, Watched, HasTask
<1>6. Good(v) BY <1>1, <1>4, <1>5, TouchesGood
<1> QED BY <1>2, <1>3, <1>6, Becomes

LEMMA DataArrivesGood ==
  ASSUME TypeOK, Inv, NEW c \in Conn, NEW bring \in Contents, DataArrives(c, bring)
  PROVE  TypeOK' /\ Inv'
<1> DEFINE k == conn[c]
           l == [k EXCEPT !.listening = FALSE]
           e == Queued("read", c, TRUE, bring)
           r == Append(queue, e)
<1>1. queue \in Seq(Entry) /\ k \in Object /\ k.listening
      /\ Handlers(queue, k, c) /\ FlagsGood(k)
  BY WorldIs DEF TypeOK, Inv, Worlds, DataArrives, Good, ObjectGood
<1>2. /\ conn' = [conn EXCEPT ![c] = l] /\ queue' = r /\ timer' = timer /\ length' = length
  BY DEF DataArrives, Post
<1>3. e \in Entry /\ e.of = c /\ e.kind = "read" BY DEF Queued, Entry
<1> HIDE DEF k, e
<1>4. Posts(queue, r, "read", c) BY <1>1, <1>3, AppendPosts
<1>5. r \in Seq(Entry) /\ GrowsBy(queue, r, c) BY <1>4 DEF Posts
<1>6. /\ l \in Object /\ ~ l.listening /\ l.life = k.life /\ l.taskId = k.taskId
      /\ l.flying = k.flying /\ l.reading = k.reading /\ l.writing = k.writing
      /\ l.completed = k.completed /\ l.skipped = k.skipped /\ l.overlapped = k.overlapped
  BY <1>1 DEF Object
<1> HIDE DEF l, r
<1>7. k.reading /\ k.life = "live" /\ Waiting(queue, c, "read") = {}
      /\ Waiting(queue, c, "start") = {}
  BY <1>1 DEF Handlers, ReadGood, StartGood
<1>8. /\ Waiting(r, c, "start") = {} /\ Waiting(r, c, "write") = Waiting(queue, c, "write")
      /\ AtMostOne(Waiting(r, c, "read"))
  BY <1>4, <1>7 DEF Waiting, Posts, GrowsBy, AtMostOne
<1>9. Handlers(r, l, c) /\ FlagsGood(l)
  BY <1>1, <1>6, <1>7, <1>8
     DEF Handlers, FlagsGood, StartGood, ReadGood, WriteGood, LifeGood
<1> QED BY <1>2, <1>5, <1>6, <1>9, SocketGood DEF k

LEMMA WriteDoneGood ==
  ASSUME TypeOK, Inv, NEW c \in Conn, WriteDone(c)
  PROVE  TypeOK' /\ Inv'
<1> DEFINE k == conn[c]
           f == k.flying - 1
           l == [k EXCEPT !.flying = f]
           e == Queued("write", c, k.peer, <<>>)
           r == Append(queue, e)
<1>1. /\ queue \in Seq(Entry) /\ k \in Object /\ k.flying > 0 /\ k.flying \in Nat
      /\ Handlers(queue, k, c) /\ FlagsGood(k) /\ Watched(World, c)
  BY WorldIs DEF TypeOK, Inv, Worlds, WriteDone, Good, ObjectGood, Object
<1>2. /\ conn' = [conn EXCEPT ![c] = l] /\ queue' = r /\ timer' = timer /\ length' = length
  BY DEF WriteDone, Post
<1>3. e \in Entry /\ e.of = c /\ e.kind = "write" /\ f \in Nat
  BY <1>1 DEF Queued, Entry, Object
<1> HIDE DEF k, e
<1>4. Posts(queue, r, "write", c) BY <1>1, <1>3, AppendPosts
<1>5. r \in Seq(Entry) /\ GrowsBy(queue, r, c) BY <1>4 DEF Posts
<1>6. /\ l \in Object /\ l.listening = k.listening /\ l.life = k.life /\ l.taskId = k.taskId
      /\ l.flying = f /\ l.reading = k.reading /\ l.writing = k.writing /\ l.open = k.open
      /\ l.completed = k.completed /\ l.skipped = k.skipped /\ l.overlapped = k.overlapped
      /\ l.robbed = k.robbed
  BY <1>1, <1>3 DEF Object
<1>7. k.flying = 1 => f = 0 BY <1>1
<1> HIDE DEF l, r, f
<1>8. Waiting(queue, c, "start") = {} BY <1>1 DEF Handlers, StartGood
<1>9. /\ Waiting(r, c, "start") = {} /\ Waiting(r, c, "read") = Waiting(queue, c, "read")
      /\ Waiting(queue, c, "write") = {} => AtMostOne(Waiting(r, c, "write"))
  BY <1>4, <1>8 DEF Waiting, Posts, GrowsBy, AtMostOne
<1>10. WriteGood(r, l, c)
  <2>1. ASSUME ~ k.overlapped
        PROVE  k.flying = 1 /\ k.writing /\ Waiting(queue, c, "write") = {}
    BY <1>1, <2>1 DEF Handlers, WriteGood
  <2> QED BY <1>7, <1>6, <1>9, <2>1 DEF WriteGood
<1>11. LifeGood(r, l, c) BY <1>1, <1>6 DEF Handlers, LifeGood, Quiet
<1>12. Handlers(r, l, c) /\ FlagsGood(l)
  BY <1>1, <1>6, <1>9, <1>10, <1>11 DEF Handlers, FlagsGood, StartGood, ReadGood
<1> QED BY <1>1, <1>2, <1>5, <1>6, <1>12, WorldIs, SocketGood DEF k

LEMMA ClientResetsGood ==
  ASSUME TypeOK, Inv, NEW c \in Conn, ClientResets(c)
  PROVE  TypeOK' /\ Inv'
<1> DEFINE k == conn[c]
           l == [k EXCEPT !.peer = FALSE, !.listening = FALSE]
           r == IF k.listening THEN Post(queue, "read", c, FALSE, <<>>) ELSE queue
<1>1. /\ queue \in Seq(Entry) /\ k \in Object /\ k.life = "live"
      /\ Handlers(queue, k, c) /\ FlagsGood(k)
  BY WorldIs DEF TypeOK, Inv, Worlds, ClientResets, Good, ObjectGood, Object
<1>2. /\ conn' = [conn EXCEPT ![c] = l] /\ queue' = r /\ timer' = timer /\ length' = length
  BY DEF ClientResets
<1>3. /\ l \in Object /\ ~ l.listening /\ l.life = k.life /\ l.taskId = k.taskId
      /\ l.flying = k.flying /\ l.reading = k.reading /\ l.writing = k.writing
      /\ l.completed = k.completed /\ l.skipped = k.skipped /\ l.overlapped = k.overlapped
  BY <1>1 DEF Object
<1>4. FlagsGood(l) BY <1>1, <1>3 DEF FlagsGood
<1>5. r \in Seq(Entry) /\ GrowsBy(queue, r, c) /\ Handlers(r, l, c)
  <2>1. CASE k.listening
    <3>1. Posts(queue, r, "read", c) BY <1>1, <2>1, FailurePosts
    <3> HIDE DEF k, l, r
    <3>2. k.reading /\ Waiting(queue, c, "read") = {} /\ Waiting(queue, c, "start") = {}
      BY <1>1, <2>1 DEF Handlers, ReadGood, StartGood
    <3>3. /\ Waiting(r, c, "start") = {} /\ Waiting(r, c, "write") = Waiting(queue, c, "write")
          /\ AtMostOne(Waiting(r, c, "read"))
      BY <3>1, <3>2 DEF Waiting, Posts, GrowsBy, AtMostOne
    <3>4. Handlers(r, l, c)
      BY <1>1, <1>3, <3>2, <3>3 DEF Handlers, StartGood, ReadGood, WriteGood, LifeGood
    <3> QED BY <3>1, <3>4 DEF Posts
  <2>2. CASE ~ k.listening
    <3>1. r = queue BY <2>2
    <3> HIDE DEF k, l, r
    <3>2. Handlers(queue, l, c)
      BY <1>1, <1>3, <2>2 DEF Handlers, StartGood, ReadGood, WriteGood, LifeGood
    <3> QED BY <1>1, <3>1, <3>2, Still
  <2> QED BY <2>1, <2>2
<1> HIDE DEF l, r
<1> QED BY <1>2, <1>3, <1>4, <1>5, SocketGood

LEMMA InitGood == ASSUME Init PROVE TypeOK /\ Inv
<1>1. None \in Object /\ None.life = "none" /\ ~ None.listening /\ None.flying = 0
      /\ ~ None.completed /\ ~ None.skipped
  BY DEF None, Fresh, Object, Lives
<1>2. /\ \A c \in Conn : World.conn[c] = None
      /\ World.queue = <<>> /\ World.timer.tasks = {} /\ World.length = 0
      /\ World.conn \in [Conn -> Object]
      /\ World.timer = [tasks |-> {}, highest |-> 0, armed |-> TRUE]
  BY <1>1 DEF Init, World
<1>3. World \in Worlds
  <2>1. World.queue \in Seq(Entry) /\ World.length \in Int BY <1>2
  <2>2. World.timer \in [tasks : SUBSET Task, highest : Nat, armed : BOOLEAN] BY <1>2
  <2> QED BY <1>2, <2>1, <2>2 DEF World, Worlds
<1>4. DOMAIN World.queue = {} BY <1>2
<1>5. TasksGood(World) /\ TicksGood(World) BY <1>2, <1>4 DEF TasksGood, TicksGood
<1>6. ASSUME NEW d \in Conn PROVE ObjectGood(World, d)
  BY <1>1, <1>2, <1>4 DEF ObjectGood, Handlers, StartGood, ReadGood, WriteGood, LifeGood, Quiet,
       NoneWaiting, Waiting, AtMostOne, FlagsGood, Watched
<1> QED BY <1>3, <1>5, <1>6 DEF TypeOK, Inv, Good

-----------------------------------------------------------------------------
(* The invariant holds in every state the server reaches. *)
THEOREM Invariance == Spec => [](TypeOK /\ Inv)
<1>1. ASSUME TypeOK, Inv, Next PROVE TypeOK' /\ Inv'
  BY <1>1, RunGood, TickGood, AllocateGood, AcceptGood, AcceptFailsGood, DataArrivesGood,
     WriteDoneGood, ClientResetsGood
     DEF Next
<1>2. ASSUME TypeOK, Inv, UNCHANGED vars PROVE TypeOK' /\ Inv'
  BY <1>2 DEF vars, TypeOK, Inv, World
<1>3. Init => TypeOK /\ Inv BY InitGood
<1>4. TypeOK /\ Inv /\ [Next]_vars => (TypeOK /\ Inv)' BY <1>1, <1>2
<1> QED BY <1>3, <1>4, PTL DEF Spec

(* Every task of the timer belongs to a connection that exists, under an   *)
(* identifier of its own, at or below the highest one.                     *)
THEOREM TimersHaveOwnersCorrect == Spec => []TimersHaveOwners
<1>1. TypeOK /\ Inv => TimersHaveOwners
  BY WorldIs DEF Inv, Good, TasksGood, TimersHaveOwners
<1> QED BY <1>1, Invariance, PTL

(* An object is deleted only when none of its handlers is still to run,    *)
(* unless its writes overlapped.                                           *)
THEOREM OutlivesHandlersCorrect == Spec => []OutlivesHandlers
<1>1. TypeOK /\ Inv => OutlivesHandlers
  <2> SUFFICES ASSUME TypeOK, Inv, NEW c \in Conn, conn[c].life = "gone", ~ conn[c].overlapped
               PROVE  Posted(queue, c) = {} /\ ~ conn[c].listening /\ conn[c].flying = 0
    BY DEF OutlivesHandlers
  <2>1. LifeGood(queue, conn[c], c) BY WorldIs DEF Inv, Good, ObjectGood, Handlers
  <2> QED BY <2>1 DEF LifeGood, Quiet, NoneWaiting, Posted
<1> QED BY <1>1, Invariance, PTL

(* A connection that waits for its client has a deadline, unless another   *)
(* object took it.                                                         *)
THEOREM DeadlineKeptCorrect == Spec => []DeadlineKept
<1>1. TypeOK /\ Inv => DeadlineKept
  BY WorldIs DEF Inv, Good, ObjectGood, Watched, HasTask, DeadlineKept
<1> QED BY <1>1, Invariance, PTL

(* Every request of a connection whose writes never overlapped is routed.  *)
THEOREM EveryRequestRoutedCorrect == Spec => []EveryRequestRouted
<1>1. TypeOK /\ Inv => EveryRequestRouted
  BY WorldIs DEF Inv, Good, ObjectGood, FlagsGood, EveryRequestRouted
<1> QED BY <1>1, Invariance, PTL
=============================================================================
