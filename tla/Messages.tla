------------------------------ MODULE Messages ------------------------------
(***************************************************************************)
(* The messages master and worker exchange, as the generated code of       *)
(* central.pb.h and central.pb.cc handles them: objects with accessors,    *)
(* the writer, the size computation and the parser of the wire format, and *)
(* merge, copy, clear and swap.  Every generated function lists the fields *)
(* it treats on its own; the tables below keep those lists apart, function *)
(* by function, so that a disagreement between two of them can show.       *)
(*                                                                         *)
(* Data: a string is abstracted to its length (0 is the empty string);     *)
(* the strings in Mangled are not valid UTF-8.  A message on the wire is a *)
(* sequence of fields [tag, value, body]: the value is the varint, or the  *)
(* length written before a string or a nested message; body holds the      *)
(* fields of a nested message.                                             *)
(***************************************************************************)
EXTENDS Accumulate, FiniteSets

CONSTANTS Types,       \* the message types the run looks at
          Slot,        \* the objects of that type in play
          Ints,        \* int32 values, zero included
          Texts,       \* lengths of strings, zero included
          Mangled,     \* the strings that are not valid UTF-8
          ForeignTags, \* tags of the fields of another central.proto
          MaxCalls     \* bound: calls made on the objects

ASSUME DataAssumption ==
    /\ 0 \in Ints /\ 0 \in Texts
    /\ Ints \subseteq Int /\ Texts \subseteq Nat /\ Mangled \subseteq Texts \ {0}

VARIABLES type,   \* the message type this behaviour is about
          obj,    \* obj[s]: the fields of object s, and those it does not know
          mail,   \* the encoded message under way, if any
          calls

vars == <<type, obj, mail, calls>>

-----------------------------------------------------------------------------
(* The classes: the members in the order they lie in memory, and the kind  *)
(* of accessors each field has (a type name: a repeated field of it).      *)

TaskReceptionLayout == <<"message">>
TaskCompletionAckLayout == <<"message">>
ResultFileLayout == <<"filename">>
TaskCompletionLayout == <<"result_files", "task_id", "worker_id">>
FileInfoLayout == <<"fname", "start", "end">>
TaskLayout == <<"files", "output_files", "task_type", "status", "master_url",
                "task_id", "worker_id", "num_reducers", "reducer_id", "job_id">>

TaskReceptionKinds == [message |-> "string"]
TaskCompletionAckKinds == [message |-> "string"]
ResultFileKinds == [filename |-> "string"]
TaskCompletionKinds ==
    [task_id |-> "int32", worker_id |-> "int32", result_files |-> "ResultFile"]
FileInfoKinds == [fname |-> "string", start |-> "int32", end |-> "int32"]
TaskKinds ==
    [task_id |-> "int32", worker_id |-> "int32", num_reducers |-> "int32",
     task_type |-> "string", files |-> "FileInfo", reducer_id |-> "int32",
     job_id |-> "int32", status |-> "string", output_files |-> "ResultFile",
     master_url |-> "string"]

\* mutant: the range ends where the last member begins
Span_WithoutLast(layout, first, last) ==
    LET At(f) == CHOOSE i \in DOMAIN layout : layout[i] = f
    IN {layout[i] : i \in At(first) .. At(last) - 1}

(* The members from first to last: what one memset, memcpy or memswap over *)
(* [&first, &last + sizeof(last)) reaches.                                 *)
Span(layout, first, last) ==
    LET At(f) == CHOOSE i \in DOMAIN layout : layout[i] = f
    IN {layout[i] : i \in At(first) .. At(last)}

-----------------------------------------------------------------------------
(* The copy constructors, Clear, and InternalSwap: the fields they reach.  *)

TaskReceptionCopied == {"message"}
TaskCompletionAckCopied == {"message"}
ResultFileCopied == {"filename"}
TaskCompletionCopied ==
    {"result_files"} \cup Span(TaskCompletionLayout, "task_id", "worker_id")
FileInfoCopied == {"fname"} \cup Span(FileInfoLayout, "start", "end")
TaskCopied == {"files", "output_files", "task_type", "status", "master_url"}
                  \cup Span(TaskLayout, "task_id", "job_id")

TaskReceptionCleared == {"message"}
TaskCompletionAckCleared == {"message"}
ResultFileCleared == {"filename"}
TaskCompletionCleared ==
    {"result_files"} \cup Span(TaskCompletionLayout, "task_id", "worker_id")
FileInfoCleared == {"fname"} \cup Span(FileInfoLayout, "start", "end")
TaskCleared == {"files", "output_files", "task_type", "status", "master_url"}
                   \cup Span(TaskLayout, "task_id", "job_id")

TaskReceptionSwapped == {"message"}
TaskCompletionAckSwapped == {"message"}
ResultFileSwapped == {"filename"}
TaskCompletionSwapped ==
    {"result_files"} \cup Span(TaskCompletionLayout, "task_id", "worker_id")
FileInfoSwapped == {"fname"} \cup Span(FileInfoLayout, "start", "end")
TaskSwapped == {"files", "output_files", "task_type", "status", "master_url"}
                   \cup Span(TaskLayout, "task_id", "job_id")

(* MergeFrom: the fields it takes over.                                    *)
TaskReceptionMerged == {"message"}
TaskCompletionAckMerged == {"message"}
ResultFileMerged == {"filename"}
TaskCompletionMerged == {"result_files", "task_id", "worker_id"}
FileInfoMerged == {"fname", "start", "end"}
TaskMerged == {"files", "output_files", "task_type", "status", "master_url",
               "task_id", "worker_id", "num_reducers", "reducer_id", "job_id"}

(* _InternalParse: the tag under which a field is read.                    *)
TaskReceptionTags == [message |-> 10]
TaskCompletionAckTags == [message |-> 10]
ResultFileTags == [filename |-> 10]
TaskCompletionTags == [task_id |-> 8, worker_id |-> 16, result_files |-> 26]
FileInfoTags == [fname |-> 10, start |-> 16, end |-> 24]
\* mutant: two tags are exchanged
TaskTags_Crossed ==
    [task_id |-> 8, worker_id |-> 16, num_reducers |-> 24, task_type |-> 66,
     files |-> 42, reducer_id |-> 48, job_id |-> 56, status |-> 34,
     output_files |-> 74, master_url |-> 82]
TaskTags == [task_id |-> 8, worker_id |-> 16, num_reducers |-> 24,
             task_type |-> 34, files |-> 42, reducer_id |-> 48, job_id |-> 56,
             status |-> 66, output_files |-> 74, master_url |-> 82]

(* _InternalSerialize: the order of writing, which is that of the numbers. *)
TaskReceptionWritten == <<"message">>
TaskCompletionAckWritten == <<"message">>
ResultFileWritten == <<"filename">>
TaskCompletionWritten == <<"task_id", "worker_id", "result_files">>
FileInfoWritten == <<"fname", "start", "end">>
TaskWritten == <<"task_id", "worker_id", "num_reducers", "task_type", "files",
                 "reducer_id", "job_id", "status", "output_files", "master_url">>

(* ByteSizeLong: the fields it adds up.                                    *)
TaskReceptionSized == <<"message">>
TaskCompletionAckSized == <<"message">>
ResultFileSized == <<"filename">>
TaskCompletionSized == <<"result_files", "task_id", "worker_id">>
\* mutant: a field is not counted
FileInfoSized_NoEnd == <<"fname", "start">>
FileInfoSized == <<"fname", "start", "end">>
TaskSized == <<"files", "output_files", "task_type", "status", "master_url",
               "task_id", "worker_id", "num_reducers", "reducer_id", "job_id">>

Class(kinds, copied, cleared, swapped, merged, tags, written, sized) ==
    [kinds |-> kinds, copied |-> copied, cleared |-> cleared,
     swapped |-> swapped, merged |-> merged, tags |-> tags,
     written |-> written, sized |-> sized]

Code ==
    [TaskReception |->
        Class(TaskReceptionKinds, TaskReceptionCopied, TaskReceptionCleared,
              TaskReceptionSwapped, TaskReceptionMerged, TaskReceptionTags,
              TaskReceptionWritten, TaskReceptionSized),
     TaskCompletionAck |->
        Class(TaskCompletionAckKinds, TaskCompletionAckCopied,
              TaskCompletionAckCleared, TaskCompletionAckSwapped,
              TaskCompletionAckMerged, TaskCompletionAckTags,
              TaskCompletionAckWritten, TaskCompletionAckSized),
     ResultFile |->
        Class(ResultFileKinds, ResultFileCopied, ResultFileCleared,
              ResultFileSwapped, ResultFileMerged, ResultFileTags,
              ResultFileWritten, ResultFileSized),
     TaskCompletion |->
        Class(TaskCompletionKinds, TaskCompletionCopied, TaskCompletionCleared,
              TaskCompletionSwapped, TaskCompletionMerged, TaskCompletionTags,
              TaskCompletionWritten, TaskCompletionSized),
     FileInfo |->
        Class(FileInfoKinds, FileInfoCopied, FileInfoCleared, FileInfoSwapped,
              FileInfoMerged, FileInfoTags, FileInfoWritten, FileInfoSized),
     Task |->
        Class(TaskKinds, TaskCopied, TaskCleared, TaskSwapped, TaskMerged,
              TaskTags, TaskWritten, TaskSized)]

-----------------------------------------------------------------------------
Fields(t) == DOMAIN Code[t].kinds
Repeated(t, f) == Code[t].kinds[f] \notin {"int32", "string"}
Zero(t, f) == IF Repeated(t, f) THEN <<>> ELSE 0

\* no message of central.proto has a foreign tag; the writer of the other
\* version announces the varint or the length that follows it, or a group's end
ASSUME TypesAssumption ==
    /\ Types \subseteq DOMAIN Code
    /\ \A tag \in ForeignTags :
          /\ tag \in Nat /\ tag % 8 \in {0, 2, 4}
          /\ \A t \in DOMAIN Code : \A f \in Fields(t) : Code[t].tags[f] # tag

(* A default instance: what SharedCtor and the member constructors leave.  *)
Default(t) == [f \in Fields(t) \cup {"unknown"} |->
                  IF f = "unknown" THEN <<>> ELSE Zero(t, f)]

Copy(t, from) == [f \in DOMAIN from |->
                     IF f \in Code[t].copied \cup {"unknown"}
                     THEN from[f] ELSE Zero(t, f)]

Clear(t, m) == [f \in DOMAIN m |->
                   IF f = "unknown" THEN <<>>
                   ELSE IF f \in Code[t].cleared THEN Zero(t, f) ELSE m[f]]

Swapped(t, m, other) ==
    [f \in DOMAIN m |->
        IF f \in Code[t].swapped \cup {"unknown"} THEN other[f] ELSE m[f]]

\* mutant: a zero is taken over as well
MergeFrom_ZerosToo(t, m, from) ==
    [f \in DOMAIN m |->
        IF f = "unknown" \/ Repeated(t, f) THEN m[f] \o from[f] ELSE from[f]]

(* Repeated fields and unknown ones are appended; a scalar is taken over   *)
(* unless it is zero or empty.                                             *)
MergeFrom(t, m, from) ==
    [f \in DOMAIN m |->
        CASE f = "unknown" -> m[f] \o from[f]
          [] f \notin Code[t].merged \cup {"unknown"} -> m[f]
          [] f \in Code[t].merged /\ Repeated(t, f) -> m[f] \o from[f]
          [] OTHER -> IF from[f] # 0 THEN from[f] ELSE m[f]]

-----------------------------------------------------------------------------
(* The wire.  Int32Size: a negative value is sign-extended to ten bytes; a  *)
(* byte holds seven bits: 2^7, 2^14, 2^21 and 2^28 take one byte more.     *)

VarintSize(v) ==
    IF v < 0 THEN 10
    ELSE 1 + Cardinality({k \in {128, 16384, 2097152, 268435456} : v >= k})

Delimited(n) == VarintSize(n) + n

(* What a field takes on the wire, its tag included; a nested message's    *)
(* own fields are leaves.                                                  *)
LeafBytes(w) ==
    VarintSize(w.tag) + (IF w.tag % 8 = 0 THEN VarintSize(w.value) ELSE Delimited(w.value))
BodyBytes(body) == Total([j \in DOMAIN body |-> LeafBytes(body[j])], Len(body))
FieldBytes(w) ==
    IF w.body = <<>> THEN LeafBytes(w)
    ELSE VarintSize(w.tag) + Delimited(BodyBytes(w.body))
BytesOf(wire) == Total([i \in DOMAIN wire |-> FieldBytes(wire[i])], Len(wire))

(* ByteSizeLong; LeafSize is that of a nested message.                     *)
ScalarSize(t, m, f) ==
    IF m[f] = 0 THEN 0
    ELSE 1 + IF Code[t].kinds[f] = "int32" THEN VarintSize(m[f]) ELSE Delimited(m[f])
LeafSize(t, m) ==
    LET sized == Code[t].sized
    IN Total([i \in DOMAIN sized |-> ScalarSize(t, m, sized[i])], Len(sized))
           + BytesOf(m.unknown)
FieldSize(t, m, f) ==
    IF ~ Repeated(t, f) THEN ScalarSize(t, m, f)
    ELSE Len(m[f]) + Total([i \in DOMAIN m[f] |->
                               Delimited(LeafSize(Code[t].kinds[f], m[f][i]))], Len(m[f]))
ByteSizeLong(t, m) ==
    LET sized == Code[t].sized
    IN Total([i \in DOMAIN sized |-> FieldSize(t, m, sized[i])], Len(sized))
           + BytesOf(m.unknown)

(* _InternalSerialize: a scalar is written unless it is zero or empty, an  *)
(* element always, after its length; then the unknown fields.              *)
Tag(t, n) == 8 * n + IF Code[t].kinds[Code[t].written[n]] = "int32" THEN 0 ELSE 2
WriteScalar(t, m, n) ==
    LET f == Code[t].written[n]
    IN IF m[f] = 0 THEN <<>> ELSE <<[tag |-> Tag(t, n), value |-> m[f], body |-> <<>>]>>
LeafEncode(t, m) ==
    Joined([n \in DOMAIN Code[t].written |-> WriteScalar(t, m, n)]) \o m.unknown
Element(t, n, u, e) ==
    [tag |-> Tag(t, n), value |-> LeafSize(u, e), body |-> LeafEncode(u, e)]
WriteField(t, m, n) ==
    LET f == Code[t].written[n]
    IN IF ~ Repeated(t, f) THEN WriteScalar(t, m, n)
       ELSE [i \in DOMAIN m[f] |-> Element(t, n, Code[t].kinds[f], m[f][i])]
Encode(t, m) ==
    Joined([n \in DOMAIN Code[t].written |-> WriteField(t, m, n)]) \o m.unknown

(* _InternalParse: a known tag stores or appends, an end-group tag or tag  *)
(* 0 stops, any other field is kept as unknown.  A string that is not      *)
(* UTF-8 and a nested message that does not fill its length fail.          *)
Known(t, tag) == {f \in Fields(t) : Code[t].tags[f] = tag}
ScalarStatus(t, f, w) ==
    IF Code[t].kinds[f] = "int32" \/ w.value \notin Mangled THEN "reading" ELSE "failed"
LeafStep(t, s, w) ==
    CASE s.status # "reading" -> s
      [] s.status = "reading" /\ Known(t, w.tag) # {} ->
            LET f == CHOOSE g \in Known(t, w.tag) : TRUE
            IN [s EXCEPT !.m[f] = w.value, !.status = ScalarStatus(t, f, w)]
      [] /\ s.status = "reading" /\ Known(t, w.tag) = {}
         /\ (w.tag % 8 = 4 \/ w.tag = 0) -> [s EXCEPT !.status = "ended"]
      [] OTHER -> [s EXCEPT !.m.unknown = Append(@, w)]

Accepted(r) == r.status = "reading"
Start(m) == [m |-> m, status |-> "reading"]
LeafReads(t, s, wire) ==
    LET state[i \in 0 .. Len(wire)] ==
            IF i = 0 THEN s ELSE LeafStep(t, state[i - 1], wire[i])
    IN state
LeafParse(t, wire) == LeafReads(t, Start(Default(t)), wire)[Len(wire)]

NestedStatus(r, w) ==
    IF Accepted(r) /\ w.value = BytesOf(w.body) THEN "reading" ELSE "failed"
Step(t, s, w) ==
    IF s.status = "reading" /\ \E f \in Known(t, w.tag) : Repeated(t, f)
    THEN LET f == CHOOSE g \in Known(t, w.tag) : TRUE
             r == LeafParse(Code[t].kinds[f], w.body)
         IN [s EXCEPT !.m[f] = Append(@, r.m), !.status = NestedStatus(r, w)]
    ELSE LeafStep(t, s, w)
Reads(t, s, wire) ==
    LET state[i \in 0 .. Len(wire)] ==
            IF i = 0 THEN s ELSE Step(t, state[i - 1], wire[i])
    IN state
Parse(t, m, wire) == Reads(t, Start(m), wire)[Len(wire)]

-----------------------------------------------------------------------------
Call == calls < MaxCalls /\ calls' = calls + 1 /\ UNCHANGED type

(* set_x, clear_x, release_x, set_allocated_x and writing through          *)
(* mutable_x: the field holds the value, zero or empty when cleared.       *)
Value(kind) == IF kind = "int32" THEN Ints ELSE Texts
SetField(s, f) ==
    /\ Call
    /\ ~ Repeated(type, f)
    /\ \E v \in Value(Code[type].kinds[f]) : obj' = [obj EXCEPT ![s][f] = v]
    /\ UNCHANGED mail

(* add_x: a default element at the end; clear_x: none left.                *)
AddElement(s, f) ==
    /\ Call
    /\ Repeated(type, f)
    /\ obj' = [obj EXCEPT ![s][f] = Append(@, Default(Code[type].kinds[f]))]
    /\ UNCHANGED mail

ClearElements(s, f) ==
    /\ Call
    /\ Repeated(type, f)
    /\ obj' = [obj EXCEPT ![s][f] = <<>>]
    /\ UNCHANGED mail

(* A setter on what add_x or mutable_x(i) returned.                        *)
SetElement(s, f) ==
    /\ Call
    /\ Repeated(type, f)
    /\ LET kind == Code[type].kinds[f] IN
       \E i \in DOMAIN obj[s][f], g \in Fields(kind) :
          \E v \in Value(Code[kind].kinds[g]) :
             obj' = [obj EXCEPT ![s][f][i][g] = v]
    /\ UNCHANGED mail

(* operator=, CopyFrom: clear, then merge.                                 *)
Assign(s, r) ==
    /\ Call
    /\ s # r
    /\ obj' = [obj EXCEPT ![s] = MergeFrom(type, Clear(type, @), obj[r])]
    /\ UNCHANGED mail

(* Swap and, within one arena, the move assignment.                        *)
SwapWith(s, r) ==
    /\ Call
    /\ s # r
    /\ obj' = [obj EXCEPT ![s] = Swapped(type, @, obj[r]),
                          ![r] = Swapped(type, @, obj[s])]
    /\ UNCHANGED mail

(* A sender writes an object; a receiver reads into an object it clears;   *)
(* a message that does not parse is dropped by the RPC layer with what     *)
(* was read of it.                                                         *)
Send(s) ==
    /\ Call
    /\ mail = {}
    /\ mail' = {Encode(type, obj[s])}
    /\ UNCHANGED obj

Receive(s) ==
    /\ \E w \in mail :
          LET r == Parse(type, Clear(type, obj[s]), w)
          IN obj' = [obj EXCEPT ![s] = IF Accepted(r) THEN r.m ELSE Default(type)]
    /\ mail' = {}
    /\ UNCHANGED <<type, calls>>

(* A sender built from another version of central.proto adds a field.      *)
AddForeignField ==
    /\ Call
    /\ \E w \in mail, t \in ForeignTags :
          mail' = {Append(w, [tag |-> t, value |-> 1, body |-> <<>>])}
    /\ UNCHANGED obj

Init ==
    /\ type \in Types
    /\ obj = [s \in Slot |-> Default(type)]
    /\ mail = {}
    /\ calls = 0

Next ==
    \/ \E s \in Slot, f \in Fields(type) :
          \/ SetField(s, f)
          \/ AddElement(s, f)
          \/ ClearElements(s, f)
          \/ SetElement(s, f)
    \/ \E s, r \in Slot : Assign(s, r) \/ SwapWith(s, r)
    \/ \E s \in Slot : Send(s) \/ Receive(s)
    \/ AddForeignField

Spec == Init /\ [][Next]_vars

-----------------------------------------------------------------------------
Readable(t, m) ==
    \A f \in Fields(t) :
        IF Repeated(t, f)
        THEN \A i \in DOMAIN m[f] :
                \A g \in Fields(Code[t].kinds[f]) :
                    Code[Code[t].kinds[f]].kinds[g] = "string" => m[f][i][g] \notin Mangled
        ELSE Code[t].kinds[f] = "string" => m[f] \notin Mangled

(* What the parser reads is what the writer wrote, fields it does not know *)
(* included; and it refuses exactly the messages that hold a string that   *)
(* is not UTF-8, which the writer sends all the same.                      *)
RoundTrip ==
    \A s \in Slot :
        LET r == Parse(type, Default(type), Encode(type, obj[s]))
        IN IF Readable(type, obj[s]) THEN r = Start(obj[s]) ELSE ~ Accepted(r)

(* The size announced before writing is the number of bytes written, for   *)
(* the message and, as the length before it, for each nested one.          *)
SizeExact ==
    \A s \in Slot :
        LET wire == Encode(type, obj[s]) IN
        /\ ByteSizeLong(type, obj[s]) = BytesOf(wire)
        /\ \A i \in DOMAIN wire :
              wire[i].body # <<>> => wire[i].value = BytesOf(wire[i].body)

(* Reading one message after another into an object merges them: the       *)
(* parser and MergeFrom agree, field by field, on what is replaced and     *)
(* what is appended.                                                       *)
ConcatIsMerge ==
    \A s, r \in Slot :
        LET wire == Encode(type, obj[s]) \o Encode(type, obj[r])
            both == Parse(type, Default(type), wire)
        IN Accepted(both) => /\ both.m.unknown = obj[s].unknown \o obj[r].unknown
                            /\ both.m = MergeFrom(type, obj[s], obj[r])

(* Copying, clearing and swapping treat the whole object: the lists of     *)
(* members and the memory ranges they name leave no field out.             *)
WholeObject ==
    \A s, r \in Slot :
        /\ Copy(type, obj[s]) = obj[s]
        /\ Clear(type, obj[s]) = Default(type)
        /\ Swapped(type, obj[s], obj[r]) = obj[r]

=============================================================================
