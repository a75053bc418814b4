-------------------------- MODULE MessagesProofs --------------------------
(***************************************************************************)
(* Proofs about Messages: whatever the values, the strings, the objects    *)
(* and the foreign fields are, the parser reads what the writer wrote, the *)
(* announced sizes are exact, reading two messages in a row merges them,   *)
(* and copying, clearing and swapping leave no field out.                  *)
(***************************************************************************)
EXTENDS Messages, Induction, FiniteSetTheorems

-----------------------------------------------------------------------------
(* The lists of the generated functions agree, for each message type *)

At(layout, f) == CHOOSE i \in DOMAIN layout : layout[i] = f
Distinct(s) == \A i, j \in DOMAIN s : s[i] = s[j] => i = j

(* What lies between two members is what the layout lists between them. *)
LEMMA SpanReaches ==
  ASSUME NEW S, NEW layout \in Seq(S), Distinct(layout),
         NEW a \in DOMAIN layout, NEW b \in DOMAIN layout
  PROVE  Span(layout, layout[a], layout[b]) = {layout[i] : i \in a .. b}
<1>1. \A k \in DOMAIN layout : At(layout, layout[k]) = k BY DEF At, Distinct
<1>2. Span(layout, layout[a], layout[b])
        = {layout[i] : i \in At(layout, layout[a]) .. At(layout, layout[b])}
  BY DEF Span, At
<1> QED BY <1>1, <1>2

Kind == {"int32", "string", "FileInfo", "ResultFile"}

(* Every function treats every field once, and the writer's n-th field is *)
(* the one the parser reads under that tag.                               *)
TablesAgree(t) ==
    /\ "unknown" \notin Fields(t)
    /\ \A f \in Fields(t) : Code[t].kinds[f] \in Kind
    /\ Code[t].copied = Fields(t) /\ Code[t].cleared = Fields(t)
    /\ Code[t].swapped = Fields(t) /\ Code[t].merged = Fields(t)
    /\ \A f \in Fields(t) :
          /\ Code[t].tags[f] \in 1 .. 127
          /\ Code[t].tags[f] % 8 = IF Code[t].kinds[f] = "int32" THEN 0 ELSE 2
    /\ \A f, g \in Fields(t) : Code[t].tags[f] = Code[t].tags[g] => f = g
    /\ Code[t].written \in Seq(Fields(t)) /\ Distinct(Code[t].written)
    /\ Code[t].sized \in Seq(Fields(t))
    /\ \A f \in Fields(t) : \E n \in DOMAIN Code[t].written : Code[t].written[n] = f
    /\ \A n \in DOMAIN Code[t].written : Tag(t, n) = Code[t].tags[Code[t].written[n]]

(* The messages with one string in them *)
LEMMA OneString ==
  ASSUME NEW t, NEW name, name # "unknown",
         Fields(t) = {name}, Code[t].kinds[name] = "string",
         Code[t].copied = {name}, Code[t].cleared = {name},
         Code[t].swapped = {name}, Code[t].merged = {name},
         Code[t].tags[name] = 10,
         Code[t].written = <<name>>, Code[t].sized = <<name>>
  PROVE  TablesAgree(t)
<1>1. Code[t].written \in Seq({name}) /\ Distinct(Code[t].written)
      /\ DOMAIN Code[t].written = 1 .. 1 /\ Code[t].written[1] = name
  BY DEF Distinct
<1>2. Code[t].sized \in Seq({name}) OBVIOUS
<1>3. \A n \in 1 .. 1 : n = 1 OBVIOUS
<1>4. Tag(t, 1) = 10 BY <1>1 DEF Tag
<1>5. 10 \in 1 .. 127 /\ 10 % 8 = 2 OBVIOUS
<1>6. Code[t].kinds[name] \in Kind BY DEF Kind
<1> QED BY <1>1, <1>2, <1>3, <1>4, <1>5, <1>6 DEF TablesAgree

LEMMA TaskReceptionTables == TablesAgree("TaskReception")
<1> DEFINE t == "TaskReception"
           name == "message"
<1>1. /\ Code[t].kinds = TaskReceptionKinds /\ Code[t].copied = TaskReceptionCopied
      /\ Code[t].cleared = TaskReceptionCleared
      /\ Code[t].swapped = TaskReceptionSwapped
      /\ Code[t].merged = TaskReceptionMerged /\ Code[t].tags = TaskReceptionTags
      /\ Code[t].written = TaskReceptionWritten
      /\ Code[t].sized = TaskReceptionSized
  BY DEF Code, Class
<1>2. Fields(t) = {name} /\ Code[t].kinds[name] = "string"
  BY <1>1 DEF Fields, TaskReceptionKinds
<1>3. Code[t].tags[name] = 10 BY <1>1 DEF TaskReceptionTags
<1>4. /\ Code[t].copied = {name} /\ Code[t].cleared = {name}
      /\ Code[t].swapped = {name} /\ Code[t].merged = {name}
  BY <1>1 DEF TaskReceptionCopied, TaskReceptionCleared, TaskReceptionSwapped,
     TaskReceptionMerged
<1>5. Code[t].written = <<name>> /\ Code[t].sized = <<name>>
  BY <1>1 DEF TaskReceptionWritten, TaskReceptionSized
<1>6. name # "unknown" OBVIOUS
<1> HIDE DEF t, name
<1>7. TablesAgree(t) BY <1>2, <1>3, <1>4, <1>5, <1>6, OneString
<1> QED BY <1>7 DEF t

LEMMA TaskCompletionAckTables == TablesAgree("TaskCompletionAck")
<1> DEFINE t == "TaskCompletionAck"
           name == "message"
<1>1. /\ Code[t].kinds = TaskCompletionAckKinds /\ Code[t].copied = TaskCompletionAckCopied
      /\ Code[t].cleared = TaskCompletionAckCleared
      /\ Code[t].swapped = TaskCompletionAckSwapped
      /\ Code[t].merged = TaskCompletionAckMerged /\ Code[t].tags = TaskCompletionAckTags
      /\ Code[t].written = TaskCompletionAckWritten
      /\ Code[t].sized = TaskCompletionAckSized
  BY DEF Code, Class
<1>2. Fields(t) = {name} /\ Code[t].kinds[name] = "string"
  BY <1>1 DEF Fields, TaskCompletionAckKinds
<1>3. Code[t].tags[name] = 10 BY <1>1 DEF TaskCompletionAckTags
<1>4. /\ Code[t].copied = {name} /\ Code[t].cleared = {name}
      /\ Code[t].swapped = {name} /\ Code[t].merged = {name}
  BY <1>1 DEF TaskCompletionAckCopied, TaskCompletionAckCleared, TaskCompletionAckSwapped,
     TaskCompletionAckMerged
<1>5. Code[t].written = <<name>> /\ Code[t].sized = <<name>>
  BY <1>1 DEF TaskCompletionAckWritten, TaskCompletionAckSized
<1>6. name # "unknown" OBVIOUS
<1> HIDE DEF t, name
<1>7. TablesAgree(t) BY <1>2, <1>3, <1>4, <1>5, <1>6, OneString
<1> QED BY <1>7 DEF t

LEMMA ResultFileTables == TablesAgree("ResultFile")
<1> DEFINE t == "ResultFile"
           name == "filename"
<1>1. /\ Code[t].kinds = ResultFileKinds /\ Code[t].copied = ResultFileCopied
      /\ Code[t].cleared = ResultFileCleared
      /\ Code[t].swapped = ResultFileSwapped
      /\ Code[t].merged = ResultFileMerged /\ Code[t].tags = ResultFileTags
      /\ Code[t].written = ResultFileWritten
      /\ Code[t].sized = ResultFileSized
  BY DEF Code, Class
<1>2. Fields(t) = {name} /\ Code[t].kinds[name] = "string"
  BY <1>1 DEF Fields, ResultFileKinds
<1>3. Code[t].tags[name] = 10 BY <1>1 DEF ResultFileTags
<1>4. /\ Code[t].copied = {name} /\ Code[t].cleared = {name}
      /\ Code[t].swapped = {name} /\ Code[t].merged = {name}
  BY <1>1 DEF ResultFileCopied, ResultFileCleared, ResultFileSwapped,
     ResultFileMerged
<1>5. Code[t].written = <<name>> /\ Code[t].sized = <<name>>
  BY <1>1 DEF ResultFileWritten, ResultFileSized
<1>6. name # "unknown" OBVIOUS
<1> HIDE DEF t, name
<1>7. TablesAgree(t) BY <1>2, <1>3, <1>4, <1>5, <1>6, OneString
<1> QED BY <1>7 DEF t

LEMMA FileInfoTables == TablesAgree("FileInfo")
<1> DEFINE F == {"fname", "start", "end"}
<1>1. /\ Code["FileInfo"].kinds = FileInfoKinds /\ Code["FileInfo"].copied = FileInfoCopied
      /\ Code["FileInfo"].cleared = FileInfoCleared
      /\ Code["FileInfo"].swapped = FileInfoSwapped
      /\ Code["FileInfo"].merged = FileInfoMerged /\ Code["FileInfo"].tags = FileInfoTags
      /\ Code["FileInfo"].written = FileInfoWritten
      /\ Code["FileInfo"].sized = FileInfoSized
  BY DEF Code, Class
<1>2. Fields("FileInfo") = F BY <1>1 DEF Fields, FileInfoKinds
<1>3. Span(FileInfoLayout, "start", "end")
        = {"start", "end"}
  <2>1. /\ FileInfoLayout \in Seq(F) /\ Distinct(FileInfoLayout)
        /\ DOMAIN FileInfoLayout = 1 .. 3
    BY DEF FileInfoLayout, Distinct
  <2>2. Span(FileInfoLayout, FileInfoLayout[2], FileInfoLayout[3])
          = {FileInfoLayout[i] : i \in 2 .. 3}
    BY <2>1, SpanReaches
  <2>3. 2 .. 3 = {2, 3} OBVIOUS
  <2> QED BY <2>2, <2>3 DEF FileInfoLayout
<1>4. /\ Code["FileInfo"].copied = F /\ Code["FileInfo"].cleared = F
      /\ Code["FileInfo"].swapped = F /\ Code["FileInfo"].merged = F
  BY <1>1, <1>3 DEF FileInfoCopied, FileInfoCleared, FileInfoSwapped, FileInfoMerged
<1>5. \A f \in F : Code["FileInfo"].kinds[f] \in Kind BY <1>1 DEF FileInfoKinds, Kind
<1>6. \A f \in F :
        /\ Code["FileInfo"].tags[f] \in 1 .. 127
        /\ Code["FileInfo"].tags[f] % 8
             = IF Code["FileInfo"].kinds[f] = "int32" THEN 0 ELSE 2
  BY <1>1 DEF FileInfoKinds, FileInfoTags
<1>7. \A f, g \in F : Code["FileInfo"].tags[f] = Code["FileInfo"].tags[g] => f = g
  BY <1>1 DEF FileInfoTags
<1>8. /\ Code["FileInfo"].written \in Seq(F) /\ Distinct(Code["FileInfo"].written)
      /\ DOMAIN Code["FileInfo"].written = 1 .. 3
  BY <1>1 DEF FileInfoWritten, Distinct
<1>9. \A f \in F :
         \E n \in DOMAIN Code["FileInfo"].written : Code["FileInfo"].written[n] = f
  BY <1>1 DEF FileInfoWritten
<1>10. \A n \in 1 .. 3 :
          Tag("FileInfo", n) = Code["FileInfo"].tags[Code["FileInfo"].written[n]]
  BY <1>1 DEF FileInfoWritten, FileInfoTags, FileInfoKinds, Tag
<1>11. "unknown" \notin F OBVIOUS
<1>12. Code["FileInfo"].sized \in Seq(F) BY <1>1 DEF FileInfoSized
<1> HIDE DEF F
<1> QED BY <1>2, <1>4, <1>5, <1>6, <1>7, <1>8, <1>9, <1>10, <1>11, <1>12 DEF TablesAgree

LEMMA TaskCompletionTables == TablesAgree("TaskCompletion")
<1> DEFINE F == {"task_id", "worker_id", "result_files"}
<1>1. /\ Code["TaskCompletion"].kinds = TaskCompletionKinds
      /\ Code["TaskCompletion"].copied = TaskCompletionCopied
      /\ Code["TaskCompletion"].cleared = TaskCompletionCleared
      /\ Code["TaskCompletion"].swapped = TaskCompletionSwapped
      /\ Code["TaskCompletion"].merged = TaskCompletionMerged
      /\ Code["TaskCompletion"].tags = TaskCompletionTags
      /\ Code["TaskCompletion"].written = TaskCompletionWritten
      /\ Code["TaskCompletion"].sized = TaskCompletionSized
  BY DEF Code, Class
<1>2. Fields("TaskCompletion") = F BY <1>1 DEF Fields, TaskCompletionKinds
<1>3. Span(TaskCompletionLayout, "task_id", "worker_id")
        = {"task_id", "worker_id"}
  <2>1. /\ TaskCompletionLayout \in Seq(F) /\ Distinct(TaskCompletionLayout)
        /\ DOMAIN TaskCompletionLayout = 1 .. 3
    BY DEF TaskCompletionLayout, Distinct
  <2>2. Span(TaskCompletionLayout, TaskCompletionLayout[2], TaskCompletionLayout[3])
          = {TaskCompletionLayout[i] : i \in 2 .. 3}
    BY <2>1, SpanReaches
  <2>3. 2 .. 3 = {2, 3} OBVIOUS
  <2> QED BY <2>2, <2>3 DEF TaskCompletionLayout
<1>4. /\ Code["TaskCompletion"].copied = F /\ Code["TaskCompletion"].cleared = F
      /\ Code["TaskCompletion"].swapped = F /\ Code["TaskCompletion"].merged = F
  BY <1>1, <1>3 DEF TaskCompletionCopied, TaskCompletionCleared, TaskCompletionSwapped,
     TaskCompletionMerged
<1>5. \A f \in F : Code["TaskCompletion"].kinds[f] \in Kind
  BY <1>1 DEF TaskCompletionKinds, Kind
<1>6. \A f \in F :
        /\ Code["TaskCompletion"].tags[f] \in 1 .. 127
        /\ Code["TaskCompletion"].tags[f] % 8
             = IF Code["TaskCompletion"].kinds[f] = "int32" THEN 0 ELSE 2
  BY <1>1 DEF TaskCompletionKinds, TaskCompletionTags
<1>7. \A f, g \in F :
         Code["TaskCompletion"].tags[f] = Code["TaskCompletion"].tags[g] => f = g
  BY <1>1 DEF TaskCompletionTags
<1>8. /\ Code["TaskCompletion"].written \in Seq(F)
      /\ Distinct(Code["TaskCompletion"].written)
      /\ DOMAIN Code["TaskCompletion"].written = 1 .. 3
  BY <1>1 DEF TaskCompletionWritten, Distinct
<1>9. \A f \in F :
         \E n \in DOMAIN Code["TaskCompletion"].written :
            Code["TaskCompletion"].written[n] = f
  BY <1>1 DEF TaskCompletionWritten
<1>10. \A n \in 1 .. 3 :
          Tag("TaskCompletion", n)
            = Code["TaskCompletion"].tags[Code["TaskCompletion"].written[n]]
  BY <1>1 DEF TaskCompletionWritten, TaskCompletionTags, TaskCompletionKinds, Tag
<1>11. "unknown" \notin F OBVIOUS
<1>12. Code["TaskCompletion"].sized \in Seq(F) BY <1>1 DEF TaskCompletionSized
<1> HIDE DEF F
<1> QED BY <1>2, <1>4, <1>5, <1>6, <1>7, <1>8, <1>9, <1>10, <1>11, <1>12 DEF TablesAgree

LEMMA TaskTables == TablesAgree("Task")
<1> DEFINE F == {"task_id", "worker_id", "num_reducers", "task_type", "files",
              "reducer_id", "job_id", "status", "output_files", "master_url"}
<1>1. /\ Code["Task"].kinds = TaskKinds /\ Code["Task"].copied = TaskCopied
      /\ Code["Task"].cleared = TaskCleared /\ Code["Task"].swapped = TaskSwapped
      /\ Code["Task"].merged = TaskMerged /\ Code["Task"].tags = TaskTags
      /\ Code["Task"].written = TaskWritten /\ Code["Task"].sized = TaskSized
  BY DEF Code, Class
<1>2. Fields("Task") = F BY <1>1 DEF Fields, TaskKinds
<1>3. Span(TaskLayout, "task_id", "job_id")
        = {"task_id", "worker_id", "num_reducers", "reducer_id", "job_id"}
  <2>1. TaskLayout \in Seq(F) /\ Distinct(TaskLayout) /\ DOMAIN TaskLayout = 1 .. 10
    BY DEF TaskLayout, Distinct
  <2>2. Span(TaskLayout, TaskLayout[6], TaskLayout[10])
          = {TaskLayout[i] : i \in 6 .. 10}
    BY <2>1, SpanReaches
  <2>3. 6 .. 10 = {6, 7, 8, 9, 10} OBVIOUS
  <2> QED BY <2>2, <2>3 DEF TaskLayout
<1>4. /\ Code["Task"].copied = F /\ Code["Task"].cleared = F
      /\ Code["Task"].swapped = F /\ Code["Task"].merged = F
  BY <1>1, <1>3 DEF TaskCopied, TaskCleared, TaskSwapped, TaskMerged
<1>5. \A f \in F : Code["Task"].kinds[f] \in Kind BY <1>1 DEF TaskKinds, Kind
<1>6. \A f \in F :
        /\ Code["Task"].tags[f] \in 1 .. 127
        /\ Code["Task"].tags[f] % 8 = IF Code["Task"].kinds[f] = "int32" THEN 0 ELSE 2
  BY <1>1 DEF TaskKinds, TaskTags
<1>7. \A f, g \in F : Code["Task"].tags[f] = Code["Task"].tags[g] => f = g
  BY <1>1 DEF TaskTags
<1>8. /\ Code["Task"].written \in Seq(F) /\ Distinct(Code["Task"].written)
      /\ DOMAIN Code["Task"].written = 1 .. 10
  BY <1>1 DEF TaskWritten, Distinct
<1>9. \A f \in F : \E n \in DOMAIN Code["Task"].written : Code["Task"].written[n] = f
  BY <1>1 DEF TaskWritten
<1>10. \A n \in 1 .. 10 : Tag("Task", n) = Code["Task"].tags[Code["Task"].written[n]]
  BY <1>1 DEF TaskWritten, TaskTags, TaskKinds, Tag
<1>11. "unknown" \notin F OBVIOUS
<1>12. Code["Task"].sized \in Seq(F) BY <1>1 DEF TaskSized
<1> HIDE DEF F
<1> QED BY <1>2, <1>4, <1>5, <1>6, <1>7, <1>8, <1>9, <1>10, <1>11, <1>12 DEF TablesAgree

LEMMA Tables == \A t \in DOMAIN Code : TablesAgree(t)
<1>1. DOMAIN Code = {"TaskReception", "TaskCompletionAck", "ResultFile",
                     "TaskCompletion", "FileInfo", "Task"}
  BY DEF Code
<1> QED BY <1>1, TaskReceptionTables, TaskCompletionAckTables, ResultFileTables,
           TaskCompletionTables, FileInfoTables, TaskTables

(* A message inside another one holds scalars only. *)
LEMMA LeafTables ==
  /\ {"FileInfo", "ResultFile"} \subseteq DOMAIN Code
  /\ \A u \in {"FileInfo", "ResultFile"} : \A f \in Fields(u) : ~ Repeated(u, f)
BY DEF Code, Class, Fields, Repeated, FileInfoKinds, ResultFileKinds

(* The first ten terms of a sum *)
LEMMA TotalOfTen ==
  ASSUME NEW f, \A i \in 1 .. 10 : f[i] \in Int
  PROVE  Total(f, 10) = f[1] + f[2] + f[3] + f[4] + f[5] + f[6] + f[7] + f[8] + f[9] + f[10]
<1>1. \A i \in 1 .. 10 : Total(f, i) = Total(f, i - 1) + f[i] BY TotalUnfold
<1>2. /\ Total(f, 0) = 0 /\ Total(f, 1) = Total(f, 0) + f[1]
      /\ Total(f, 2) = Total(f, 1) + f[2] /\ Total(f, 3) = Total(f, 2) + f[3]
      /\ Total(f, 4) = Total(f, 3) + f[4] /\ Total(f, 5) = Total(f, 4) + f[5]
  BY <1>1, TotalUnfold
<1>3. /\ Total(f, 6) = Total(f, 5) + f[6] /\ Total(f, 7) = Total(f, 6) + f[7]
      /\ Total(f, 8) = Total(f, 7) + f[8] /\ Total(f, 9) = Total(f, 8) + f[9]
      /\ Total(f, 10) = Total(f, 9) + f[10]
  BY <1>1
<1>4. /\ f[1] \in Int /\ f[2] \in Int /\ f[3] \in Int /\ f[4] \in Int /\ f[5] \in Int
      /\ f[6] \in Int /\ f[7] \in Int /\ f[8] \in Int /\ f[9] \in Int /\ f[10] \in Int
  OBVIOUS
<1> QED BY <1>2, <1>3, <1>4

LEMMA TotalOfThree ==
  ASSUME NEW f, \A i \in 1 .. 3 : f[i] \in Int
  PROVE  Total(f, 3) = f[1] + f[2] + f[3]
<1>1. \A i \in 1 .. 3 : Total(f, i) = Total(f, i - 1) + f[i] BY TotalUnfold
<1>2. /\ Total(f, 0) = 0 /\ Total(f, 1) = Total(f, 0) + f[1]
      /\ Total(f, 2) = Total(f, 1) + f[2] /\ Total(f, 3) = Total(f, 2) + f[3]
  BY <1>1, TotalUnfold
<1>3. f[1] \in Int /\ f[2] \in Int /\ f[3] \in Int OBVIOUS
<1> QED BY <1>2, <1>3

(* ByteSizeLong adds up, in its own order, the fields the writer writes. *)
LEMMA SizedIsWritten ==
  ASSUME NEW t \in DOMAIN Code, NEW g \in [Fields(t) -> Int]
  PROVE  LET sized == Code[t].sized
             written == Code[t].written
         IN Total([i \in DOMAIN sized |-> g[sized[i]]], Len(sized))
              = Total([n \in DOMAIN written |-> g[written[n]]], Len(written))
<1> DEFINE Same(u) == Code[u].sized = Code[u].written
<1>1. DOMAIN Code = {"TaskReception", "TaskCompletionAck", "ResultFile",
                     "TaskCompletion", "FileInfo", "Task"}
  BY DEF Code
<1>2. /\ Same("TaskReception") /\ Same("TaskCompletionAck")
      /\ Same("ResultFile") /\ Same("FileInfo")
  BY DEF Code, Class, TaskReceptionSized, TaskReceptionWritten, TaskCompletionAckSized,
         TaskCompletionAckWritten, ResultFileSized, ResultFileWritten, FileInfoSized,
         FileInfoWritten
<1>3. CASE t = "TaskCompletion"
  <2>1. Code[t].sized = TaskCompletionSized /\ Code[t].written = TaskCompletionWritten
        /\ Fields(t) = {"result_files", "task_id", "worker_id"}
    BY <1>3 DEF Code, Class, Fields, TaskCompletionKinds
  <2> DEFINE h == [i \in DOMAIN TaskCompletionSized |-> g[TaskCompletionSized[i]]]
             k == [n \in DOMAIN TaskCompletionWritten |-> g[TaskCompletionWritten[n]]]
  <2>2. /\ Len(TaskCompletionSized) = 3 /\ Len(TaskCompletionWritten) = 3
        /\ h[1] = g["result_files"] /\ h[2] = g["task_id"] /\ h[3] = g["worker_id"]
        /\ k[1] = g["task_id"] /\ k[2] = g["worker_id"] /\ k[3] = g["result_files"]
    BY DEF TaskCompletionSized, TaskCompletionWritten
  <2>3. g["result_files"] \in Int /\ g["task_id"] \in Int /\ g["worker_id"] \in Int
    BY <2>1
  <2>4. /\ \A i \in 1 .. 3 : h[i] \in Int /\ k[i] \in Int
    <3> HIDE DEF h, k
    <3>1. \A i \in 1 .. 3 : i = 1 \/ i = 2 \/ i = 3 OBVIOUS
    <3> QED BY <2>2, <2>3, <3>1
  <2> HIDE DEF h, k
  <2>5. Total(h, 3) = Total(k, 3) BY <2>2, <2>3, <2>4, TotalOfThree
  <2> QED BY <2>1, <2>2, <2>5 DEF h, k
<1>4. CASE t = "Task"
  <2>1. Code[t].sized = TaskSized /\ Code[t].written = TaskWritten
        /\ Fields(t) = {"task_id", "worker_id", "num_reducers", "task_type", "files",
                        "reducer_id", "job_id", "status", "output_files", "master_url"}
    BY <1>4 DEF Code, Class, Fields, TaskKinds
  <2> DEFINE h == [i \in DOMAIN TaskSized |-> g[TaskSized[i]]]
             k == [n \in DOMAIN TaskWritten |-> g[TaskWritten[n]]]
  <2>2. /\ Len(TaskSized) = 10 /\ Len(TaskWritten) = 10
        /\ h[1] = g["files"] /\ h[2] = g["output_files"] /\ h[3] = g["task_type"]
        /\ h[4] = g["status"] /\ h[5] = g["master_url"] /\ h[6] = g["task_id"]
        /\ h[7] = g["worker_id"] /\ h[8] = g["num_reducers"] /\ h[9] = g["reducer_id"]
        /\ h[10] = g["job_id"]
    BY DEF TaskSized, TaskWritten
  <2>3. /\ k[1] = g["task_id"] /\ k[2] = g["worker_id"] /\ k[3] = g["num_reducers"]
        /\ k[4] = g["task_type"] /\ k[5] = g["files"] /\ k[6] = g["reducer_id"]
        /\ k[7] = g["job_id"] /\ k[8] = g["status"] /\ k[9] = g["output_files"]
        /\ k[10] = g["master_url"]
    BY DEF TaskWritten
  <2>4. /\ g["task_id"] \in Int /\ g["worker_id"] \in Int /\ g["num_reducers"] \in Int
        /\ g["task_type"] \in Int /\ g["files"] \in Int /\ g["reducer_id"] \in Int
        /\ g["job_id"] \in Int /\ g["status"] \in Int /\ g["output_files"] \in Int
        /\ g["master_url"] \in Int
    BY <2>1
  <2>5. \A i \in 1 .. 10 : h[i] \in Int /\ k[i] \in Int
    <3> HIDE DEF h, k
    <3>1. \A i \in 1 .. 10 : i = 1 \/ i = 2 \/ i = 3 \/ i = 4 \/ i = 5 \/ i = 6
                             \/ i = 7 \/ i = 8 \/ i = 9 \/ i = 10
      OBVIOUS
    <3> QED BY <2>2, <2>3, <2>4, <3>1
  <2> HIDE DEF h, k
  <2>6. Total(h, 10) = Total(k, 10) BY <2>2, <2>3, <2>4, <2>5, TotalOfTen
  <2> QED BY <2>1, <2>2, <2>6 DEF h, k
<1>5. CASE Same(t) BY <1>5
<1> HIDE DEF Same
<1> QED BY <1>1, <1>2, <1>3, <1>4, <1>5

-----------------------------------------------------------------------------
(* The objects and the wire fields a behaviour can show *)

Stops(tag) == tag % 8 = 4 \/ tag = 0
ForeignField(tag) == [tag |-> tag, value |-> 1, body |-> <<>>]
Foreign == {ForeignField(tag) : tag \in {a \in ForeignTags : ~ Stops(a)}}

LeafMessage(u) ==
    {e \in [Fields(u) \cup {"unknown"} -> Ints \cup Texts \cup Seq(Foreign)] :
        /\ e["unknown"] \in Seq(Foreign)
        /\ \A f \in Fields(u) : e[f] \in Value(Code[u].kinds[f])}
Content(t, f) ==
    IF Repeated(t, f) THEN Seq(LeafMessage(Code[t].kinds[f])) ELSE Value(Code[t].kinds[f])
Message(t) ==
    {m \in [Fields(t) \cup {"unknown"} ->
               Ints \cup Texts \cup Seq(Foreign)
                    \cup Seq(LeafMessage("FileInfo")) \cup Seq(LeafMessage("ResultFile"))] :
        /\ m["unknown"] \in Seq(Foreign)
        /\ \A f \in Fields(t) : m[f] \in Content(t, f)}

Scalar(t, f, v) == [tag |-> Code[t].tags[f], value |-> v, body |-> <<>>]
Nested(t, f, e) ==
    [tag |-> Code[t].tags[f], value |-> LeafSize(Code[t].kinds[f], e),
     body |-> LeafEncode(Code[t].kinds[f], e)]
ScalarFields(t) ==
    UNION {{Scalar(t, f, v) : v \in Value(Code[t].kinds[f])} :
              f \in {g \in Fields(t) : ~ Repeated(t, g)}}
NestedFields(t) ==
    UNION {{Nested(t, f, e) : e \in LeafMessage(Code[t].kinds[f])} :
              f \in {g \in Fields(t) : Repeated(t, g)}}
Wire(t) == ScalarFields(t) \cup NestedFields(t) \cup {ForeignField(a) : a \in ForeignTags}

State(t) == [m : Message(t), status : {"reading", "ended", "failed"}]
After(t, s, wire) == Reads(t, s, wire)[Len(wire)]

LEMMA MessageIs ==
  ASSUME NEW t \in DOMAIN Code, NEW m
  PROVE  m \in Message(t)
           <=> /\ m = [f \in Fields(t) \cup {"unknown"} |-> m[f]]
               /\ m["unknown"] \in Seq(Foreign)
               /\ \A f \in Fields(t) : m[f] \in Content(t, f)
<1> DEFINE D == Fields(t) \cup {"unknown"}
           R == Ints \cup Texts \cup Seq(Foreign)
                    \cup Seq(LeafMessage("FileInfo")) \cup Seq(LeafMessage("ResultFile"))
<1>1. \A f \in Fields(t) : Content(t, f) \subseteq R
  <2> TAKE f \in Fields(t)
  <2>1. Code[t].kinds[f] \in Kind BY Tables DEF TablesAgree
  <2> QED BY <2>1 DEF Content, Kind, Value, Repeated
<1>2. Seq(Foreign) \subseteq R OBVIOUS
<1>3. m \in Message(t) <=> /\ m \in [D -> R] /\ m["unknown"] \in Seq(Foreign)
                           /\ \A f \in Fields(t) : m[f] \in Content(t, f)
  BY DEF Message
<1> HIDE DEF R
<1> QED BY <1>1, <1>2, <1>3

LEMMA LeafMessageIs ==
  ASSUME NEW u \in {"FileInfo", "ResultFile"}
  PROVE  LeafMessage(u) = Message(u)
<1>1. u \in DOMAIN Code /\ \A f \in Fields(u) : ~ Repeated(u, f) BY LeafTables
<1>2. \A f \in Fields(u) : Content(u, f) = Value(Code[u].kinds[f])
                           /\ Value(Code[u].kinds[f]) \subseteq Ints \cup Texts
  BY <1>1 DEF Content, Value
<1> DEFINE D == Fields(u) \cup {"unknown"}
           R == Ints \cup Texts \cup Seq(Foreign)
<1>3. \A e : e \in LeafMessage(u)
               <=> /\ e \in [D -> R] /\ e["unknown"] \in Seq(Foreign)
                   /\ \A f \in Fields(u) : e[f] \in Value(Code[u].kinds[f])
  BY DEF LeafMessage
<1>4. \A e : e \in Message(u)
               <=> /\ e = [f \in D |-> e[f]] /\ e["unknown"] \in Seq(Foreign)
                   /\ \A f \in Fields(u) : e[f] \in Value(Code[u].kinds[f])
  <2> TAKE e
  <2>1. e \in Message(u)
          <=> /\ e = [f \in D |-> e[f]] /\ e["unknown"] \in Seq(Foreign)
              /\ \A f \in Fields(u) : e[f] \in Content(u, f)
    BY <1>1, MessageIs
  <2> HIDE DEF D
  <2> QED BY <1>2, <2>1
<1>5. \A f \in Fields(u) : Value(Code[u].kinds[f]) \subseteq R BY <1>2
<1>6. Seq(Foreign) \subseteq R OBVIOUS
<1> HIDE DEF R
<1>7. \A e : e \in [D -> R] => e = [f \in D |-> e[f]] OBVIOUS
<1>8. ASSUME NEW e \in Message(u) PROVE e \in [D -> R]
  <2>1. \A f \in D : e[f] \in R BY <1>4, <1>5, <1>6
  <2>2. e = [f \in D |-> e[f]] BY <1>4
  <2> HIDE DEF D
  <2> QED BY <2>1, <2>2
<1> HIDE DEF D
<1> QED BY <1>3, <1>4, <1>7, <1>8

LEMMA ForeignIs ==
  ASSUME NEW w
  PROVE  w \in Foreign <=> \E a \in ForeignTags : ~ Stops(a) /\ w = ForeignField(a)
BY DEF Foreign

LEMMA WireIs ==
  ASSUME NEW t, NEW w
  PROVE  w \in Wire(t)
           <=> \/ \E f \in Fields(t) : /\ ~ Repeated(t, f)
                                       /\ \E v \in Value(Code[t].kinds[f]) : w = Scalar(t, f, v)
               \/ \E f \in Fields(t) : /\ Repeated(t, f)
                                       /\ \E e \in LeafMessage(Code[t].kinds[f]) :
                                             w = Nested(t, f, e)
               \/ \E a \in ForeignTags : w = ForeignField(a)
<1>1. w \in ScalarFields(t)
        <=> \E f \in Fields(t) : /\ ~ Repeated(t, f)
                                 /\ \E v \in Value(Code[t].kinds[f]) : w = Scalar(t, f, v)
  BY DEF ScalarFields
<1>2. w \in NestedFields(t)
        <=> \E f \in Fields(t) : /\ Repeated(t, f)
                                 /\ \E e \in LeafMessage(Code[t].kinds[f]) : w = Nested(t, f, e)
  BY DEF NestedFields
<1> QED BY <1>1, <1>2 DEF Wire

(* The parser knows the tag of each field, and no foreign tag. *)
LEMMA KnownTags ==
  ASSUME NEW t \in DOMAIN Code
  PROVE  /\ \A f \in Fields(t) : Known(t, Code[t].tags[f]) = {f}
         /\ \A a \in ForeignTags : Known(t, a) = {}
<1>1. ASSUME NEW f \in Fields(t) PROVE Known(t, Code[t].tags[f]) = {f}
  BY Tables DEF TablesAgree, Known
<1>2. ASSUME NEW a \in ForeignTags PROVE Known(t, a) = {}
  BY TypesAssumption DEF Known
<1> QED BY <1>1, <1>2

(* One turn of the parser's loop, for each sort of field *)
LEMMA StepStays ==
  ASSUME NEW t, NEW s, NEW w, s.status # "reading"
  PROVE  Step(t, s, w) = s /\ LeafStep(t, s, w) = s
BY DEF Step, LeafStep

LEMMA StepScalar ==
  ASSUME NEW t \in DOMAIN Code, NEW m, NEW f \in Fields(t), ~ Repeated(t, f), NEW v
  PROVE  Step(t, Start(m), Scalar(t, f, v))
           = [m |-> [m EXCEPT ![f] = v], status |-> ScalarStatus(t, f, Scalar(t, f, v))]
<1> DEFINE w == Scalar(t, f, v)
           s == Start(m)
<1>1. w.tag = Code[t].tags[f] /\ w.value = v BY DEF Scalar
<1>2. Known(t, w.tag) = {f} BY <1>1, KnownTags
<1>3. (CHOOSE g \in Known(t, w.tag) : TRUE) = f BY <1>2
<1>4. s.status = "reading" /\ s.m = m /\ s = [m |-> m, status |-> "reading"] BY DEF Start
<1> HIDE DEF w, s
<1>5. Step(t, s, w) = LeafStep(t, s, w) BY <1>2 DEF Step
<1>6. LeafStep(t, s, w) = [s EXCEPT !.m[f] = w.value, !.status = ScalarStatus(t, f, w)]
  BY <1>2, <1>3, <1>4 DEF LeafStep
<1>7. LeafStep(t, s, w) = [m |-> [m EXCEPT ![f] = v], status |-> ScalarStatus(t, f, w)]
  BY <1>1, <1>4, <1>6
<1> QED BY <1>5, <1>7 DEF w, s

LEMMA StepNested ==
  ASSUME NEW t \in DOMAIN Code, NEW m, NEW f \in Fields(t), Repeated(t, f), NEW e
  PROVE  LET w == Nested(t, f, e)
             r == LeafParse(Code[t].kinds[f], w.body)
         IN Step(t, Start(m), w) = [m |-> [m EXCEPT ![f] = Append(m[f], r.m)],
                                    status |-> NestedStatus(r, w)]
<1> DEFINE w == Nested(t, f, e)
           r == LeafParse(Code[t].kinds[f], w.body)
           s == Start(m)
<1>1. w.tag = Code[t].tags[f] BY DEF Nested
<1>2. Known(t, w.tag) = {f} BY <1>1, KnownTags
<1>3. (CHOOSE g \in Known(t, w.tag) : TRUE) = f BY <1>2
<1>4. s.status = "reading" /\ s.m = m /\ s = [m |-> m, status |-> "reading"] BY DEF Start
<1> HIDE DEF w, s
<1>5. Step(t, s, w) = [s EXCEPT !.m[f] = Append(@, r.m), !.status = NestedStatus(r, w)]
  BY <1>2, <1>3, <1>4 DEF Step
<1> HIDE DEF r
<1>6. Step(t, s, w) = [m |-> [m EXCEPT ![f] = Append(m[f], r.m)],
                       status |-> NestedStatus(r, w)]
  BY <1>4, <1>5
<1> QED BY <1>6 DEF w, s, r

LEMMA StepForeign ==
  ASSUME NEW t \in DOMAIN Code, NEW m, NEW a \in ForeignTags
  PROVE  Step(t, Start(m), ForeignField(a))
           = IF Stops(a) THEN [m |-> m, status |-> "ended"]
             ELSE Start([m EXCEPT !["unknown"] = Append(m["unknown"], ForeignField(a))])
<1> DEFINE w == ForeignField(a)
           s == Start(m)
<1>1. w.tag = a BY DEF ForeignField
<1>2. Known(t, w.tag) = {} BY <1>1, KnownTags
<1>3. s.status = "reading" /\ s.m = m /\ s = [m |-> m, status |-> "reading"] BY DEF Start
<1> HIDE DEF w, s
<1>4. Step(t, s, w) = LeafStep(t, s, w) BY <1>2 DEF Step
<1>5. CASE Stops(a)
  <2>1. LeafStep(t, s, w) = [s EXCEPT !.status = "ended"]
    BY <1>1, <1>2, <1>3, <1>5 DEF LeafStep, Stops
  <2>2. LeafStep(t, s, w) = [m |-> m, status |-> "ended"] BY <1>3, <2>1
  <2> QED BY <1>4, <1>5, <2>2 DEF w, s
<1>6. CASE ~ Stops(a)
  <2>1. LeafStep(t, s, w) = [s EXCEPT !.m.unknown = Append(@, w)]
    BY <1>1, <1>2, <1>3, <1>6 DEF LeafStep, Stops
  <2>2. LeafStep(t, s, w) = [m |-> [m EXCEPT !["unknown"] = Append(m["unknown"], w)],
                             status |-> "reading"]
    BY <1>3, <2>1
  <2> QED BY <1>4, <1>6, <2>2 DEF w, s, Start
<1> QED BY <1>5, <1>6

-----------------------------------------------------------------------------
(* The parser's loop *)

(* What the inner parser and the inner writer make of the elements of t *)
NestedFine(t) ==
    \A f \in Fields(t) : Repeated(t, f) =>
        \A e \in LeafMessage(Code[t].kinds[f]) :
            LET u == Code[t].kinds[f]
                r == LeafParse(u, LeafEncode(u, e))
            IN /\ LeafSize(u, e) = BytesOf(LeafEncode(u, e))
               /\ r.m \in LeafMessage(u)
               /\ IF Readable(u, e) THEN Accepted(r) /\ r.m = e ELSE ~ Accepted(r)

LEMMA StoreTyped ==
  ASSUME NEW t \in DOMAIN Code, NEW m \in Message(t), NEW f \in Fields(t),
         NEW v \in Content(t, f)
  PROVE  [m EXCEPT ![f] = v] \in Message(t)
<1>1. f # "unknown" BY Tables DEF TablesAgree
<1>2. /\ m = [g \in Fields(t) \cup {"unknown"} |-> m[g]]
      /\ m["unknown"] \in Seq(Foreign)
      /\ \A g \in Fields(t) : m[g] \in Content(t, g)
  BY MessageIs
<1> DEFINE n == [m EXCEPT ![f] = v]
<1>3. n = [g \in Fields(t) \cup {"unknown"} |-> n[g]] BY <1>2
<1>4. n["unknown"] = m["unknown"] /\ n[f] = v /\ \A g \in Fields(t) : g # f => n[g] = m[g]
  BY <1>1, <1>2
<1> HIDE DEF n
<1>5. n \in Message(t) BY <1>2, <1>3, <1>4, MessageIs
<1> QED BY <1>5 DEF n

LEMMA KeepTyped ==
  ASSUME NEW t \in DOMAIN Code, NEW m \in Message(t), NEW w \in Foreign
  PROVE  [m EXCEPT !["unknown"] = Append(m["unknown"], w)] \in Message(t)
<1>1. "unknown" \notin Fields(t) BY Tables DEF TablesAgree
<1>2. /\ m = [g \in Fields(t) \cup {"unknown"} |-> m[g]]
      /\ m["unknown"] \in Seq(Foreign)
      /\ \A g \in Fields(t) : m[g] \in Content(t, g)
  BY MessageIs
<1> DEFINE n == [m EXCEPT !["unknown"] = Append(m["unknown"], w)]
<1>3. n = [g \in Fields(t) \cup {"unknown"} |-> n[g]] BY <1>2
<1>4. n["unknown"] = Append(m["unknown"], w) /\ \A g \in Fields(t) : n[g] = m[g]
  BY <1>1, <1>2
<1>5. Append(m["unknown"], w) \in Seq(Foreign) BY <1>2, AppendProperties
<1> HIDE DEF n
<1>6. n \in Message(t) BY <1>2, <1>3, <1>4, <1>5, MessageIs
<1> QED BY <1>6 DEF n

(* What the loop makes of each sort of field *)
LEMMA OnScalar ==
  ASSUME NEW t \in DOMAIN Code, NEW m \in Message(t), NEW f \in Fields(t),
         ~ Repeated(t, f), NEW v \in Value(Code[t].kinds[f])
  PROVE  LET r == Step(t, Start(m), Scalar(t, f, v))
         IN /\ r \in State(t)
            /\ r.m = [m EXCEPT ![f] = v]
            /\ Accepted(r) <=> (Code[t].kinds[f] = "string" => v \notin Mangled)
<1> DEFINE w == Scalar(t, f, v)
           r == Step(t, Start(m), w)
<1>1. r = [m |-> [m EXCEPT ![f] = v], status |-> ScalarStatus(t, f, w)] BY StepScalar
<1>2. v \in Content(t, f) BY DEF Content
<1>3. [m EXCEPT ![f] = v] \in Message(t) BY <1>2, StoreTyped
<1>4. w.value = v BY DEF Scalar
<1> HIDE DEF w, r
<1>5. /\ ScalarStatus(t, f, w) \in {"reading", "failed"}
      /\ ScalarStatus(t, f, w) = "reading"
           <=> (Code[t].kinds[f] = "string" => v \notin Mangled)
  BY <1>4 DEF ScalarStatus, Repeated
<1>6. r \in State(t) /\ r.status = ScalarStatus(t, f, w) /\ r.m = [m EXCEPT ![f] = v]
  BY <1>1, <1>3, <1>5 DEF State
<1> QED BY <1>5, <1>6 DEF r, w, Accepted

LEMMA OnNested ==
  ASSUME NEW t \in DOMAIN Code, NestedFine(t), NEW m \in Message(t), NEW f \in Fields(t),
         Repeated(t, f), NEW e \in LeafMessage(Code[t].kinds[f])
  PROVE  LET r == Step(t, Start(m), Nested(t, f, e))
         IN /\ r \in State(t)
            /\ Accepted(r) <=> Readable(Code[t].kinds[f], e)
            /\ Accepted(r) => r.m = [m EXCEPT ![f] = Append(m[f], e)]
<1> DEFINE u == Code[t].kinds[f]
           w == Nested(t, f, e)
           p == LeafParse(u, w.body)
           r == Step(t, Start(m), w)
<1>1. w.value = LeafSize(u, e) /\ w.body = LeafEncode(u, e) BY DEF Nested
<1>2. w.value = BytesOf(w.body) /\ p.m \in LeafMessage(u)
      /\ IF Readable(u, e) THEN Accepted(p) /\ p.m = e ELSE ~ Accepted(p)
  BY <1>1 DEF NestedFine
<1>3. r = [m |-> [m EXCEPT ![f] = Append(m[f], p.m)], status |-> NestedStatus(p, w)]
  BY StepNested
<1>4. m[f] \in Seq(LeafMessage(u)) BY MessageIs DEF Content
<1>5. Append(m[f], p.m) \in Seq(LeafMessage(u)) BY <1>2, <1>4, AppendProperties
<1>6. [m EXCEPT ![f] = Append(m[f], p.m)] \in Message(t)
  <2>1. Append(m[f], p.m) \in Content(t, f) BY <1>5 DEF Content
  <2> QED BY <2>1, StoreTyped
<1> HIDE DEF p, w, r
<1>7. /\ NestedStatus(p, w) \in {"reading", "failed"}
      /\ NestedStatus(p, w) = "reading" <=> Readable(u, e)
  BY <1>2 DEF NestedStatus
<1>8. /\ r \in State(t) /\ r.status = NestedStatus(p, w)
      /\ r.m = [m EXCEPT ![f] = Append(m[f], p.m)]
  BY <1>3, <1>6, <1>7 DEF State
<1> QED BY <1>2, <1>7, <1>8 DEF r, w, Accepted

LEMMA OnForeign ==
  ASSUME NEW t \in DOMAIN Code, NEW m \in Message(t), NEW a \in ForeignTags
  PROVE  LET r == Step(t, Start(m), ForeignField(a))
         IN /\ r \in State(t)
            /\ Accepted(r) <=> ~ Stops(a)
            /\ Accepted(r) => r.m = [m EXCEPT !["unknown"]
                                                 = Append(m["unknown"], ForeignField(a))]
<1> DEFINE r == Step(t, Start(m), ForeignField(a))
           n == [m EXCEPT !["unknown"] = Append(m["unknown"], ForeignField(a))]
<1>1. r = IF Stops(a) THEN [m |-> m, status |-> "ended"] ELSE Start(n) BY StepForeign
<1>2. ~ Stops(a) => n \in Message(t)
  <2>1. ~ Stops(a) => ForeignField(a) \in Foreign BY ForeignIs
  <2> QED BY <2>1, KeepTyped
<1> HIDE DEF r, n
<1>3. CASE Stops(a)
  <2>1. r = [m |-> m, status |-> "ended"] BY <1>1, <1>3
  <2>2. r \in State(t) /\ r.status = "ended" BY <2>1 DEF State
  <2> QED BY <1>3, <2>2 DEF r, n, Accepted
<1>4. CASE ~ Stops(a)
  <2>1. r = [m |-> n, status |-> "reading"] BY <1>1, <1>4 DEF Start
  <2>2. r \in State(t) /\ r.status = "reading" /\ r.m = n BY <1>2, <1>4, <2>1 DEF State
  <2> QED BY <1>4, <2>2 DEF r, n, Accepted
<1> QED BY <1>3, <1>4

LEMMA Started ==
  ASSUME NEW t, NEW s \in State(t), Accepted(s)
  PROVE  s.m \in Message(t) /\ s = Start(s.m)
BY DEF State, Start, Accepted

LEMMA StepTyped ==
  ASSUME NEW t \in DOMAIN Code, NestedFine(t), NEW s \in State(t), NEW w \in Wire(t)
  PROVE  Step(t, s, w) \in State(t)
<1>1. CASE ~ Accepted(s) BY <1>1, StepStays DEF Accepted
<1>2. CASE Accepted(s)
  <2>1. s.m \in Message(t) /\ s = Start(s.m) BY <1>2, Started
  <2>2. ASSUME NEW f \in Fields(t), ~ Repeated(t, f), NEW v \in Value(Code[t].kinds[f]),
               w = Scalar(t, f, v)
        PROVE  Step(t, s, w) \in State(t)
    BY <2>1, <2>2, OnScalar
  <2>3. ASSUME NEW f \in Fields(t), Repeated(t, f),
               NEW e \in LeafMessage(Code[t].kinds[f]), w = Nested(t, f, e)
        PROVE  Step(t, s, w) \in State(t)
    BY <2>1, <2>3, OnNested
  <2>4. ASSUME NEW a \in ForeignTags, w = ForeignField(a)
        PROVE  Step(t, s, w) \in State(t)
    BY <2>1, <2>4, OnForeign
  <2> QED BY <2>2, <2>3, <2>4, WireIs
<1> QED BY <1>1, <1>2

LEMMA ReadsUnfold ==
  ASSUME NEW t \in DOMAIN Code, NestedFine(t), NEW s \in State(t),
         NEW wire \in Seq(Wire(t))
  PROVE  /\ Reads(t, s, wire)
              = [i \in 0 .. Len(wire) |->
                   IF i = 0 THEN s ELSE Step(t, Reads(t, s, wire)[i - 1], wire[i])]
         /\ Reads(t, s, wire)[0] = s
         /\ \A i \in 1 .. Len(wire) :
               Reads(t, s, wire)[i] = Step(t, Reads(t, s, wire)[i - 1], wire[i])
         /\ \A i \in 0 .. Len(wire) : Reads(t, s, wire)[i] \in State(t)
<1> DEFINE A    == State(t)
           n    == Len(wire)
           Go(i, v) == Step(t, v, wire[i])
           R    == [i \in 0 .. n |-> A]
           step == [i \in 1 .. n |-> [v \in A |-> Go(i, v)]]
           Solves(g) == g = [i \in 0 .. n |-> IF i = 0 THEN s ELSE Go(i, g[i - 1])]
           all == CHOOSE g : Solves(g)
<1>1. n \in Nat
      /\ \A i \in 1 .. n : i - 1 \in 0 .. n /\ i \in 0 .. n /\ i # 0 /\ wire[i] \in Wire(t)
  OBVIOUS
<1>2. \A i \in 1 .. n : \A v \in A : step[i][v] = Go(i, v) OBVIOUS
<1>3. \A i \in 0 .. n : R[i] = A OBVIOUS
<1>4. s \in A /\ \A i \in 1 .. n : \A v \in A : Go(i, v) \in A BY <1>1, StepTyped
<1>5. Reads(t, s, wire) = all BY DEF Reads
<1> HIDE DEF R, step, n, A, Go
<1>6. PICK g : Follows(g, n, R, s, step)
  <2>1. \A i \in 1 .. n : \A v \in R[i - 1] : step[i][v] \in R[i] BY <1>1, <1>2, <1>3, <1>4
  <2>2. s \in R[0] BY <1>1, <1>3, <1>4
  <2>3. Leads(n, R, s, step) BY <2>1, <2>2 DEF Leads
  <2> QED BY <1>1, <2>3, Iteration
<1>7. g[0] = s /\ \A i \in 1 .. n : g[i] = Go(i, g[i - 1])
  BY <1>1, <1>2, <1>3, <1>6 DEF Follows
<1>8. Solves(g)
  <2>1. \A i \in 0 .. n : i = 0 \/ i \in 1 .. n BY <1>1
  <2>2. \A i \in 0 .. n : g[i] = IF i = 0 THEN s ELSE Go(i, g[i - 1])
    BY <1>7, <2>1, Zenon
  <2>3. [i \in 0 .. n |-> g[i]] = [i \in 0 .. n |-> IF i = 0 THEN s ELSE Go(i, g[i - 1])]
    BY <2>2, Zenon
  <2> QED BY <2>3, <1>6, Zenon DEF Follows
<1>9. Solves(all)
  <2> HIDE DEF Solves
  <2> QED BY <1>8
<1> HIDE DEF all
<1>10. \A i \in 0 .. n : all[i] = IF i = 0 THEN s ELSE Go(i, all[i - 1]) BY <1>9, Zenon
<1>11. all[0] = s /\ \A i \in 1 .. n : all[i] = Go(i, all[i - 1])
  <2>1. 0 \in 0 .. n BY <1>1
  <2> QED BY <1>1, <1>10, <2>1, Zenon
<1>12. \A i \in 0 .. n : all[i] \in R[i]
  <2>1. all[0] \in R[0] BY <1>1, <1>3, <1>11, <1>4
  <2>2. \A i \in 1 .. n : all[i - 1] \in R[i - 1] => all[i] \in R[i]
    BY <1>1, <1>3, <1>11, <1>4
  <2> QED BY <1>1, <2>1, <2>2, StaysWithin
<1>13. all = [i \in 0 .. n |-> IF i = 0 THEN s ELSE Go(i, all[i - 1])] BY <1>9
<1> QED BY <1>3, <1>11, <1>12, <1>5, <1>13 DEF n, A, Go

(* Both parsers run the same loop where there are no nested messages. *)
LEMMA LeafReadsSame ==
  ASSUME NEW u \in {"FileInfo", "ResultFile"}, NestedFine(u), NEW s \in State(u),
         NEW wire \in Seq(Wire(u))
  PROVE  LeafReads(u, s, wire)[Len(wire)] = After(u, s, wire)
<1> DEFINE n == Len(wire)
           all == Reads(u, s, wire)
           Go(i, v) == LeafStep(u, v, wire[i])
           Solves(g) == g = [i \in 0 .. n |-> IF i = 0 THEN s ELSE Go(i, g[i - 1])]
           leaf == CHOOSE g : Solves(g)
<1>1. n \in Nat /\ \A i \in 1 .. n : i - 1 \in 0 .. n /\ i \in 0 .. n /\ i # 0 OBVIOUS
<1>2. \A v, w : Step(u, v, w) = LeafStep(u, v, w)
  <2>1. \A f \in Fields(u) : ~ Repeated(u, f) BY LeafTables
  <2> QED BY <2>1 DEF Step, Known
<1>3. /\ all[0] = s
      /\ \A i \in 1 .. n : all[i] = Go(i, all[i - 1])
      /\ all = [i \in 0 .. n |-> all[i]]
  <2>1. u \in DOMAIN Code BY LeafTables
  <2>2. all = [i \in 0 .. n |-> IF i = 0 THEN s ELSE Step(u, all[i - 1], wire[i])]
        /\ all[0] = s
        /\ \A i \in 1 .. n : all[i] = Step(u, all[i - 1], wire[i])
    BY <2>1, ReadsUnfold
  <2> HIDE DEF all
  <2>3. all = [i \in 0 .. n |-> all[i]] BY <2>2
  <2> QED BY <1>2, <2>2, <2>3
<1>4. LeafReads(u, s, wire) = leaf BY DEF LeafReads
<1> HIDE DEF n, all, Go
<1>5. Solves(all)
  <2>1. \A i \in 0 .. n : i = 0 \/ i \in 1 .. n BY <1>1
  <2>2. \A i \in 0 .. n : all[i] = IF i = 0 THEN s ELSE Go(i, all[i - 1])
    BY <1>3, <2>1, Zenon
  <2>3. [i \in 0 .. n |-> all[i]] = [i \in 0 .. n |-> IF i = 0 THEN s ELSE Go(i, all[i - 1])]
    BY <2>2, Zenon
  <2> QED BY <2>3, <1>3, Zenon
<1>6. Solves(leaf)
  <2> HIDE DEF Solves
  <2> QED BY <1>5
<1> HIDE DEF leaf
<1>7. \A i \in 0 .. n : leaf[i] = IF i = 0 THEN s ELSE Go(i, leaf[i - 1]) BY <1>6, Zenon
<1>8. leaf[0] = s /\ \A i \in 1 .. n : leaf[i] = Go(i, leaf[i - 1])
  <2>1. 0 \in 0 .. n BY <1>1
  <2> QED BY <1>1, <1>7, <2>1, Zenon
<1> DEFINE T == {i \in 0 .. n : leaf[i] = all[i]}
<1>9. 0 \in T /\ \A i \in 1 .. n : i - 1 \in T => i \in T
  <2>1. 0 \in T BY <1>1, <1>3, <1>8
  <2>2. ASSUME NEW i \in 1 .. n, i - 1 \in T PROVE i \in T
    <3>1. i \in 0 .. n /\ leaf[i - 1] = all[i - 1] BY <1>1, <2>2
    <3>2. leaf[i] = Go(i, leaf[i - 1]) /\ all[i] = Go(i, all[i - 1]) BY <1>3, <1>8
    <3> QED BY <3>1, <3>2
  <2> HIDE DEF T
  <2> QED BY <2>1, <2>2
<1>10. \A i \in 0 .. n : i \in T
  <2> HIDE DEF T
  <2> QED BY <1>1, <1>9, UpTo
<1>11. leaf[n] = all[n] BY <1>1, <1>10
<1> QED BY <1>4, <1>11 DEF After, n, all

(* The loop over one field, and over the fields of two wires in a row *)
LEMMA AfterTyped ==
  ASSUME NEW t \in DOMAIN Code, NestedFine(t), NEW s \in State(t), NEW wire \in Seq(Wire(t))
  PROVE  After(t, s, wire) \in State(t)
<1>1. Len(wire) \in 0 .. Len(wire) OBVIOUS
<1> QED BY <1>1, ReadsUnfold DEF After

LEMMA AfterNone ==
  ASSUME NEW t \in DOMAIN Code, NestedFine(t), NEW s \in State(t)
  PROVE  After(t, s, <<>>) = s
<1>1. <<>> \in Seq(Wire(t)) /\ Len(<<>>) = 0 OBVIOUS
<1> QED BY <1>1, ReadsUnfold DEF After

LEMMA AfterOne ==
  ASSUME NEW t \in DOMAIN Code, NestedFine(t), NEW s \in State(t), NEW w \in Wire(t)
  PROVE  After(t, s, <<w>>) = Step(t, s, w)
<1> DEFINE wire == <<w>>
<1>1. wire \in Seq(Wire(t)) /\ Len(wire) = 1 /\ wire[1] = w OBVIOUS
<1> HIDE DEF wire
<1>2. Reads(t, s, wire)[0] = s
      /\ \A i \in 1 .. Len(wire) :
               Reads(t, s, wire)[i] = Step(t, Reads(t, s, wire)[i - 1], wire[i])
  BY <1>1, ReadsUnfold
<1>3. 1 \in 1 .. Len(wire) /\ 1 - 1 = 0 BY <1>1
<1>4. Reads(t, s, wire)[1] = Step(t, s, w) BY <1>1, <1>2, <1>3
<1> QED BY <1>1, <1>4 DEF After, wire

LEMMA AfterJoin ==
  ASSUME NEW t \in DOMAIN Code, NestedFine(t), NEW s \in State(t),
         NEW a \in Seq(Wire(t)), NEW b \in Seq(Wire(t))
  PROVE  After(t, s, a \o b) = After(t, After(t, s, a), b)
<1> DEFINE ab == a \o b
           k == Len(a)
           n == Len(b)
           whole == Reads(t, s, ab)
           first == Reads(t, s, a)
           rest == Reads(t, After(t, s, a), b)
<1>1. /\ k \in Nat /\ n \in Nat /\ ab \in Seq(Wire(t)) /\ Len(ab) = k + n
      /\ \A i \in 1 .. k : ab[i] = a[i]
      /\ \A i \in 1 .. n : ab[k + i] = b[i]
  BY ConcatProperties
<1>2. After(t, s, a) \in State(t) /\ After(t, s, a) = first[k] BY AfterTyped DEF After
<1>3. whole[0] = s /\ \A i \in 1 .. k + n : whole[i] = Step(t, whole[i - 1], ab[i])
  BY <1>1, ReadsUnfold
<1>4. first[0] = s /\ \A i \in 1 .. k : first[i] = Step(t, first[i - 1], a[i])
  BY ReadsUnfold
<1>5. rest[0] = first[k] /\ \A i \in 1 .. n : rest[i] = Step(t, rest[i - 1], b[i])
  BY <1>2, ReadsUnfold
<1> HIDE DEF ab, k, n, whole, first, rest
<1> DEFINE T == {i \in 0 .. k : whole[i] = first[i]}
<1>6. 0 \in T BY <1>1, <1>3, <1>4
<1>7. ASSUME NEW i \in 1 .. k, i - 1 \in T PROVE i \in T
  <2>1. i \in 1 .. k + n /\ i \in 0 .. k /\ whole[i - 1] = first[i - 1] BY <1>1, <1>7
  <2> QED BY <1>1, <1>3, <1>4, <2>1
<1>8. \A i \in 0 .. k : i \in T
  <2> HIDE DEF T
  <2> QED BY <1>1, <1>6, <1>7, UpTo
<1>9. whole[k] = first[k] BY <1>1, <1>8
<1> DEFINE U == {i \in 0 .. n : whole[k + i] = rest[i]}
<1>10. 0 \in U BY <1>1, <1>5, <1>9
<1>11. ASSUME NEW i \in 1 .. n, i - 1 \in U PROVE i \in U
  <2>1. k + i \in 1 .. k + n /\ i \in 0 .. n /\ (k + i) - 1 = k + (i - 1)
        /\ whole[k + (i - 1)] = rest[i - 1]
    BY <1>1, <1>11
  <2>2. whole[k + i] = Step(t, whole[k + (i - 1)], ab[k + i]) BY <1>3, <2>1
  <2>3. ab[k + i] = b[i] BY <1>1
  <2> QED BY <1>5, <2>1, <2>2, <2>3
<1>12. \A i \in 0 .. n : i \in U
  <2> HIDE DEF U
  <2> QED BY <1>1, <1>10, <1>11, UpTo
<1>13. whole[k + n] = rest[n] BY <1>1, <1>12
<1> QED BY <1>1, <1>13 DEF After, ab, k, n, whole, rest

(* A state the loop has stopped in stays. *)
LEMMA AfterStays ==
  ASSUME NEW t \in DOMAIN Code, NestedFine(t), NEW s \in State(t), ~ Accepted(s),
         NEW wire \in Seq(Wire(t))
  PROVE  After(t, s, wire) = s
<1> DEFINE n == Len(wire)
           r == Reads(t, s, wire)
           T == {i \in 0 .. n : r[i] = s}
<1>1. n \in Nat /\ \A i \in 1 .. n : i - 1 \in 0 .. n /\ i \in 0 .. n OBVIOUS
<1>2. r[0] = s /\ \A i \in 1 .. n : r[i] = Step(t, r[i - 1], wire[i]) BY ReadsUnfold
<1>3. \A w : Step(t, s, w) = s BY StepStays DEF Accepted
<1> HIDE DEF n, r
<1>4. 0 \in T /\ \A i \in 1 .. n : i - 1 \in T => i \in T BY <1>1, <1>2, <1>3
<1>5. \A i \in 0 .. n : i \in T
  <2> HIDE DEF T
  <2> QED BY <1>1, <1>4, UpTo
<1>6. r[n] = s BY <1>1, <1>5
<1> QED BY <1>6 DEF After, n, r

-----------------------------------------------------------------------------
(* The parser reads the fields of a written message one after the other *)

LEMMA JoinAssociates ==
  ASSUME NEW X, NEW a \in Seq(X), NEW b \in Seq(X), NEW c \in Seq(X)
  PROVE  a \o (b \o c) = (a \o b) \o c
BY ConcatAssociative

LEMMA PrefixGrows ==
  ASSUME NEW X, NEW q \in Seq(X), NEW m \in Seq(X)
  PROVE  /\ m \o SubSeq(q, 1, 0) = m
         /\ SubSeq(q, 1, Len(q)) = q
         /\ \A i \in 0 .. Len(q) : m \o SubSeq(q, 1, i) \in Seq(X)
         /\ \A i \in 1 .. Len(q) :
               m \o SubSeq(q, 1, i) = Append(m \o SubSeq(q, 1, i - 1), q[i])
<1>1. SubSeq(q, 1, 0) = <<>> BY SubSeqEmpty
<1>2. m \o <<>> = m BY ConcatEmptySeq
<1>3. ASSUME NEW i \in 0 .. Len(q)
      PROVE  SubSeq(q, 1, i) \in Seq(X) /\ m \o SubSeq(q, 1, i) \in Seq(X)
  <2>1. \A k \in 1 .. i : q[k] \in X BY ElementOfSeq
  <2>2. SubSeq(q, 1, i) \in Seq(X) BY <2>1, SubSeqProperties
  <2> QED BY <2>2, ConcatProperties
<1>4. ASSUME NEW i \in 1 .. Len(q)
      PROVE  m \o SubSeq(q, 1, i) = Append(m \o SubSeq(q, 1, i - 1), q[i])
  <2>1. i - 1 \in 0 .. Len(q) /\ 1 \in 1 .. Len(q) /\ i \in 1 .. Len(q) OBVIOUS
  <2>2. SubSeq(q, 1, i) = SubSeq(q, 1, i - 1) \o <<q[i]>>
    BY <2>1, SubSeqRecursiveSecond
  <2>3. q[i] \in X BY ElementOfSeq
  <2>4. SubSeq(q, 1, i - 1) \in Seq(X) /\ m \o SubSeq(q, 1, i - 1) \in Seq(X)
    BY <1>3, <2>1
  <2>5. <<q[i]>> \in Seq(X) BY <2>3
  <2>6. m \o (SubSeq(q, 1, i - 1) \o <<q[i]>>) = (m \o SubSeq(q, 1, i - 1)) \o <<q[i]>>
    BY <2>4, <2>5, JoinAssociates
  <2>7. (m \o SubSeq(q, 1, i - 1)) \o <<q[i]>> = Append(m \o SubSeq(q, 1, i - 1), q[i])
    BY <2>3, <2>4, AppendIsConcat
  <2> QED BY <2>2, <2>6, <2>7
<1> QED BY <1>1, <1>2, <1>3, <1>4, SubSeqFull

LEMMA StartTyped ==
  ASSUME NEW t, NEW m \in Message(t)
  PROVE  Start(m) \in State(t) /\ Accepted(Start(m)) /\ Start(m).m = m
BY DEF Start, State, Accepted

LEMMA MergeIs ==
  ASSUME NEW t \in DOMAIN Code, NEW m \in Message(t), NEW x \in Message(t)
  PROVE  /\ MergeFrom(t, m, x) \in Message(t)
         /\ MergeFrom(t, m, x)["unknown"] = m["unknown"] \o x["unknown"]
         /\ \A f \in Fields(t) :
               MergeFrom(t, m, x)[f] = IF Repeated(t, f) THEN m[f] \o x[f]
                                       ELSE IF x[f] # 0 THEN x[f] ELSE m[f]
<1> DEFINE D == Fields(t) \cup {"unknown"}
           g == MergeFrom(t, m, x)
<1>1. "unknown" \notin Fields(t) /\ Code[t].merged = Fields(t)
  BY Tables DEF TablesAgree
<1>2. /\ m = [f \in D |-> m[f]] /\ m["unknown"] \in Seq(Foreign)
      /\ \A f \in Fields(t) : m[f] \in Content(t, f)
  BY MessageIs
<1>3. /\ x["unknown"] \in Seq(Foreign)
      /\ \A f \in Fields(t) : x[f] \in Content(t, f)
  BY MessageIs
<1>4. DOMAIN m = D BY <1>2
<1>5. g = [f \in D |-> g[f]] BY <1>4 DEF MergeFrom
<1>6. g["unknown"] = m["unknown"] \o x["unknown"] BY <1>4 DEF MergeFrom
<1>7. \A f \in Fields(t) : g[f] = IF Repeated(t, f) THEN m[f] \o x[f]
                                  ELSE IF x[f] # 0 THEN x[f] ELSE m[f]
  BY <1>1, <1>4 DEF MergeFrom
<1> HIDE DEF g
<1>8. g["unknown"] \in Seq(Foreign) BY <1>2, <1>3, <1>6, ConcatProperties
<1>9. ASSUME NEW f \in Fields(t) PROVE g[f] \in Content(t, f)
  <2>1. CASE Repeated(t, f)
    <3>1. Content(t, f) = Seq(LeafMessage(Code[t].kinds[f])) BY <2>1 DEF Content
    <3>2. m[f] \o x[f] \in Content(t, f) BY <1>2, <1>3, <3>1, ConcatProperties
    <3> QED BY <1>7, <2>1, <3>2
  <2>2. CASE ~ Repeated(t, f) BY <1>2, <1>3, <1>7, <2>2
  <2> QED BY <2>1, <2>2
<1>10. g \in Message(t) BY <1>5, <1>8, <1>9, MessageIs
<1> QED BY <1>6, <1>7, <1>10 DEF g

LEMMA ForeignRead ==
  ASSUME NEW t \in DOMAIN Code, NestedFine(t), NEW m \in Message(t), NEW q \in Seq(Foreign)
  PROVE  /\ q \in Seq(Wire(t))
         /\ After(t, Start(m), q) = Start([m EXCEPT !["unknown"] = m["unknown"] \o q])
<1> DEFINE n == Len(q)
           r == Reads(t, Start(m), q)
           old == m["unknown"]
           With(i) == [m EXCEPT !["unknown"] = old \o SubSeq(q, 1, i)]
           T == {i \in 0 .. n : r[i] = Start(With(i))}
<1>1. /\ n \in Nat
      /\ \A i \in 1 .. n : i - 1 \in 0 .. n /\ i \in 0 .. n /\ q[i] \in Foreign
  OBVIOUS
<1>2. Foreign \subseteq Wire(t) BY ForeignIs, WireIs
<1>3. q \in Seq(Wire(t)) BY <1>2, SeqMonotonic
<1>4. r[0] = Start(m) /\ \A i \in 1 .. n : r[i] = Step(t, r[i - 1], q[i])
  BY <1>3, StartTyped, ReadsUnfold
<1>5. m = [f \in Fields(t) \cup {"unknown"} |-> m[f]] /\ old \in Seq(Foreign) BY MessageIs
<1>6. /\ old \o SubSeq(q, 1, 0) = old /\ SubSeq(q, 1, n) = q
      /\ \A i \in 0 .. n : old \o SubSeq(q, 1, i) \in Seq(Foreign)
      /\ \A i \in 1 .. n : old \o SubSeq(q, 1, i) = Append(old \o SubSeq(q, 1, i - 1), q[i])
  BY <1>5, PrefixGrows
<1>7. \A f \in Fields(t) : f # "unknown" BY Tables DEF TablesAgree
<1>8. \A i \in 0 .. n : With(i) \in Message(t)
  <2> TAKE i \in 0 .. n
  <2> DEFINE y == With(i)
  <2>1. /\ y = [f \in Fields(t) \cup {"unknown"} |-> y[f]]
        /\ y["unknown"] = old \o SubSeq(q, 1, i)
        /\ \A f \in Fields(t) : y[f] = m[f]
    BY <1>5, <1>7
  <2>2. \A f \in Fields(t) : m[f] \in Content(t, f) BY MessageIs
  <2> HIDE DEF y
  <2>3. y \in Message(t) BY <1>6, <2>1, <2>2, MessageIs
  <2> QED BY <2>3 DEF y
<1>9. With(0) = m BY <1>5, <1>6
<1>10. ASSUME NEW i \in 1 .. n
       PROVE  With(i) = [With(i - 1) EXCEPT !["unknown"]
                                              = Append(With(i - 1)["unknown"], q[i])]
  BY <1>1, <1>5, <1>6
<1> HIDE DEF n, r, With
<1>11. 0 \in T BY <1>1, <1>4, <1>9
<1>12. ASSUME NEW i \in 1 .. n, i - 1 \in T PROVE i \in T
  <2>1. r[i] = Step(t, Start(With(i - 1)), q[i]) BY <1>4, <1>12
  <2>2. PICK a \in ForeignTags : ~ Stops(a) /\ q[i] = ForeignField(a) BY <1>1, ForeignIs
  <2>3. With(i - 1) \in Message(t) BY <1>1, <1>8
  <2>4. r[i] = Start([With(i - 1) EXCEPT !["unknown"]
                                           = Append(With(i - 1)["unknown"], q[i])])
    BY <2>1, <2>2, StepForeign
  <2> QED BY <1>1, <1>10, <2>4
<1>13. \A i \in 0 .. n : i \in T
  <2> HIDE DEF T
  <2> QED BY <1>1, <1>11, <1>12, UpTo
<1>14. r[n] = Start(With(n)) BY <1>1, <1>13
<1> QED BY <1>3, <1>6, <1>14 DEF After, n, r, With

(* The n-th field as the writer writes it *)
LEMMA WrittenScalar ==
  ASSUME NEW t \in DOMAIN Code, NEW x \in Message(t), NEW n \in DOMAIN Code[t].written,
         ~ Repeated(t, Code[t].written[n])
  PROVE  LET f == Code[t].written[n] IN
         /\ f \in Fields(t) /\ x[f] \in Value(Code[t].kinds[f])
         /\ WriteField(t, x, n) = WriteScalar(t, x, n)
         /\ WriteField(t, x, n) = IF x[f] = 0 THEN <<>> ELSE <<Scalar(t, f, x[f])>>
         /\ WriteField(t, x, n) \in Seq(Wire(t))
<1> DEFINE f == Code[t].written[n]
<1>1. f \in Fields(t) /\ Tag(t, n) = Code[t].tags[f]
  BY Tables, ElementOfSeq DEF TablesAgree
<1>2. x[f] \in Value(Code[t].kinds[f]) BY <1>1, MessageIs DEF Content
<1>3. WriteField(t, x, n) = WriteScalar(t, x, n) BY DEF WriteField
<1>4. WriteScalar(t, x, n) = IF x[f] = 0 THEN <<>> ELSE <<Scalar(t, f, x[f])>>
  BY <1>1 DEF WriteScalar, Scalar
<1>5. Scalar(t, f, x[f]) \in Wire(t) BY <1>1, <1>2, WireIs
<1> HIDE DEF f
<1>6. WriteScalar(t, x, n) \in Seq(Wire(t)) BY <1>4, <1>5
<1> QED BY <1>1, <1>2, <1>3, <1>4, <1>6 DEF f

LEMMA WrittenNested ==
  ASSUME NEW t \in DOMAIN Code, NEW x \in Message(t), NEW n \in DOMAIN Code[t].written,
         Repeated(t, Code[t].written[n])
  PROVE  LET f == Code[t].written[n]
             u == Code[t].kinds[f] IN
         /\ f \in Fields(t) /\ u \in {"FileInfo", "ResultFile"}
         /\ x[f] \in Seq(LeafMessage(u))
         /\ WriteField(t, x, n) \in Seq(Wire(t))
         /\ Len(WriteField(t, x, n)) = Len(x[f])
         /\ \A i \in 1 .. Len(x[f]) : /\ WriteField(t, x, n)[i] = Nested(t, f, x[f][i])
                                      /\ x[f][i] \in LeafMessage(u)
<1> DEFINE f == Code[t].written[n]
           u == Code[t].kinds[f]
           q == x[f]
           w == WriteField(t, x, n)
<1>1. f \in Fields(t) /\ Tag(t, n) = Code[t].tags[f] /\ u \in {"FileInfo", "ResultFile"}
  BY Tables, ElementOfSeq DEF TablesAgree, Kind, Repeated
<1>2. q \in Seq(LeafMessage(u)) BY <1>1, MessageIs DEF Content
<1>3. w = [i \in DOMAIN q |-> Element(t, n, u, q[i])] BY DEF WriteField
<1>4. \A e : Element(t, n, u, e) = Nested(t, f, e) BY <1>1 DEF Element, Nested
<1>5. Len(q) \in Nat /\ DOMAIN q = 1 .. Len(q)
      /\ \A i \in 1 .. Len(q) : q[i] \in LeafMessage(u)
  BY <1>2
<1>6. \A e \in LeafMessage(u) : Nested(t, f, e) \in Wire(t) BY <1>1, WireIs
<1> HIDE DEF f, u, q, w
<1>7. \A i \in 1 .. Len(q) : w[i] = Nested(t, f, q[i]) /\ w[i] \in Wire(t)
  BY <1>3, <1>4, <1>5, <1>6
<1>8. w \in Seq(Wire(t)) /\ Len(w) = Len(q)
  <2>1. w = [i \in 1 .. Len(q) |-> w[i]] BY <1>3, <1>5
  <2>2. w \in [1 .. Len(q) -> Wire(t)] BY <1>7, <2>1
  <2> QED BY <1>5, <2>2, <2>1
<1> QED BY <1>1, <1>2, <1>5, <1>7, <1>8 DEF f, u, q, w

LEMMA ElementsRead ==
  ASSUME NEW t \in DOMAIN Code, NestedFine(t), NEW m \in Message(t), NEW x \in Message(t),
         NEW n \in DOMAIN Code[t].written, Repeated(t, Code[t].written[n])
  PROVE  LET f == Code[t].written[n]
             r == After(t, Start(m), WriteField(t, x, n))
         IN IF \A i \in DOMAIN x[f] : Readable(Code[t].kinds[f], x[f][i])
            THEN r = Start([m EXCEPT ![f] = m[f] \o x[f]]) ELSE ~ Accepted(r)
<1> DEFINE f == Code[t].written[n]
           u == Code[t].kinds[f]
           q == x[f]
           w == WriteField(t, x, n)
           k == Len(q)
           r == Reads(t, Start(m), w)
           Good(i) == \A j \in 1 .. i : Readable(u, q[j])
           With(i) == [m EXCEPT ![f] = m[f] \o SubSeq(q, 1, i)]
           T == {i \in 0 .. k : IF Good(i) THEN r[i] = Start(With(i)) ELSE ~ Accepted(r[i])}
<1>1. /\ f \in Fields(t) /\ q \in Seq(LeafMessage(u)) /\ w \in Seq(Wire(t)) /\ Len(w) = k
      /\ \A i \in 1 .. k : w[i] = Nested(t, f, q[i]) /\ q[i] \in LeafMessage(u)
  BY WrittenNested
<1>2. /\ k \in Nat /\ DOMAIN q = 1 .. k
      /\ \A i \in 1 .. k : i - 1 \in 0 .. k /\ i \in 0 .. k /\ i \in 1 .. k
  BY <1>1
<1>3. /\ r[0] = Start(m)
      /\ \A i \in 1 .. k : r[i] = Step(t, r[i - 1], w[i])
  BY <1>1, StartTyped, ReadsUnfold
<1>4. m[f] \in Seq(LeafMessage(u)) BY <1>1, MessageIs DEF Content
<1>5. /\ m[f] \o SubSeq(q, 1, 0) = m[f] /\ SubSeq(q, 1, k) = q
      /\ \A i \in 0 .. k : m[f] \o SubSeq(q, 1, i) \in Seq(LeafMessage(u))
      /\ \A i \in 1 .. k :
            m[f] \o SubSeq(q, 1, i) = Append(m[f] \o SubSeq(q, 1, i - 1), q[i])
  <2> HIDE DEF q, u, f
  <2>1. q \in Seq(LeafMessage(u)) BY <1>1
  <2> QED BY <1>4, <2>1, PrefixGrows
<1>6. m = [g \in Fields(t) \cup {"unknown"} |-> m[g]] BY MessageIs
<1>7. With(0) = m BY <1>1, <1>5, <1>6
<1>8. \A i \in 0 .. k : With(i) \in Message(t)
  <2> TAKE i \in 0 .. k
  <2>1. m[f] \o SubSeq(q, 1, i) \in Content(t, f) BY <1>5 DEF Content
  <2> QED BY <1>1, <2>1, StoreTyped
<1>9. ASSUME NEW i \in 1 .. k
      PROVE  With(i) = [With(i - 1) EXCEPT ![f] = Append(With(i - 1)[f], q[i])]
  BY <1>1, <1>2, <1>5, <1>6
<1>10. Repeated(t, f) OBVIOUS
<1>11. \A i \in 1 .. k : Good(i) <=> Good(i - 1) /\ Readable(u, q[i])
  <2> TAKE i \in 1 .. k
  <2>1. \A j \in 1 .. i : j \in 1 .. i - 1 \/ j = i BY <1>2
  <2>2. i \in 1 .. i /\ \A j \in 1 .. i - 1 : j \in 1 .. i BY <1>2
  <2> QED BY <2>1, <2>2
<1>12. Good(0) OBVIOUS
<1>13. \A j \in 1 .. k : Good(k) => Readable(u, q[j]) OBVIOUS
<1>14. (\A j \in DOMAIN q : Readable(u, q[j])) <=> Good(k) BY <1>2
<1>15. f \in Fields(t) BY <1>1
<1> HIDE DEF k, r, w, q, With, Good, u, f
<1>16. 0 \in T BY <1>2, <1>3, <1>7, <1>12
<1>17. ASSUME NEW i \in 1 .. k, i - 1 \in T PROVE i \in T
  <2>1. r[i] = Step(t, r[i - 1], w[i]) BY <1>3
  <2>2. CASE ~ Good(i - 1)
    <3>1. ~ Accepted(r[i - 1]) BY <1>17, <2>2
    <3>2. r[i] = r[i - 1] BY <2>1, <3>1, StepStays DEF Accepted
    <3>3. ~ Good(i) BY <1>11, <2>2
    <3> QED BY <1>2, <3>1, <3>2, <3>3
  <2>3. CASE Good(i - 1)
    <3>1. r[i - 1] = Start(With(i - 1)) BY <1>17, <2>3
    <3>2. With(i - 1) \in Message(t) /\ w[i] = Nested(t, f, q[i]) /\ q[i] \in LeafMessage(u)
      BY <1>1, <1>2, <1>8
    <3>3. ASSUME NEW y \in Message(t), NEW e \in LeafMessage(u)
          PROVE  LET a == Step(t, Start(y), Nested(t, f, e))
                 IN /\ a \in State(t)
                    /\ Accepted(a) <=> Readable(u, e)
                    /\ Accepted(a) => a.m = [y EXCEPT ![f] = Append(y[f], e)]
      BY <1>10, <1>15, OnNested DEF u
    <3>4. r[i] = Step(t, Start(With(i - 1)), Nested(t, f, q[i])) BY <2>1, <3>1, <3>2
    <3>5. /\ r[i] \in State(t)
          /\ Accepted(r[i]) <=> Readable(u, q[i])
          /\ Accepted(r[i]) => r[i].m = [With(i - 1) EXCEPT ![f] = Append(With(i - 1)[f], q[i])]
      BY <3>2, <3>3, <3>4
    <3>6. Good(i) <=> Accepted(r[i]) BY <1>11, <2>3, <3>5
    <3>7. Accepted(r[i]) => r[i] = Start(With(i))
      <4>1. Accepted(r[i]) => r[i].m = With(i) BY <1>9, <3>5
      <4> QED BY <3>5, <4>1, Started
    <3> QED BY <1>2, <3>6, <3>7
  <2> QED BY <2>2, <2>3
<1>18. \A i \in 0 .. k : i \in T
  <2> HIDE DEF T
  <2> QED BY <1>2, <1>16, <1>17, UpTo
<1>19. IF Good(k) THEN r[k] = Start(With(k)) ELSE ~ Accepted(r[k]) BY <1>2, <1>18
<1>20. With(k) = [m EXCEPT ![f] = m[f] \o q] BY <1>5 DEF With
<1>21. r[k] = After(t, Start(m), WriteField(t, x, n)) BY <1>1 DEF After, r, w
<1> QED BY <1>14, <1>19, <1>20, <1>21 DEF q, u, f

(* Reading one written field merges it in, unless it is not UTF-8. *)
FieldReadable(t, x, f) ==
    IF Repeated(t, f) THEN \A i \in DOMAIN x[f] : Readable(Code[t].kinds[f], x[f][i])
    ELSE Code[t].kinds[f] = "string" => x[f] \notin Mangled

LEMMA FieldRead ==
  ASSUME NEW t \in DOMAIN Code, NestedFine(t), NEW m \in Message(t), NEW x \in Message(t),
         NEW n \in DOMAIN Code[t].written
  PROVE  LET f == Code[t].written[n]
             r == After(t, Start(m), WriteField(t, x, n))
         IN IF FieldReadable(t, x, f)
            THEN r = Start([m EXCEPT ![f] = MergeFrom(t, m, x)[f]]) ELSE ~ Accepted(r)
<1> DEFINE f == Code[t].written[n]
           w == WriteField(t, x, n)
           r == After(t, Start(m), w)
<1>1. f \in Fields(t) BY Tables, ElementOfSeq DEF TablesAgree
<1>2. MergeFrom(t, m, x)[f] = IF Repeated(t, f) THEN m[f] \o x[f]
                              ELSE IF x[f] # 0 THEN x[f] ELSE m[f]
  BY <1>1, MergeIs
<1>3. CASE Repeated(t, f)
  <2>1. FieldReadable(t, x, f)
          <=> \A i \in DOMAIN x[f] : Readable(Code[t].kinds[f], x[f][i])
    BY <1>3 DEF FieldReadable
  <2>2. MergeFrom(t, m, x)[f] = m[f] \o x[f] BY <1>2, <1>3
  <2> QED BY <1>3, <2>1, <2>2, ElementsRead
<1>4. CASE ~ Repeated(t, f)
  <2>1. x[f] \in Value(Code[t].kinds[f])
        /\ w = IF x[f] = 0 THEN <<>> ELSE <<Scalar(t, f, x[f])>>
    BY <1>4, WrittenScalar
  <2>2. FieldReadable(t, x, f) <=> (Code[t].kinds[f] = "string" => x[f] \notin Mangled)
    BY <1>4 DEF FieldReadable
  <2>3. CASE x[f] = 0
    <3>1. FieldReadable(t, x, f) BY <2>2, <2>3, DataAssumption
    <3>2. r = Start(m) BY <2>1, <2>3, StartTyped, AfterNone
    <3>3. m = [g \in Fields(t) \cup {"unknown"} |-> m[g]] BY MessageIs
    <3>4. [m EXCEPT ![f] = m[f]] = m BY <1>1, <3>3
    <3>5. MergeFrom(t, m, x)[f] = m[f] BY <1>2, <1>4, <2>3
    <3> QED BY <3>1, <3>2, <3>4, <3>5
  <2>4. CASE x[f] # 0
    <3>1. Scalar(t, f, x[f]) \in Wire(t) BY <1>1, <1>4, <2>1, WireIs
    <3>2. r = Step(t, Start(m), Scalar(t, f, x[f]))
      BY <2>1, <2>4, <3>1, StartTyped, AfterOne
    <3>3. /\ r \in State(t) /\ r.m = [m EXCEPT ![f] = x[f]]
          /\ Accepted(r) <=> FieldReadable(t, x, f)
      BY <1>1, <1>4, <2>1, <2>2, <3>2, OnScalar
    <3>4. MergeFrom(t, m, x)[f] = x[f] BY <1>2, <1>4, <2>4
    <3>5. Accepted(r) => r = Start(r.m) BY <3>3, Started
    <3> HIDE DEF r
    <3> QED BY <3>3, <3>4, <3>5 DEF r
  <2> QED BY <2>3, <2>4
<1> QED BY <1>3, <1>4

LEMMA ReadableIs ==
  ASSUME NEW t \in DOMAIN Code, NEW x
  PROVE  Readable(t, x) <=> \A f \in Fields(t) : FieldReadable(t, x, f)
<1>1. ASSUME NEW u \in {"FileInfo", "ResultFile"}, NEW e
      PROVE  Readable(u, e)
               <=> \A g \in Fields(u) : Code[u].kinds[g] = "string" => e[g] \notin Mangled
  BY LeafTables DEF Readable
<1>2. ASSUME NEW f \in Fields(t), Repeated(t, f)
      PROVE  Code[t].kinds[f] \in {"FileInfo", "ResultFile"}
  BY <1>2, Tables DEF TablesAgree, Kind, Repeated
<1>3. ASSUME NEW f \in Fields(t), Repeated(t, f)
      PROVE  FieldReadable(t, x, f)
               <=> \A i \in DOMAIN x[f] : \A g \in Fields(Code[t].kinds[f]) :
                     Code[Code[t].kinds[f]].kinds[g] = "string" => x[f][i][g] \notin Mangled
  BY <1>1, <1>2, <1>3 DEF FieldReadable
<1>4. ASSUME NEW f \in Fields(t), ~ Repeated(t, f)
      PROVE  FieldReadable(t, x, f) <=> (Code[t].kinds[f] = "string" => x[f] \notin Mangled)
  BY <1>4 DEF FieldReadable
<1> QED BY <1>3, <1>4 DEF Readable

Parts(t, x) == [n \in DOMAIN Code[t].written |-> WriteField(t, x, n)]

LEMMA PartsTyped ==
  ASSUME NEW t \in DOMAIN Code, NEW x \in Message(t)
  PROVE  /\ Parts(t, x) \in Seq(Seq(Wire(t)))
         /\ Len(Parts(t, x)) = Len(Code[t].written)
         /\ Len(Code[t].written) \in Nat
         /\ \A n \in 1 .. Len(Code[t].written) :
               n \in DOMAIN Code[t].written /\ Parts(t, x)[n] = WriteField(t, x, n)
<1> DEFINE k == Len(Code[t].written)
           p == Parts(t, x)
<1>1. Code[t].written \in Seq(Fields(t)) BY Tables DEF TablesAgree
<1>2. k \in Nat /\ DOMAIN Code[t].written = 1 .. k BY <1>1
<1>3. p = [n \in 1 .. k |-> WriteField(t, x, n)] BY <1>2 DEF Parts
<1>4. \A n \in 1 .. k : WriteField(t, x, n) \in Seq(Wire(t))
  BY <1>2, WrittenScalar, WrittenNested
<1> HIDE DEF p, k
<1>5. p \in [1 .. k -> Seq(Wire(t))] BY <1>3, <1>4
<1>6. p \in Seq(Seq(Wire(t))) /\ Len(p) = k BY <1>2, <1>5
<1> QED BY <1>2, <1>3, <1>6 DEF p, k

LEMMA EncodeTyped ==
  ASSUME NEW t \in DOMAIN Code, NEW x \in Message(t)
  PROVE  /\ Joined(Parts(t, x)) \in Seq(Wire(t))
         /\ x["unknown"] \in Seq(Wire(t))
         /\ Encode(t, x) = Joined(Parts(t, x)) \o x["unknown"]
         /\ Encode(t, x) \in Seq(Wire(t))
<1>1. Parts(t, x) \in Seq(Seq(Wire(t))) BY PartsTyped
<1>2. Joined(Parts(t, x)) \in Seq(Wire(t))
  <2>1. Len(Parts(t, x)) \in 0 .. Len(Parts(t, x)) BY <1>1
  <2> QED BY <1>1, <2>1, JoinsUnfold DEF Joined
<1>3. x["unknown"] \in Seq(Wire(t))
  <2>1. Foreign \subseteq Wire(t) BY ForeignIs, WireIs
  <2>2. x["unknown"] \in Seq(Foreign) BY MessageIs
  <2> QED BY <2>1, <2>2, SeqMonotonic
<1>4. Encode(t, x) = Joined(Parts(t, x)) \o x["unknown"] BY DEF Encode, Parts
<1> QED BY <1>2, <1>3, <1>4, ConcatProperties

(* Reading a written message merges it into the object, or is refused. *)
LEMMA EncodeRead ==
  ASSUME NEW t \in DOMAIN Code, NestedFine(t), NEW m \in Message(t), NEW x \in Message(t)
  PROVE  LET r == After(t, Start(m), Encode(t, x))
         IN IF Readable(t, x) THEN r = Start(MergeFrom(t, m, x)) ELSE ~ Accepted(r)
<1> DEFINE written == Code[t].written
           N == Len(written)
           D == Fields(t) \cup {"unknown"}
           M == MergeFrom(t, m, x)
           J == Joins(Parts(t, x))
           r(i) == After(t, Start(m), J[i])
           Good(i) == \A k \in 1 .. i : FieldReadable(t, x, written[k])
           Done(i, g) == \E k \in 1 .. i : written[k] = g
           With(i) == [g \in D |-> IF Done(i, g) THEN M[g] ELSE m[g]]
           T == {i \in 0 .. N : IF Good(i) THEN r(i) = Start(With(i)) ELSE ~ Accepted(r(i))}
<1>1. /\ N \in Nat /\ DOMAIN written = 1 .. N
      /\ "unknown" \notin Fields(t)
      /\ \A n \in 1 .. N : written[n] \in Fields(t)
      /\ \A i, j \in 1 .. N : written[i] = written[j] => i = j
      /\ \A f \in Fields(t) : \E n \in 1 .. N : written[n] = f
  BY Tables DEF TablesAgree, Distinct
<1>2. /\ J[0] = <<>>
      /\ \A i \in 1 .. N : J[i] = J[i - 1] \o WriteField(t, x, i)
      /\ \A i \in 1 .. N : WriteField(t, x, i) \in Seq(Wire(t))
      /\ \A i \in 0 .. N : J[i] \in Seq(Wire(t))
  <2>1. \A i \in 1 .. N : Parts(t, x)[i] = WriteField(t, x, i) BY PartsTyped
  <2>2. Parts(t, x) \in Seq(Seq(Wire(t))) /\ Len(Parts(t, x)) = N BY PartsTyped
  <2>3. \A i \in 1 .. N : WriteField(t, x, i) \in Seq(Wire(t))
    BY <1>1, WrittenScalar, WrittenNested
  <2> QED BY <2>1, <2>2, <2>3, JoinsUnfold
<1>3. \A i \in 1 .. N : i - 1 \in 0 .. N /\ i \in 0 .. N BY <1>1
<1>4. /\ m = [g \in D |-> m[g]] /\ m["unknown"] \in Seq(Foreign)
      /\ \A f \in Fields(t) : m[f] \in Content(t, f)
  BY MessageIs
<1>5. /\ M = [g \in D |-> M[g]]
      /\ \A f \in Fields(t) : M[f] \in Content(t, f)
  BY MergeIs, MessageIs
<1>6. ASSUME NEW i \in 0 .. N PROVE With(i) \in Message(t)
  <2> DEFINE y == With(i)
  <2>1. y = [g \in D |-> y[g]] /\ y["unknown"] = m["unknown"] BY <1>1
  <2>2. \A f \in Fields(t) : y[f] \in Content(t, f) BY <1>4, <1>5
  <2> HIDE DEF y
  <2>3. y \in Message(t) BY <1>4, <2>1, <2>2, MessageIs
  <2> QED BY <2>3 DEF y
<1>7. With(0) = m
  <2>1. \A g \in D : ~ Done(0, g) OBVIOUS
  <2> QED BY <1>4, <2>1
<1>8. ASSUME NEW i \in 1 .. N
      PROVE  /\ With(i - 1)[written[i]] = m[written[i]]
             /\ With(i) = [With(i - 1) EXCEPT ![written[i]] = M[written[i]]]
  <2>1. \A g \in D : Done(i, g) <=> Done(i - 1, g) \/ g = written[i]
    <3>1. \A k \in 1 .. i : k \in 1 .. i - 1 \/ k = i BY <1>1
    <3>2. i \in 1 .. i /\ \A k \in 1 .. i - 1 : k \in 1 .. i BY <1>1
    <3> QED BY <3>1, <3>2
  <2>2. ~ Done(i - 1, written[i]) BY <1>1
  <2>3. written[i] \in D BY <1>1
  <2> HIDE DEF Done
  <2> QED BY <2>1, <2>2, <2>3
<1>9. \A i \in 1 .. N : Good(i) <=> Good(i - 1) /\ FieldReadable(t, x, written[i])
  <2> TAKE i \in 1 .. N
  <2>1. \A k \in 1 .. i : k \in 1 .. i - 1 \/ k = i BY <1>1
  <2>2. i \in 1 .. i /\ \A k \in 1 .. i - 1 : k \in 1 .. i BY <1>1
  <2> QED BY <2>1, <2>2
<1>10. ASSUME NEW i \in 1 .. N
       PROVE  MergeFrom(t, With(i - 1), x)[written[i]] = M[written[i]]
  <2> HIDE DEF With, Done
  <2>1. With(i - 1) \in Message(t) /\ written[i] \in Fields(t) BY <1>1, <1>3, <1>6
  <2>2. With(i - 1)[written[i]] = m[written[i]] BY <1>8
  <2>3. ASSUME NEW y \in Message(t), NEW f \in Fields(t), y[f] = m[f]
        PROVE  MergeFrom(t, y, x)[f] = M[f]
    <3>1. MergeFrom(t, y, x)[f] = IF Repeated(t, f) THEN y[f] \o x[f]
                                  ELSE IF x[f] # 0 THEN x[f] ELSE y[f]
      BY MergeIs
    <3>2. M[f] = IF Repeated(t, f) THEN m[f] \o x[f] ELSE IF x[f] # 0 THEN x[f] ELSE m[f]
      BY MergeIs
    <3> HIDE DEF M
    <3> QED BY <2>3, <3>1, <3>2
  <2> HIDE DEF M
  <2> QED BY <2>1, <2>2, <2>3
<1>11. Good(0) OBVIOUS
<1>12. Good(N) <=> Readable(t, x) BY <1>1, ReadableIs
<1>13. With(N)["unknown"] = m["unknown"] /\ \A f \in Fields(t) : With(N)[f] = M[f]
  <2>1. \A f \in Fields(t) : Done(N, f) BY <1>1
  <2>2. ~ Done(N, "unknown") BY <1>1
  <2> HIDE DEF Done
  <2> QED BY <2>1, <2>2
<1>14. With(N) = [g \in D |-> With(N)[g]] OBVIOUS
<1>15. /\ r(0) = Start(m)
       /\ \A i \in 1 .. N : r(i) = After(t, r(i - 1), WriteField(t, x, i))
       /\ \A i \in 0 .. N : r(i) \in State(t)
  <2>1. Start(m) \in State(t) BY StartTyped
  <2>2. r(0) = Start(m) BY <1>2, <2>1, AfterNone
  <2>3. \A i \in 0 .. N : r(i) \in State(t) BY <1>2, <2>1, AfterTyped
  <2>4. ASSUME NEW i \in 1 .. N PROVE r(i) = After(t, r(i - 1), WriteField(t, x, i))
    <3> HIDE DEF J
    <3>1. /\ J[i - 1] \in Seq(Wire(t)) /\ WriteField(t, x, i) \in Seq(Wire(t))
          /\ J[i] = J[i - 1] \o WriteField(t, x, i)
      BY <1>2, <1>3
    <3>2. After(t, Start(m), J[i - 1] \o WriteField(t, x, i))
            = After(t, After(t, Start(m), J[i - 1]), WriteField(t, x, i))
      BY <2>1, <3>1, AfterJoin
    <3> QED BY <3>1, <3>2
  <2> QED BY <2>2, <2>3, <2>4
<1> HIDE DEF N, J, r, Good, With, M
<1>16. 0 \in T BY <1>1, <1>7, <1>11, <1>15
<1>17. ASSUME NEW i \in 1 .. N, i - 1 \in T PROVE i \in T
  <2>1. CASE ~ Good(i - 1)
    <3>1. ~ Accepted(r(i - 1)) BY <1>17, <2>1
    <3>2. r(i) = r(i - 1) BY <1>2, <1>3, <1>15, <3>1, AfterStays
    <3> QED BY <1>3, <1>9, <2>1, <3>1, <3>2
  <2>2. CASE Good(i - 1)
    <3>1. r(i - 1) = Start(With(i - 1)) BY <1>17, <2>2
    <3>2. r(i) = After(t, Start(With(i - 1)), WriteField(t, x, i)) BY <1>15, <3>1
    <3>3. With(i - 1) \in Message(t) /\ i \in DOMAIN written BY <1>1, <1>3, <1>6
    <3>4. IF FieldReadable(t, x, written[i])
          THEN r(i) = Start([With(i - 1) EXCEPT ![written[i]]
                               = MergeFrom(t, With(i - 1), x)[written[i]]])
          ELSE ~ Accepted(r(i))
      BY <3>2, <3>3, FieldRead
    <3>5. FieldReadable(t, x, written[i]) => r(i) = Start(With(i)) BY <1>8, <1>10, <3>4
    <3> QED BY <1>3, <1>9, <2>2, <3>4, <3>5
  <2> QED BY <2>1, <2>2
<1>18. \A i \in 0 .. N : i \in T
  <2> HIDE DEF T
  <2> QED BY <1>1, <1>16, <1>17, UpTo
<1>19. IF Readable(t, x) THEN r(N) = Start(With(N)) ELSE ~ Accepted(r(N))
  BY <1>1, <1>12, <1>18
<1>20. After(t, Start(m), Encode(t, x)) = After(t, r(N), x["unknown"])
  <2>1. Joined(Parts(t, x)) = J[N] BY PartsTyped DEF Joined, J, N
  <2>2. After(t, Start(m), Joined(Parts(t, x)) \o x["unknown"])
          = After(t, After(t, Start(m), Joined(Parts(t, x))), x["unknown"])
    BY EncodeTyped, StartTyped, AfterJoin
  <2> QED BY <2>1, <2>2, EncodeTyped DEF r
<1>21. CASE ~ Readable(t, x)
  <2>1. ~ Accepted(r(N)) /\ r(N) \in State(t) BY <1>1, <1>15, <1>19, <1>21
  <2>2. After(t, r(N), x["unknown"]) = r(N) BY <2>1, EncodeTyped, AfterStays
  <2> QED BY <1>20, <1>21, <2>1, <2>2
<1>22. CASE Readable(t, x)
  <2>1. With(N) \in Message(t) BY <1>1, <1>6
  <2>2. x["unknown"] \in Seq(Foreign) BY MessageIs
  <2>3. After(t, r(N), x["unknown"])
          = Start([With(N) EXCEPT !["unknown"] = With(N)["unknown"] \o x["unknown"]])
    BY <1>19, <1>22, <2>1, <2>2, ForeignRead
  <2>4. M["unknown"] = m["unknown"] \o x["unknown"] BY MergeIs DEF M
  <2>5. [With(N) EXCEPT !["unknown"] = With(N)["unknown"] \o x["unknown"]] = M
    BY <1>1, <1>5, <1>13, <1>14, <2>4
  <2> QED BY <1>20, <1>22, <2>3, <2>5 DEF M
<1> QED BY <1>21, <1>22

-----------------------------------------------------------------------------
(* Sizes *)

LEMMA FourAreFinite ==
  ASSUME NEW a, NEW b, NEW c, NEW d
  PROVE  IsFiniteSet({a, b, c, d})
<1> DEFINE S2 == {a} \cup {b}
           S3 == S2 \cup {c}
           S4 == S3 \cup {d}
<1>1. \A S, x : IsFiniteSet(S) => IsFiniteSet(S \cup {x}) BY FS_AddElement
<1>2. IsFiniteSet({a}) BY FS_Singleton
<1>3. IsFiniteSet(S2) BY <1>1, <1>2
<1>4. S4 = {a, b, c, d} OBVIOUS
<1> HIDE DEF S2
<1>5. IsFiniteSet(S3) BY <1>1, <1>3
<1> HIDE DEF S3
<1>6. IsFiniteSet(S4) BY <1>1, <1>5
<1> HIDE DEF S4
<1> QED BY <1>4, <1>6

LEMMA SomeOfFour ==
  ASSUME NEW v \in Int, NEW a \in Int, NEW b \in Int, NEW c \in Int, NEW d \in Int
  PROVE  Cardinality({k \in {a, b, c, d} : v >= k}) \in Nat
<1> DEFINE K == {a, b, c, d}
           S == {k \in K : v >= k}
<1>1. IsFiniteSet(K) BY FourAreFinite
<1>2. S \subseteq K OBVIOUS
<1> HIDE DEF S, K
<1>3. Cardinality(S) \in Nat BY <1>1, <1>2, FS_Subset, FS_CardinalityType
<1> QED BY <1>3 DEF S, K

LEMMA VarintTyped ==
  /\ \A v \in Int : VarintSize(v) \in Nat
  /\ \A v \in 0 .. 127 : VarintSize(v) = 1
<1>1. ASSUME NEW v \in Int PROVE VarintSize(v) \in Nat
  <2>1. Cardinality({k \in {128, 16384, 2097152, 268435456} : v >= k}) \in Nat
    BY SomeOfFour, SMT
  <2> QED BY <2>1, SMT DEF VarintSize
<1>2. ASSUME NEW v \in 0 .. 127 PROVE VarintSize(v) = 1
  <2>1. {k \in {128, 16384, 2097152, 268435456} : v >= k} = {} BY SMT
  <2> QED BY <2>1, FS_EmptySet, SMT DEF VarintSize
<1> QED BY <1>1, <1>2

(* The bytes of two wires in a row, and of several *)
LEMMA BytesNone == BytesOf(<<>>) = 0
<1>1. Len(<<>>) = 0 OBVIOUS
<1> QED BY <1>1, TotalNone DEF BytesOf

LEMMA BytesOne ==
  ASSUME NEW w, FieldBytes(w) \in Int
  PROVE  BytesOf(<<w>>) = FieldBytes(w)
<1> DEFINE wire == <<w>>
           f == [i \in DOMAIN wire |-> FieldBytes(wire[i])]
<1>1. Len(wire) = 1 /\ f[1] = FieldBytes(w) OBVIOUS
<1>2. BytesOf(wire) = Total(f, 1) BY <1>1 DEF BytesOf
<1> HIDE DEF f, wire
<1>3. 1 \in 1 .. 1 /\ \A i \in 1 .. 1 : i = 1 OBVIOUS
<1>4. Total(f, 1) = f[1] BY <1>1, <1>3, TotalOne
<1> QED BY <1>1, <1>2, <1>4 DEF wire

LEMMA BytesTyped ==
  ASSUME NEW W, \A w \in W : FieldBytes(w) \in Int, NEW a \in Seq(W)
  PROVE  BytesOf(a) \in Int
<1> DEFINE f == [i \in DOMAIN a |-> FieldBytes(a[i])]
<1>1. Len(a) \in Nat /\ Len(a) \in 0 .. Len(a) /\ \A i \in 1 .. Len(a) : f[i] \in Int
  OBVIOUS
<1>2. BytesOf(a) = Total(f, Len(a)) BY DEF BytesOf
<1> HIDE DEF f
<1> QED BY <1>1, <1>2, TotalUnfold

LEMMA BytesJoin ==
  ASSUME NEW W, \A w \in W : FieldBytes(w) \in Int, NEW a \in Seq(W), NEW b \in Seq(W)
  PROVE  BytesOf(a \o b) = BytesOf(a) + BytesOf(b)
<1> DEFINE ab == a \o b
           Bytes(s) == [i \in DOMAIN s |-> FieldBytes(s[i])]
           k == Len(a)
           n == Len(b)
<1>1. /\ k \in Nat /\ n \in Nat /\ ab \in Seq(W) /\ Len(ab) = k + n
      /\ \A i \in 1 .. k : i \in 1 .. k + n /\ ab[i] = a[i]
      /\ \A i \in 1 .. n : k + i \in 1 .. k + n /\ ab[k + i] = b[i]
  BY ConcatProperties
<1>2. DOMAIN a = 1 .. k /\ DOMAIN b = 1 .. n /\ DOMAIN ab = 1 .. k + n BY <1>1
<1>3. /\ BytesOf(a) = Total(Bytes(a), k) /\ BytesOf(b) = Total(Bytes(b), n)
      /\ BytesOf(ab) = Total(Bytes(ab), k + n)
  BY <1>1 DEF BytesOf
<1>4. \A i \in 1 .. k + n : ab[i] \in W BY <1>1
<1> HIDE DEF ab, k, n
<1>5. \A i \in 1 .. k + n : Bytes(ab)[i] \in Int BY <1>2, <1>4
<1>6. \A i \in 1 .. k : Bytes(ab)[i] \in Int /\ Bytes(ab)[i] = Bytes(a)[i]
  BY <1>1, <1>2, <1>5
<1>7. \A i \in 1 .. n : Bytes(b)[i] = Bytes(ab)[k + i] BY <1>1, <1>2
<1> DEFINE f == Bytes(ab)
           g == Bytes(b)
           h == Bytes(a)
<1>8. /\ \A i \in 1 .. k + n : f[i] \in Int
      /\ \A i \in 1 .. n : g[i] = f[k + i]
      /\ \A i \in 1 .. k : f[i] \in Int /\ f[i] = h[i]
      /\ k \in Nat /\ n \in Nat
  BY <1>1, <1>5, <1>6, <1>7
<1>9. BytesOf(a) = Total(h, k) /\ BytesOf(b) = Total(g, n) /\ BytesOf(ab) = Total(f, k + n)
  BY <1>3
<1> HIDE DEF Bytes, f, g, h
<1>10. Total(f, k + n) = Total(f, k) + Total(g, n) BY <1>8, TotalSplit
<1>11. Total(f, k) = Total(h, k) BY <1>8, TotalEqual
<1> QED BY <1>9, <1>10, <1>11 DEF ab

LEMMA BytesJoined ==
  ASSUME NEW W, \A w \in W : FieldBytes(w) \in Int, NEW parts \in Seq(Seq(W)),
         NEW g, \A i \in 1 .. Len(parts) : g[i] = BytesOf(parts[i])
  PROVE  BytesOf(Joined(parts)) = Total(g, Len(parts))
<1> DEFINE n == Len(parts)
           J == Joins(parts)
           T == {i \in 0 .. n : BytesOf(J[i]) = Total(g, i)}
<1>1. /\ n \in Nat
      /\ \A i \in 1 .. n : i - 1 \in 0 .. n /\ i \in 0 .. n /\ parts[i] \in Seq(W)
  OBVIOUS
<1>2. /\ J[0] = <<>> /\ \A i \in 1 .. n : J[i] = J[i - 1] \o parts[i]
      /\ \A i \in 0 .. n : J[i] \in Seq(W)
  BY JoinsUnfold
<1>3. \A i \in 1 .. n : g[i] = BytesOf(parts[i]) /\ g[i] \in Int BY <1>1, BytesTyped
<1>4. Joined(parts) = J[n] BY DEF Joined
<1> HIDE DEF n, J
<1>5. Total(g, 0) = 0 /\ \A i \in 1 .. n : Total(g, i) = Total(g, i - 1) + g[i]
  BY <1>1, <1>3, TotalUnfold
<1>6. 0 \in T BY <1>1, <1>2, <1>5, BytesNone
<1>7. ASSUME NEW i \in 1 .. n, i - 1 \in T PROVE i \in T
  <2>1. BytesOf(J[i - 1] \o parts[i]) = BytesOf(J[i - 1]) + BytesOf(parts[i])
    <3>1. J[i - 1] \in Seq(W) /\ parts[i] \in Seq(W) BY <1>1, <1>2
    <3> QED BY <3>1, BytesJoin
  <2>2. J[i] = J[i - 1] \o parts[i] BY <1>2
  <2> QED BY <1>1, <1>3, <1>5, <1>7, <2>1, <2>2
<1>8. \A i \in 0 .. n : i \in T
  <2> HIDE DEF T
  <2> QED BY <1>1, <1>6, <1>7, UpTo
<1>9. BytesOf(J[n]) = Total(g, n) BY <1>1, <1>8
<1> QED BY <1>4, <1>9 DEF n

(* One byte more for each term *)
LEMMA TotalOneMore ==
  ASSUME NEW n \in Nat, NEW f, NEW g, \A i \in 1 .. n : g[i] \in Int /\ f[i] = 1 + g[i]
  PROVE  Total(f, n) = n + Total(g, n)
<1> DEFINE T == {i \in 0 .. n : Total(f, i) = i + Total(g, i)}
<1>1. \A i \in 1 .. n : i - 1 \in 0 .. n /\ i \in 0 .. n /\ f[i] \in Int OBVIOUS
<1>2. /\ Total(f, 0) = 0 /\ Total(g, 0) = 0
      /\ \A i \in 1 .. n : /\ Total(f, i) = Total(f, i - 1) + f[i]
                           /\ Total(g, i) = Total(g, i - 1) + g[i]
      /\ \A i \in 0 .. n : Total(g, i) \in Int
  BY <1>1, TotalUnfold
<1>3. 0 \in T /\ \A i \in 1 .. n : i - 1 \in T => i \in T BY <1>1, <1>2
<1>4. \A i \in 0 .. n : i \in T
  <2> HIDE DEF T
  <2> QED BY <1>3, UpTo
<1> QED BY <1>4

-----------------------------------------------------------------------------
(* The size of each sort of field, and of what the writer makes of it *)

LEMMA ValueTyped ==
  ASSUME NEW k, NEW v \in Value(k)
  PROVE  v \in Int /\ VarintSize(v) \in Int /\ Delimited(v) \in Int
<1>1. v \in Int BY DataAssumption DEF Value
<1> QED BY <1>1, VarintTyped DEF Delimited

LEMMA ForeignBytes ==
  ASSUME NEW a \in ForeignTags
  PROVE  FieldBytes(ForeignField(a)) \in Int
<1>1. a \in Int /\ 1 \in Int BY TypesAssumption
<1>2. VarintSize(a) \in Int /\ VarintSize(1) \in Int /\ Delimited(1) \in Int
  BY <1>1, VarintTyped DEF Delimited
<1> DEFINE w == ForeignField(a)
<1>3. w.tag = a /\ w.value = 1 /\ w.body = <<>> BY DEF ForeignField
<1> HIDE DEF w
<1>4. FieldBytes(w) = VarintSize(a) + (IF a % 8 = 0 THEN VarintSize(1) ELSE Delimited(1))
  BY <1>3 DEF FieldBytes, LeafBytes
<1>5. (IF a % 8 = 0 THEN VarintSize(1) ELSE Delimited(1)) \in Int BY <1>2
<1> QED BY <1>2, <1>4, <1>5 DEF w

LEMMA UnknownBytes ==
  ASSUME NEW q \in Seq(Foreign)
  PROVE  BytesOf(q) \in Int
<1>1. \A w \in Foreign : FieldBytes(w) \in Int BY ForeignIs, ForeignBytes
<1> QED BY <1>1, BytesTyped

LEMMA TagBytes ==
  ASSUME NEW t \in DOMAIN Code, NEW f \in Fields(t)
  PROVE  /\ VarintSize(Code[t].tags[f]) = 1
         /\ Code[t].tags[f] % 8 = 0 <=> Code[t].kinds[f] = "int32"
<1>1. /\ Code[t].tags[f] \in 1 .. 127
      /\ Code[t].tags[f] % 8 = IF Code[t].kinds[f] = "int32" THEN 0 ELSE 2
  BY Tables DEF TablesAgree
<1>2. Code[t].tags[f] \in 0 .. 127 BY <1>1
<1> QED BY <1>1, <1>2, VarintTyped

ScalarBytes(t, f, v) ==
    1 + IF Code[t].kinds[f] = "int32" THEN VarintSize(v) ELSE Delimited(v)

LEMMA ScalarFieldBytes ==
  ASSUME NEW t \in DOMAIN Code, NEW f \in Fields(t), NEW v \in Value(Code[t].kinds[f])
  PROVE  /\ FieldBytes(Scalar(t, f, v)) = ScalarBytes(t, f, v)
         /\ LeafBytes(Scalar(t, f, v)) = ScalarBytes(t, f, v)
         /\ ScalarBytes(t, f, v) \in Int
<1> DEFINE w == Scalar(t, f, v)
<1>1. w.tag = Code[t].tags[f] /\ w.value = v /\ w.body = <<>> BY DEF Scalar
<1> HIDE DEF w
<1>2. LeafBytes(w) = ScalarBytes(t, f, v) BY <1>1, TagBytes DEF LeafBytes, ScalarBytes
<1>3. FieldBytes(w) = LeafBytes(w) BY <1>1 DEF FieldBytes
<1>4. ScalarBytes(t, f, v) \in Int BY ValueTyped DEF ScalarBytes
<1> QED BY <1>2, <1>3, <1>4 DEF w

LEMMA ScalarSizeIs ==
  ASSUME NEW t \in DOMAIN Code, NEW f \in Fields(t), NEW m,
         m[f] \in Value(Code[t].kinds[f])
  PROVE  /\ ScalarSize(t, m, f) \in Int
         /\ BytesOf(IF m[f] = 0 THEN <<>> ELSE <<Scalar(t, f, m[f])>>) = ScalarSize(t, m, f)
<1>1. ScalarSize(t, m, f) = IF m[f] = 0 THEN 0 ELSE ScalarBytes(t, f, m[f])
  BY DEF ScalarSize, ScalarBytes
<1>2. ScalarBytes(t, f, m[f]) \in Int BY ScalarFieldBytes
<1>3. FieldBytes(Scalar(t, f, m[f])) \in Int
      /\ FieldBytes(Scalar(t, f, m[f])) = ScalarBytes(t, f, m[f])
  BY ScalarFieldBytes
<1>4. BytesOf(<<Scalar(t, f, m[f])>>) = ScalarBytes(t, f, m[f]) BY <1>3, BytesOne
<1> QED BY <1>1, <1>2, <1>4, BytesNone

(* A leaf is written and measured as any other message. *)
LEMMA LeafIsWhole ==
  ASSUME NEW u \in {"FileInfo", "ResultFile"}, NEW e
  PROVE  /\ LeafEncode(u, e) = Encode(u, e)
         /\ LeafSize(u, e) = ByteSizeLong(u, e)
<1>1. /\ u \in DOMAIN Code
      /\ \A f \in Fields(u) : ~ Repeated(u, f)
      /\ \A n \in DOMAIN Code[u].written : Code[u].written[n] \in Fields(u)
      /\ \A n \in DOMAIN Code[u].sized : Code[u].sized[n] \in Fields(u)
  BY LeafTables, Tables DEF TablesAgree
<1>2. \A n \in DOMAIN Code[u].written : WriteField(u, e, n) = WriteScalar(u, e, n)
  BY <1>1 DEF WriteField
<1>3. \A f \in Fields(u) : FieldSize(u, e, f) = ScalarSize(u, e, f) BY <1>1 DEF FieldSize
<1>4. [n \in DOMAIN Code[u].written |-> WriteField(u, e, n)]
        = [n \in DOMAIN Code[u].written |-> WriteScalar(u, e, n)]
  BY <1>2
<1>5. [i \in DOMAIN Code[u].sized |-> FieldSize(u, e, Code[u].sized[i])]
        = [i \in DOMAIN Code[u].sized |-> ScalarSize(u, e, Code[u].sized[i])]
  BY <1>1, <1>3
<1>6. LeafEncode(u, e) = Encode(u, e) BY <1>4 DEF LeafEncode, Encode
<1>7. LeafSize(u, e) = ByteSizeLong(u, e) BY <1>5 DEF LeafSize, ByteSizeLong
<1> QED BY <1>6, <1>7

LEMMA LeafSizeTyped ==
  ASSUME NEW u \in {"FileInfo", "ResultFile"}, NEW e \in LeafMessage(u)
  PROVE  LeafSize(u, e) \in Int /\ Delimited(LeafSize(u, e)) \in Int
<1> DEFINE sized == Code[u].sized
           g == [i \in DOMAIN sized |-> ScalarSize(u, e, sized[i])]
<1>1. /\ u \in DOMAIN Code /\ sized \in Seq(Fields(u))
      /\ e.unknown \in Seq(Foreign)
      /\ \A f \in Fields(u) : e[f] \in Value(Code[u].kinds[f])
  BY LeafTables, Tables DEF TablesAgree, LeafMessage
<1>2. \A f \in Fields(u) : ScalarSize(u, e, f) \in Int BY <1>1, ScalarSizeIs
<1>3. /\ Len(sized) \in Nat /\ Len(sized) \in 0 .. Len(sized)
      /\ \A i \in 1 .. Len(sized) : g[i] \in Int
  BY <1>1, <1>2
<1>4. LeafSize(u, e) = Total(g, Len(sized)) + BytesOf(e.unknown) BY DEF LeafSize
<1> HIDE DEF g, sized
<1>5. Total(g, Len(sized)) \in Int BY <1>3, TotalUnfold
<1>6. LeafSize(u, e) \in Int BY <1>1, <1>4, <1>5, UnknownBytes
<1> QED BY <1>6, VarintTyped DEF Delimited

(* In a leaf every field of the wire is one. *)
LEMMA LeafWire ==
  ASSUME NEW u \in {"FileInfo", "ResultFile"}, NEW w \in Wire(u)
  PROVE  w.body = <<>> /\ FieldBytes(w) = LeafBytes(w) /\ FieldBytes(w) \in Int
<1>1. u \in DOMAIN Code /\ \A f \in Fields(u) : ~ Repeated(u, f) BY LeafTables
<1>2. w.body = <<>> BY <1>1, WireIs DEF Scalar, ForeignField
<1>3. FieldBytes(w) = LeafBytes(w) BY <1>2 DEF FieldBytes
<1>4. FieldBytes(w) \in Int
  <2>1. CASE \E f \in Fields(u) : \E v \in Value(Code[u].kinds[f]) : w = Scalar(u, f, v)
    BY <1>1, <2>1, ScalarFieldBytes
  <2>2. CASE \E a \in ForeignTags : w = ForeignField(a) BY <2>2, ForeignBytes
  <2> QED BY <1>1, <2>1, <2>2, WireIs
<1> QED BY <1>2, <1>3, <1>4

LEMMA BodyIsWire ==
  ASSUME NEW u \in {"FileInfo", "ResultFile"}, NEW body \in Seq(Wire(u))
  PROVE  BodyBytes(body) = BytesOf(body)
<1>1. \A j \in DOMAIN body : body[j] \in Wire(u) OBVIOUS
<1>2. \A j \in DOMAIN body : FieldBytes(body[j]) = LeafBytes(body[j]) BY <1>1, LeafWire
<1>3. [j \in DOMAIN body |-> FieldBytes(body[j])]
        = [j \in DOMAIN body |-> LeafBytes(body[j])]
  BY <1>2
<1> QED BY <1>3 DEF BodyBytes, BytesOf

LEMMA NestedFieldBytes ==
  ASSUME NEW t \in DOMAIN Code, NestedFine(t), NEW f \in Fields(t), Repeated(t, f),
         NEW e \in LeafMessage(Code[t].kinds[f])
  PROVE  LET u == Code[t].kinds[f]
             w == Nested(t, f, e)
         IN /\ FieldBytes(w) = 1 + Delimited(LeafSize(u, e))
            /\ Delimited(LeafSize(u, e)) \in Int
            /\ w.value = BytesOf(w.body)
<1> DEFINE u == Code[t].kinds[f]
           w == Nested(t, f, e)
<1>1. u \in {"FileInfo", "ResultFile"} BY Tables DEF TablesAgree, Kind, Repeated
<1>2. w.tag = Code[t].tags[f] /\ w.value = LeafSize(u, e) /\ w.body = LeafEncode(u, e)
  BY DEF Nested
<1>3. LeafSize(u, e) = BytesOf(LeafEncode(u, e)) BY DEF NestedFine
<1>4. LeafEncode(u, e) \in Seq(Wire(u))
  BY <1>1, LeafIsWhole, LeafMessageIs, LeafTables, EncodeTyped
<1>5. BodyBytes(w.body) = LeafSize(u, e) BY <1>1, <1>2, <1>3, <1>4, BodyIsWire
<1>6. Delimited(LeafSize(u, e)) \in Int BY <1>1, LeafSizeTyped
<1>7. VarintSize(w.tag) = 1 /\ w.tag % 8 # 0
  BY <1>2, TagBytes DEF Repeated
<1>8. LeafBytes(w) = 1 + Delimited(LeafSize(u, e)) BY <1>2, <1>7 DEF LeafBytes
<1> HIDE DEF u, w
<1>9. FieldBytes(w) = 1 + Delimited(LeafSize(u, e)) BY <1>5, <1>7, <1>8 DEF FieldBytes
<1> QED BY <1>2, <1>3, <1>6, <1>9 DEF u, w

LEMMA WireBytes ==
  ASSUME NEW t \in DOMAIN Code, NestedFine(t), NEW w \in Wire(t)
  PROVE  FieldBytes(w) \in Int
<1>1. CASE \E f \in Fields(t) : \E v \in Value(Code[t].kinds[f]) : w = Scalar(t, f, v)
  BY <1>1, ScalarFieldBytes
<1>2. CASE \E f \in Fields(t) : /\ Repeated(t, f)
                                /\ \E e \in LeafMessage(Code[t].kinds[f]) : w = Nested(t, f, e)
  BY <1>2, NestedFieldBytes
<1>3. CASE \E a \in ForeignTags : w = ForeignField(a) BY <1>3, ForeignBytes
<1> QED BY <1>1, <1>2, <1>3, WireIs

(* What the writer makes of a field takes what ByteSizeLong counts for it. *)
LEMMA WrittenSize ==
  ASSUME NEW t \in DOMAIN Code, NestedFine(t), NEW x \in Message(t),
         NEW n \in DOMAIN Code[t].written
  PROVE  LET f == Code[t].written[n]
         IN /\ FieldSize(t, x, f) = BytesOf(WriteField(t, x, n))
            /\ FieldSize(t, x, f) \in Int
<1> DEFINE f == Code[t].written[n]
<1>1. CASE ~ Repeated(t, f)
  <2>1. /\ f \in Fields(t) /\ x[f] \in Value(Code[t].kinds[f])
        /\ WriteField(t, x, n) = IF x[f] = 0 THEN <<>> ELSE <<Scalar(t, f, x[f])>>
    BY <1>1, WrittenScalar
  <2>2. FieldSize(t, x, f) = ScalarSize(t, x, f) BY <1>1 DEF FieldSize
  <2> HIDE DEF f
  <2>3. /\ ScalarSize(t, x, f) \in Int
        /\ BytesOf(IF x[f] = 0 THEN <<>> ELSE <<Scalar(t, f, x[f])>>) = ScalarSize(t, x, f)
    BY <2>1, ScalarSizeIs
  <2> QED BY <2>1, <2>2, <2>3 DEF f
<1>2. CASE Repeated(t, f)
  <2> DEFINE u == Code[t].kinds[f]
             k == Len(x[f])
             q == WriteField(t, x, n)
             h == [i \in DOMAIN q |-> FieldBytes(q[i])]
             g == [i \in DOMAIN x[f] |-> Delimited(LeafSize(u, x[f][i]))]
  <2>1. /\ f \in Fields(t) /\ x[f] \in Seq(LeafMessage(u)) /\ q \in Seq(Wire(t))
        /\ Len(q) = k
        /\ \A i \in 1 .. k : q[i] = Nested(t, f, x[f][i]) /\ x[f][i] \in LeafMessage(u)
    BY <1>2, WrittenNested
  <2>2. k \in Nat /\ DOMAIN q = 1 .. k /\ DOMAIN x[f] = 1 .. k BY <2>1
  <2>3. FieldSize(t, x, f) = k + Total(g, k) BY <1>2 DEF FieldSize
  <2>4. BytesOf(q) = Total(h, k) BY <2>1 DEF BytesOf
  <2>5. \A e \in LeafMessage(u) :
           /\ FieldBytes(Nested(t, f, e)) = 1 + Delimited(LeafSize(u, e))
           /\ Delimited(LeafSize(u, e)) \in Int
    BY <1>2, <2>1, NestedFieldBytes
  <2> HIDE DEF f, u, k, q
  <2>6. \A i \in 1 .. k : g[i] \in Int /\ h[i] = 1 + g[i] BY <2>1, <2>2, <2>5
  <2> HIDE DEF g, h
  <2>7. Total(h, k) = k + Total(g, k) BY <2>2, <2>6, TotalOneMore
  <2>8. Total(g, k) \in Int
    <3>1. k \in 0 .. k /\ \A i \in 1 .. k : g[i] \in Int BY <2>2, <2>6
    <3> QED BY <2>2, <3>1, TotalUnfold
  <2> QED BY <2>2, <2>3, <2>4, <2>7, <2>8 DEF f, q
<1> QED BY <1>1, <1>2

LEMMA SizeIs ==
  ASSUME NEW t \in DOMAIN Code, NestedFine(t), NEW x \in Message(t)
  PROVE  ByteSizeLong(t, x) = BytesOf(Encode(t, x))
<1> DEFINE written == Code[t].written
           sized == Code[t].sized
           size == [f \in Fields(t) |-> FieldSize(t, x, f)]
           g == [n \in DOMAIN written |-> size[written[n]]]
           h == [i \in DOMAIN sized |-> size[sized[i]]]
           p == Parts(t, x)
<1>1. /\ written \in Seq(Fields(t)) /\ sized \in Seq(Fields(t))
      /\ \A f \in Fields(t) : \E n \in DOMAIN written : written[n] = f
  BY Tables DEF TablesAgree
<1>2. \A n \in DOMAIN written :
         /\ FieldSize(t, x, written[n]) = BytesOf(WriteField(t, x, n))
         /\ FieldSize(t, x, written[n]) \in Int
  BY WrittenSize
<1>3. size \in [Fields(t) -> Int] BY <1>1, <1>2
<1>4. \A n \in DOMAIN written : written[n] \in Fields(t) BY <1>1
<1>5. \A i \in DOMAIN sized : sized[i] \in Fields(t) BY <1>1
<1>6. Total(h, Len(sized)) = Total(g, Len(written))
  <2> HIDE DEF size
  <2> QED BY <1>3, SizedIsWritten
<1>7. ByteSizeLong(t, x) = Total(h, Len(sized)) + BytesOf(x.unknown)
  <2>1. h = [i \in DOMAIN sized |-> FieldSize(t, x, sized[i])] BY <1>5
  <2> HIDE DEF h
  <2> QED BY <2>1 DEF ByteSizeLong
<1>8. /\ p \in Seq(Seq(Wire(t))) /\ Len(p) = Len(written)
      /\ \A n \in 1 .. Len(written) : n \in DOMAIN written /\ p[n] = WriteField(t, x, n)
  BY PartsTyped
<1>9. \A n \in 1 .. Len(p) : g[n] = BytesOf(p[n]) BY <1>2, <1>4, <1>8
<1>10. \A w \in Wire(t) : FieldBytes(w) \in Int BY WireBytes
<1> HIDE DEF g, h, p, size
<1>11. BytesOf(Joined(p)) = Total(g, Len(p)) BY <1>8, <1>9, <1>10, BytesJoined
<1>12. BytesOf(Encode(t, x)) = BytesOf(Joined(p)) + BytesOf(x["unknown"])
  <2>1. /\ Joined(p) \in Seq(Wire(t)) /\ x["unknown"] \in Seq(Wire(t))
        /\ Encode(t, x) = Joined(p) \o x["unknown"]
    BY EncodeTyped DEF p
  <2> QED BY <1>10, <2>1, BytesJoin
<1>13. x.unknown = x["unknown"] OBVIOUS
<1> QED BY <1>6, <1>7, <1>8, <1>11, <1>12, <1>13

-----------------------------------------------------------------------------
(* Default instances, and the messages inside others *)

LEMMA DefaultTyped ==
  ASSUME NEW t \in DOMAIN Code
  PROVE  /\ Default(t) \in Message(t)
         /\ Default(t)["unknown"] = <<>>
         /\ \A f \in Fields(t) : Default(t)[f] = Zero(t, f)
<1> DEFINE d == Default(t)
<1>1. "unknown" \notin Fields(t) /\ \A f \in Fields(t) : Code[t].kinds[f] \in Kind
  BY Tables DEF TablesAgree
<1>2. /\ d["unknown"] = <<>> /\ \A f \in Fields(t) : d[f] = Zero(t, f)
      /\ d = [f \in Fields(t) \cup {"unknown"} |-> d[f]]
  BY <1>1 DEF Default
<1>3. ASSUME NEW f \in Fields(t) PROVE Zero(t, f) \in Content(t, f)
  <2>1. CASE Repeated(t, f)
    <3>1. Zero(t, f) = <<>> /\ Content(t, f) = Seq(LeafMessage(Code[t].kinds[f]))
      BY <2>1 DEF Zero, Content
    <3>2. \A X : <<>> \in Seq(X) OBVIOUS
    <3> QED BY <3>1, <3>2
  <2>2. CASE ~ Repeated(t, f)
    <3>1. Zero(t, f) = 0 /\ Content(t, f) = Value(Code[t].kinds[f])
      BY <2>2 DEF Zero, Content
    <3>2. \A k : 0 \in Value(k) BY DataAssumption DEF Value
    <3> QED BY <3>1, <3>2
  <2> QED BY <2>1, <2>2
<1>4. <<>> \in Seq(Foreign) OBVIOUS
<1> HIDE DEF d
<1>5. d \in Message(t) BY <1>2, <1>3, <1>4, MessageIs
<1> QED BY <1>2, <1>5 DEF d

LEMMA MergeIntoDefault ==
  ASSUME NEW t \in DOMAIN Code, NEW x \in Message(t)
  PROVE  MergeFrom(t, Default(t), x) = x
<1> DEFINE M == MergeFrom(t, Default(t), x)
           D == Fields(t) \cup {"unknown"}
<1>1. /\ M \in Message(t) /\ M["unknown"] = <<>> \o x["unknown"]
      /\ \A f \in Fields(t) : M[f] = IF Repeated(t, f) THEN <<>> \o x[f]
                                     ELSE IF x[f] # 0 THEN x[f] ELSE 0
  <2> DEFINE d == Default(t)
  <2>1. /\ d \in Message(t) /\ d["unknown"] = <<>>
        /\ \A f \in Fields(t) : d[f] = IF Repeated(t, f) THEN <<>> ELSE 0
    BY DefaultTyped DEF Zero
  <2> HIDE DEF d
  <2>2. /\ MergeFrom(t, d, x) \in Message(t)
        /\ MergeFrom(t, d, x)["unknown"] = d["unknown"] \o x["unknown"]
        /\ \A f \in Fields(t) :
              MergeFrom(t, d, x)[f] = IF Repeated(t, f) THEN d[f] \o x[f]
                                      ELSE IF x[f] # 0 THEN x[f] ELSE d[f]
    BY <2>1, MergeIs
  <2> QED BY <2>1, <2>2 DEF d
<1>2. x["unknown"] \in Seq(Foreign) /\ \A f \in Fields(t) : x[f] \in Content(t, f)
  BY MessageIs
<1>3. \A f \in Fields(t) : Repeated(t, f) => x[f] \in Seq(LeafMessage(Code[t].kinds[f]))
  BY <1>2 DEF Content
<1>4. \A X : \A q \in Seq(X) : <<>> \o q = q BY ConcatEmptySeq
<1>5. <<>> \o x["unknown"] = x["unknown"] BY <1>2, <1>4
<1>6. \A f \in Fields(t) : Repeated(t, f) => <<>> \o x[f] = x[f] BY <1>3, <1>4
<1>7. M["unknown"] = x["unknown"] /\ \A f \in Fields(t) : M[f] = x[f] BY <1>1, <1>5, <1>6
<1>8. M = [f \in D |-> M[f]] /\ x = [f \in D |-> x[f]] BY <1>1, MessageIs
<1> HIDE DEF M
<1>9. \A f \in D : M[f] = x[f] BY <1>7
<1>10. M = x BY <1>8, <1>9
<1> QED BY <1>10 DEF M

LEMMA LeafFine ==
  ASSUME NEW u \in {"FileInfo", "ResultFile"}, NEW e \in LeafMessage(u)
  PROVE  LET r == LeafParse(u, LeafEncode(u, e))
         IN /\ LeafSize(u, e) = BytesOf(LeafEncode(u, e))
            /\ r.m \in LeafMessage(u)
            /\ IF Readable(u, e) THEN Accepted(r) /\ r.m = e ELSE ~ Accepted(r)
<1> DEFINE w == Encode(u, e)
           s == Start(Default(u))
<1>1. u \in DOMAIN Code /\ NestedFine(u) BY LeafTables DEF NestedFine
<1>2. e \in Message(u) BY LeafMessageIs
<1>3. w = LeafEncode(u, e) /\ LeafSize(u, e) = ByteSizeLong(u, e) BY LeafIsWhole
<1>4. LeafSize(u, e) = BytesOf(LeafEncode(u, e)) BY <1>1, <1>2, <1>3, SizeIs
<1>5. s \in State(u) /\ w \in Seq(Wire(u))
  BY <1>1, <1>2, DefaultTyped, StartTyped, EncodeTyped
<1>6. LeafParse(u, w) = After(u, s, w) BY <1>1, <1>5, LeafReadsSame DEF LeafParse
<1>7. IF Readable(u, e) THEN After(u, s, w) = Start(e) ELSE ~ Accepted(After(u, s, w))
  BY <1>1, <1>2, DefaultTyped, EncodeRead, MergeIntoDefault
<1>8. After(u, s, w) \in State(u) BY <1>1, <1>5, AfterTyped
<1>9. After(u, s, w).m \in LeafMessage(u) BY <1>8, LeafMessageIs DEF State
<1>10. Accepted(Start(e)) /\ Start(e).m = e BY DEF Accepted, Start
<1> HIDE DEF w, s
<1> QED BY <1>3, <1>4, <1>6, <1>7, <1>9, <1>10

LEMMA AllNestedFine == \A t \in DOMAIN Code : NestedFine(t)
<1> SUFFICES ASSUME NEW t \in DOMAIN Code, NEW f \in Fields(t), Repeated(t, f),
                    NEW e \in LeafMessage(Code[t].kinds[f])
             PROVE  LET u == Code[t].kinds[f]
                        r == LeafParse(u, LeafEncode(u, e))
                    IN /\ LeafSize(u, e) = BytesOf(LeafEncode(u, e))
                       /\ r.m \in LeafMessage(u)
                       /\ IF Readable(u, e) THEN Accepted(r) /\ r.m = e ELSE ~ Accepted(r)
  BY DEF NestedFine
<1>1. Code[t].kinds[f] \in {"FileInfo", "ResultFile"}
  BY Tables DEF TablesAgree, Kind, Repeated
<1> QED BY <1>1, LeafFine

-----------------------------------------------------------------------------
(* Copying, clearing and swapping reach every field. *)
LEMMA WholeIs ==
  ASSUME NEW t \in DOMAIN Code, NEW m \in Message(t), NEW x \in Message(t)
  PROVE  /\ Copy(t, m) = m
         /\ Clear(t, m) = Default(t)
         /\ Swapped(t, m, x) = x
<1> DEFINE D == Fields(t) \cup {"unknown"}
<1>1. /\ "unknown" \notin Fields(t)
      /\ Code[t].copied = Fields(t) /\ Code[t].cleared = Fields(t)
      /\ Code[t].swapped = Fields(t)
  BY Tables DEF TablesAgree
<1>2. m = [f \in D |-> m[f]] /\ x = [f \in D |-> x[f]] BY MessageIs
<1>3. DOMAIN m = D /\ DOMAIN x = D BY <1>2
<1>4. Copy(t, m) = [f \in D |-> m[f]]
  <2>1. Copy(t, m) = [f \in D |-> IF f \in D THEN m[f] ELSE Zero(t, f)]
    BY <1>1, <1>3 DEF Copy
  <2> HIDE DEF D
  <2> QED BY <2>1
<1>5. Swapped(t, m, x) = [f \in D |-> x[f]]
  <2>1. Swapped(t, m, x) = [f \in D |-> IF f \in D THEN x[f] ELSE m[f]]
    BY <1>1, <1>3 DEF Swapped
  <2> HIDE DEF D
  <2> QED BY <2>1
<1>6. Clear(t, m) = Default(t)
  <2>1. Clear(t, m) = [f \in D |-> IF f = "unknown" THEN <<>>
                                   ELSE IF f \in Fields(t) THEN Zero(t, f) ELSE m[f]]
    BY <1>1, <1>3 DEF Clear
  <2>2. \A f \in D : f # "unknown" => f \in Fields(t) OBVIOUS
  <2>3. Default(t) = [f \in D |-> IF f = "unknown" THEN <<>> ELSE Zero(t, f)] BY DEF Default
  <2> HIDE DEF D
  <2> QED BY <2>1, <2>2, <2>3
<1> QED BY <1>2, <1>4, <1>5, <1>6

LEMMA ParseIs ==
  ASSUME NEW t \in DOMAIN Code, NEW m \in Message(t), NEW wire \in Seq(Wire(t))
  PROVE  Parse(t, m, wire) = After(t, Start(m), wire) /\ Parse(t, m, wire) \in State(t)
<1>1. Start(m) \in State(t) BY StartTyped
<1>2. NestedFine(t) BY AllNestedFine
<1> QED BY <1>1, <1>2, AfterTyped DEF Parse, After

(* The objects are messages of the behaviour's type, and what is under way *)
(* is a sequence of wire fields that a writer of that type can make, or    *)
(* that a writer of another version appended.                              *)
MessagesInv ==
    /\ type \in Types /\ type \in DOMAIN Code
    /\ obj \in [Slot -> Message(type)]
    /\ mail \subseteq Seq(Wire(type))

LEMMA InitHolds == Init => MessagesInv
<1> SUFFICES ASSUME Init PROVE MessagesInv OBVIOUS
<1>1. type \in Types /\ type \in DOMAIN Code BY TypesAssumption DEF Init
<1>2. Default(type) \in Message(type) BY <1>1, DefaultTyped
<1>3. obj = [s \in Slot |-> Default(type)] /\ mail = {} BY DEF Init
<1> QED BY <1>1, <1>2, <1>3 DEF MessagesInv

(* One object is replaced by another message of its type. *)
LEMMA Replaced ==
  ASSUME MessagesInv, NEW s \in Slot, NEW m \in Message(type),
         obj' = [obj EXCEPT ![s] = m], UNCHANGED <<type, mail>>
  PROVE  MessagesInv'
BY DEF MessagesInv

LEMMA SetFieldKeeps ==
  ASSUME MessagesInv, NEW s \in Slot, NEW f \in Fields(type), SetField(s, f)
  PROVE  MessagesInv'
<1>1. PICK v \in Value(Code[type].kinds[f]) : obj' = [obj EXCEPT ![s][f] = v]
  BY DEF SetField
<1>2. v \in Content(type, f) BY DEF SetField, Content
<1>3. type \in DOMAIN Code /\ obj[s] \in Message(type) BY DEF MessagesInv
<1>4. [obj[s] EXCEPT ![f] = v] \in Message(type) BY <1>2, <1>3, StoreTyped
<1>5. UNCHANGED <<type, mail>> BY DEF SetField, Call
<1> QED BY <1>1, <1>4, <1>5, Replaced

LEMMA AddElementKeeps ==
  ASSUME MessagesInv, NEW s \in Slot, NEW f \in Fields(type), AddElement(s, f)
  PROVE  MessagesInv'
<1> DEFINE u == Code[type].kinds[f]
           q == Append(obj[s][f], Default(u))
<1>1. type \in DOMAIN Code /\ obj[s] \in Message(type) /\ Repeated(type, f)
  BY DEF MessagesInv, AddElement
<1>2. u \in {"FileInfo", "ResultFile"} BY <1>1, Tables DEF TablesAgree, Kind, Repeated
<1>3. Default(u) \in LeafMessage(u) BY <1>2, LeafTables, DefaultTyped, LeafMessageIs
<1>4. obj[s][f] \in Seq(LeafMessage(u)) BY <1>1, MessageIs DEF Content
<1>5. q \in Content(type, f) BY <1>1, <1>3, <1>4 DEF Content
<1> HIDE DEF u
<1>6. obj' = [obj EXCEPT ![s] = [obj[s] EXCEPT ![f] = q]] BY DEF AddElement, u
<1>7. UNCHANGED <<type, mail>> BY DEF AddElement, Call
<1> HIDE DEF q
<1>8. [obj[s] EXCEPT ![f] = q] \in Message(type) BY <1>1, <1>5, StoreTyped
<1> QED BY <1>6, <1>7, <1>8, Replaced

LEMMA ClearElementsKeeps ==
  ASSUME MessagesInv, NEW s \in Slot, NEW f \in Fields(type), ClearElements(s, f)
  PROVE  MessagesInv'
<1>1. type \in DOMAIN Code /\ obj[s] \in Message(type) /\ Repeated(type, f)
  BY DEF MessagesInv, ClearElements
<1>2. <<>> \in Content(type, f)
  <2>1. \A X : <<>> \in Seq(X) OBVIOUS
  <2> QED BY <1>1, <2>1 DEF Content
<1>3. obj' = [obj EXCEPT ![s] = [obj[s] EXCEPT ![f] = <<>>]] BY DEF ClearElements
<1>4. UNCHANGED <<type, mail>> BY DEF ClearElements, Call
<1>5. [obj[s] EXCEPT ![f] = <<>>] \in Message(type) BY <1>1, <1>2, StoreTyped
<1> QED BY <1>3, <1>4, <1>5, Replaced

LEMMA SetElementKeeps ==
  ASSUME MessagesInv, NEW s \in Slot, NEW f \in Fields(type), SetElement(s, f)
  PROVE  MessagesInv'
<1> DEFINE u == Code[type].kinds[f]
<1>1. type \in DOMAIN Code /\ obj[s] \in Message(type) /\ Repeated(type, f)
  BY DEF MessagesInv, SetElement
<1>2. u \in {"FileInfo", "ResultFile"} BY <1>1, Tables DEF TablesAgree, Kind, Repeated
<1>3. obj[s][f] \in Seq(LeafMessage(u)) BY <1>1, MessageIs DEF Content
<1>4. PICK i \in DOMAIN obj[s][f], g \in Fields(u) :
         \E v \in Value(Code[u].kinds[g]) : obj' = [obj EXCEPT ![s][f][i][g] = v]
  BY DEF SetElement
<1>5. PICK v \in Value(Code[u].kinds[g]) : obj' = [obj EXCEPT ![s][f][i][g] = v] BY <1>4
<1> DEFINE e == [obj[s][f][i] EXCEPT ![g] = v]
           q == [obj[s][f] EXCEPT ![i] = e]
<1> HIDE DEF u
<1>6. e \in LeafMessage(u)
  <2>1. obj[s][f][i] \in Message(u) BY <1>2, <1>3, LeafMessageIs
  <2>2. u \in DOMAIN Code /\ v \in Content(u, g) BY <1>2, LeafTables DEF Content
  <2>3. e \in Message(u) BY <2>1, <2>2, StoreTyped
  <2> QED BY <1>2, <2>3, LeafMessageIs
<1>7. obj' = [obj EXCEPT ![s] = [obj[s] EXCEPT ![f] = q]] BY <1>5
<1> HIDE DEF e
<1>8. q \in Seq(LeafMessage(u)) BY <1>3, <1>6
<1>9. q \in Content(type, f) BY <1>1, <1>8 DEF Content, u
<1> HIDE DEF q
<1>10. [obj[s] EXCEPT ![f] = q] \in Message(type) BY <1>1, <1>9, StoreTyped
<1>11. UNCHANGED <<type, mail>> BY DEF SetElement, Call
<1> QED BY <1>7, <1>10, <1>11, Replaced

LEMMA AssignKeeps ==
  ASSUME MessagesInv, NEW s \in Slot, NEW r \in Slot, Assign(s, r)
  PROVE  MessagesInv'
<1> DEFINE m == MergeFrom(type, Clear(type, obj[s]), obj[r])
<1>1. type \in DOMAIN Code /\ obj[s] \in Message(type) /\ obj[r] \in Message(type)
  BY DEF MessagesInv
<1>2. Clear(type, obj[s]) \in Message(type) BY <1>1, WholeIs, DefaultTyped
<1>3. m \in Message(type) BY <1>1, <1>2, MergeIs
<1>4. obj' = [obj EXCEPT ![s] = m] /\ UNCHANGED <<type, mail>> BY DEF Assign, Call
<1> HIDE DEF m
<1> QED BY <1>3, <1>4, Replaced

LEMMA SwapWithKeeps ==
  ASSUME MessagesInv, NEW s \in Slot, NEW r \in Slot, SwapWith(s, r)
  PROVE  MessagesInv'
<1>1. type \in DOMAIN Code /\ obj[s] \in Message(type) /\ obj[r] \in Message(type)
  BY DEF MessagesInv
<1>2. Swapped(type, obj[s], obj[r]) \in Message(type)
      /\ Swapped(type, obj[r], obj[s]) \in Message(type)
  BY <1>1, WholeIs
<1>3. obj' = [obj EXCEPT ![s] = Swapped(type, obj[s], obj[r]),
                         ![r] = Swapped(type, obj[r], obj[s])]
  BY DEF SwapWith
<1>4. UNCHANGED <<type, mail>> BY DEF SwapWith, Call
<1> QED BY <1>2, <1>3, <1>4 DEF MessagesInv

LEMMA SendKeeps ==
  ASSUME MessagesInv, NEW s \in Slot, Send(s)
  PROVE  MessagesInv'
<1>1. type \in DOMAIN Code /\ obj[s] \in Message(type) BY DEF MessagesInv
<1>2. Encode(type, obj[s]) \in Seq(Wire(type)) BY <1>1, EncodeTyped
<1> QED BY <1>2 DEF MessagesInv, Send, Call

LEMMA ReceiveKeeps ==
  ASSUME MessagesInv, NEW s \in Slot, Receive(s)
  PROVE  MessagesInv'
<1>1. PICK w \in mail :
         LET r == Parse(type, Clear(type, obj[s]), w)
         IN obj' = [obj EXCEPT ![s] = IF Accepted(r) THEN r.m ELSE Default(type)]
  BY DEF Receive
<1> DEFINE r == Parse(type, Clear(type, obj[s]), w)
           m == IF Accepted(r) THEN r.m ELSE Default(type)
<1>2. type \in DOMAIN Code /\ obj[s] \in Message(type) /\ w \in Seq(Wire(type))
  BY DEF MessagesInv
<1>3. Default(type) \in Message(type) /\ Clear(type, obj[s]) \in Message(type)
  BY <1>2, WholeIs, DefaultTyped
<1>4. r \in State(type) BY <1>2, <1>3, ParseIs
<1>5. r.m \in Message(type) BY <1>4 DEF State
<1>6. obj' = [obj EXCEPT ![s] = m] BY <1>1
<1> HIDE DEF r
<1>7. m \in Message(type) BY <1>3, <1>5
<1> HIDE DEF m
<1> QED BY <1>6, <1>7 DEF MessagesInv, Receive

LEMMA AddForeignFieldKeeps ==
  ASSUME MessagesInv, AddForeignField
  PROVE  MessagesInv'
<1>1. PICK w \in mail, a \in ForeignTags : mail' = {Append(w, ForeignField(a))}
  BY DEF AddForeignField, ForeignField
<1>2. w \in Seq(Wire(type)) BY DEF MessagesInv
<1>3. ForeignField(a) \in Wire(type) BY WireIs
<1>4. Append(w, ForeignField(a)) \in Seq(Wire(type)) BY <1>2, <1>3
<1> QED BY <1>1, <1>4 DEF MessagesInv, AddForeignField, Call

LEMMA NextKeeps == MessagesInv /\ [Next]_vars => MessagesInv'
<1> SUFFICES ASSUME MessagesInv, [Next]_vars PROVE MessagesInv' OBVIOUS
<1>1. ASSUME NEW s \in Slot, NEW f \in Fields(type), SetField(s, f) PROVE MessagesInv'
  BY <1>1, SetFieldKeeps
<1>2. ASSUME NEW s \in Slot, NEW f \in Fields(type), AddElement(s, f) PROVE MessagesInv'
  BY <1>2, AddElementKeeps
<1>3. ASSUME NEW s \in Slot, NEW f \in Fields(type), ClearElements(s, f) PROVE MessagesInv'
  BY <1>3, ClearElementsKeeps
<1>4. ASSUME NEW s \in Slot, NEW f \in Fields(type), SetElement(s, f) PROVE MessagesInv'
  BY <1>4, SetElementKeeps
<1>5. ASSUME NEW s \in Slot, NEW r \in Slot, Assign(s, r) PROVE MessagesInv'
  BY <1>5, AssignKeeps
<1>6. ASSUME NEW s \in Slot, NEW r \in Slot, SwapWith(s, r) PROVE MessagesInv'
  BY <1>6, SwapWithKeeps
<1>7. ASSUME NEW s \in Slot, Send(s) PROVE MessagesInv' BY <1>7, SendKeeps
<1>8. ASSUME NEW s \in Slot, Receive(s) PROVE MessagesInv' BY <1>8, ReceiveKeeps
<1>9. CASE AddForeignField BY <1>9, AddForeignFieldKeeps
<1>10. CASE UNCHANGED vars BY <1>10 DEF vars, MessagesInv
<1> QED BY <1>1, <1>2, <1>3, <1>4, <1>5, <1>6, <1>7, <1>8, <1>9, <1>10 DEF Next

(* What holds of the messages a behaviour can hold: the objects stay       *)
(* whole messages of their type through every call, and what is under way  *)
(* consists of fields the writers of central.pb.cc produce.                *)
THEOREM MessagesTypeCorrect == Spec => []MessagesInv
BY InitHolds, NextKeeps, PTL DEF Spec

-----------------------------------------------------------------------------
(* Copy construction, Clear and swap treat every member of a message,      *)
(* whatever the objects hold: the member lists and the memory ranges of    *)
(* SharedCtor, Clear and InternalSwap leave none out.                      *)
THEOREM WholeObjectCorrect == Spec => []WholeObject
<1>1. MessagesInv => WholeObject
  <2> SUFFICES ASSUME MessagesInv, NEW s \in Slot, NEW r \in Slot
               PROVE  /\ Copy(type, obj[s]) = obj[s]
                      /\ Clear(type, obj[s]) = Default(type)
                      /\ Swapped(type, obj[s], obj[r]) = obj[r]
    BY DEF WholeObject
  <2>1. type \in DOMAIN Code /\ obj[s] \in Message(type) /\ obj[r] \in Message(type)
    BY DEF MessagesInv
  <2> QED BY <2>1, WholeIs
<1> QED BY <1>1, MessagesTypeCorrect, PTL

(* ByteSizeLong announces exactly the bytes _InternalSerialize writes, and *)
(* the length before each nested message is that of its body, for every    *)
(* value, text length and set of unknown fields.                           *)
THEOREM SizeExactCorrect == Spec => []SizeExact
<1>1. MessagesInv => SizeExact
  <2> SUFFICES ASSUME MessagesInv, NEW s \in Slot
               PROVE  LET wire == Encode(type, obj[s]) IN
                      /\ ByteSizeLong(type, obj[s]) = BytesOf(wire)
                      /\ \A i \in DOMAIN wire :
                            wire[i].body # <<>> => wire[i].value = BytesOf(wire[i].body)
    BY DEF SizeExact
  <2> DEFINE wire == Encode(type, obj[s])
  <2>1. type \in DOMAIN Code /\ obj[s] \in Message(type) BY DEF MessagesInv
  <2>2. NestedFine(type) BY <2>1, AllNestedFine
  <2>3. ByteSizeLong(type, obj[s]) = BytesOf(wire) BY <2>1, <2>2, SizeIs
  <2>4. wire \in Seq(Wire(type)) BY <2>1, EncodeTyped
  <2> HIDE DEF wire
  <2>5. ASSUME NEW i \in DOMAIN wire, wire[i].body # <<>>
        PROVE  wire[i].value = BytesOf(wire[i].body)
    <3>1. wire[i] \in Wire(type) BY <2>4
    <3>2. /\ \A f, v : Scalar(type, f, v).body = <<>>
          /\ \A a : ForeignField(a).body = <<>>
      BY DEF Scalar, ForeignField
    <3>3. \E f \in Fields(type) : /\ Repeated(type, f)
                                  /\ \E e \in LeafMessage(Code[type].kinds[f]) :
                                        wire[i] = Nested(type, f, e)
      BY <2>5, <3>1, <3>2, WireIs
    <3> QED BY <2>1, <2>2, <3>3, NestedFieldBytes
  <2> QED BY <2>3, <2>5 DEF wire
<1> QED BY <1>1, MessagesTypeCorrect, PTL

(* The parser reads back the message the writer wrote, unknown fields      *)
(* included, when its strings are UTF-8, and refuses it when one is not.   *)
THEOREM RoundTripCorrect == Spec => []RoundTrip
<1>1. MessagesInv => RoundTrip
  <2> SUFFICES ASSUME MessagesInv, NEW s \in Slot
               PROVE  LET r == Parse(type, Default(type), Encode(type, obj[s]))
                      IN IF Readable(type, obj[s]) THEN r = Start(obj[s]) ELSE ~ Accepted(r)
    BY DEF RoundTrip
  <2>1. type \in DOMAIN Code /\ obj[s] \in Message(type) BY DEF MessagesInv
  <2>2. NestedFine(type) /\ Default(type) \in Message(type)
    BY <2>1, AllNestedFine, DefaultTyped
  <2>3. Parse(type, Default(type), Encode(type, obj[s]))
          = After(type, Start(Default(type)), Encode(type, obj[s]))
    BY <2>1, <2>2, EncodeTyped, ParseIs
  <2> QED BY <2>1, <2>2, <2>3, EncodeRead, MergeIntoDefault
<1> QED BY <1>1, MessagesTypeCorrect, PTL

(* Reading two written messages one after the other, when both are         *)
(* accepted, gives what MergeFrom makes of the two objects.                *)
THEOREM ConcatIsMergeCorrect == Spec => []ConcatIsMerge
<1>1. MessagesInv => ConcatIsMerge
  <2> SUFFICES ASSUME MessagesInv, NEW s \in Slot, NEW r \in Slot
               PROVE  LET wire == Encode(type, obj[s]) \o Encode(type, obj[r])
                          both == Parse(type, Default(type), wire)
                      IN Accepted(both) => /\ both.m.unknown = obj[s].unknown \o obj[r].unknown
                                           /\ both.m = MergeFrom(type, obj[s], obj[r])
    BY DEF ConcatIsMerge
  <2> DEFINE a == Encode(type, obj[s])
             b == Encode(type, obj[r])
             both == Parse(type, Default(type), a \o b)
             first == After(type, Start(Default(type)), a)
  <2>1. type \in DOMAIN Code /\ obj[s] \in Message(type) /\ obj[r] \in Message(type)
    BY DEF MessagesInv
  <2>2. NestedFine(type) /\ Default(type) \in Message(type)
    BY <2>1, AllNestedFine, DefaultTyped
  <2>3. Start(Default(type)) \in State(type) BY <2>2, StartTyped
  <2>4. a \in Seq(Wire(type)) /\ b \in Seq(Wire(type)) BY <2>1, EncodeTyped
  <2>5. a \o b \in Seq(Wire(type)) BY <2>4, ConcatProperties
  <2>6. IF Readable(type, obj[s]) THEN first = Start(obj[s]) ELSE ~ Accepted(first)
    BY <2>1, <2>2, EncodeRead, MergeIntoDefault
  <2>7. IF Readable(type, obj[r])
        THEN After(type, Start(obj[s]), b) = Start(MergeFrom(type, obj[s], obj[r]))
        ELSE ~ Accepted(After(type, Start(obj[s]), b))
    BY <2>1, <2>2, EncodeRead
  <2> HIDE DEF a, b
  <2>8. both = After(type, Start(Default(type)), a \o b) BY <2>1, <2>2, <2>5, ParseIs
  <2>9. both = After(type, first, b) BY <2>1, <2>2, <2>3, <2>4, <2>8, AfterJoin
  <2>10. first \in State(type) BY <2>1, <2>2, <2>3, <2>4, AfterTyped
  <2> HIDE DEF both, first
  <2>11. ASSUME Accepted(both) PROVE both = Start(MergeFrom(type, obj[s], obj[r]))
    <3>1. Accepted(first) BY <2>1, <2>2, <2>4, <2>9, <2>10, <2>11, AfterStays
    <3> QED BY <2>6, <2>7, <2>9, <2>11, <3>1
  <2>12. MergeFrom(type, obj[s], obj[r])["unknown"] = obj[s]["unknown"] \o obj[r]["unknown"]
    BY <2>1, MergeIs
  <2>13. \A m : Start(m).m = m BY DEF Start
  <2>14. Accepted(both) => /\ both.m.unknown = obj[s].unknown \o obj[r].unknown
                           /\ both.m = MergeFrom(type, obj[s], obj[r])
    BY <2>11, <2>12, <2>13
  <2> QED BY <2>14 DEF both, a, b
<1> QED BY <1>1, MessagesTypeCorrect, PTL
=============================================================================
