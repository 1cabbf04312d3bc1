----------------------------- MODULE Enrolment -----------------------------
(***************************************************************************)
(* Persons, their embeddings and the face index: the enrolment and purge   *)
(* routes of src/vms/api/routes/persons.py, the stream faiss_dirty, and    *)
(* the task of src/vms/writer/db_writer.py that replays it into the        *)
(* in-memory FaissIndex of the identity process.                           *)
(*                                                                         *)
(* A face stands for a normalised embedding: two faces are similar when    *)
(* they are equal, and Blank, the zero vector, is similar to none.         *)
(* Messages are numbered by their position on the stream.                  *)
(***************************************************************************)
EXTENDS People, Integers, Sequences, FiniteSets

CONSTANTS
  Face, Blank,
  Pictured,     \* bound: the persons who may get a thumbnail
  Request,      \* API requests that may run at once
  MaxLen,       \* redis_stream_maxlen: messages XADD always keeps
  MaxRows,      \* bound on person_embeddings
  MaxMessages   \* bound on the stream

Emb == 1..MaxRows
NoRow == [of |-> Nobody, face |-> Blank]

ASSUME EnrolmentAssumption ==
  /\ Nobody \notin Person /\ Blank \notin Face /\ Pictured \subseteq Person
  /\ MaxLen \in Nat \ {0} /\ MaxRows \in Nat /\ MaxMessages \in Nat

VARIABLES
  person,     \* persons: "none", "active", "purged"
  keyed,      \* persons whose thumbnail_path is set
  file,       \* persons whose thumbnail is in the storage backend
  row,        \* person_embeddings by id
  count,      \* how many of them exist
  task,       \* what each request has in hand
  sent,       \* faiss_dirty, all messages it ever had
  low,        \* how many of them are trimmed
  consumer,   \* the replaying task: "running", "dead" (it raised), or
              \* "down" with its process
  lastId,     \* its cursor, in memory
  index,      \* the vectors the index holds under each id
  owner,      \* _emb_to_person
  lost,       \* history: ids whose removal this process will never read
  stranded    \* history: persons whose purge failed to delete the file

database == <<person, keyed, row, count>>
stream == <<sent, low>>
process == <<consumer, lastId, index, owner, lost>>
enrolmentVars == <<database, file, task, stream, process, stranded>>

Stage == {"idle", "checked", "stored", "erased", "unlinked"}
Idle == [at |-> "idle", who |-> Nobody, face |-> Blank, embs |-> {}]
Message == [kind : {"add", "remove"}, who : Person, embs : SUBSET Emb]

EnrolmentTypeOK ==
  /\ person \in [Person -> {"none", "active", "purged"}]
  /\ keyed \subseteq Person /\ file \subseteq Person /\ stranded \subseteq Person
  /\ row \in [Emb -> [of : Person \cup {Nobody}, face : Face \cup {Blank}]]
  /\ count \in 0..MaxRows
  /\ task \in [Request -> [at : Stage, who : Person \cup {Nobody},
                           face : Face \cup {Blank}, embs : SUBSET Emb]]
  /\ \A r \in Request : task[r].at # "idle" => task[r].who \in Person
  /\ sent \in Seq(Message) /\ low \in 0..Len(sent) /\ lastId \in 0..Len(sent)
  /\ consumer \in {"running", "dead", "down"}
  /\ index \in [Emb -> Seq(Face \cup {Blank})]
  /\ owner \in [Emb -> Person \cup {Nobody}]
  /\ lost \subseteq Emb

EnrolmentInit ==
  /\ person = [p \in Person |-> "none"] /\ keyed = {} /\ file = {}
  /\ row = [e \in Emb |-> NoRow] /\ count = 0
  /\ task = [r \in Request |-> Idle]
  /\ sent = <<>> /\ low = 0
  /\ consumer = "down" /\ lastId = 0
  /\ index = [e \in Emb |-> <<>>] /\ owner = [e \in Emb |-> Nobody]
  /\ lost = {} /\ stranded = {}
-----------------------------------------------------------------------------
(***************************************************************************)
(* The API                                                                 *)
(***************************************************************************)

CreatePerson(p) ==
  /\ person[p] = "none"
  /\ person' = [person EXCEPT ![p] = "active"]
  /\ UNCHANGED <<keyed, row, count, file, task, stream, process, stranded>>

\* write_thumbnail: a file under a fresh key, and the row that names it.
WriteThumbnail(p) ==
  /\ p \in Pictured /\ person[p] = "active" /\ p \notin file
  /\ file' = file \cup {p} /\ keyed' = keyed \cup {p}
  /\ UNCHANGED <<person, row, count, task, stream, process, stranded>>

NearDuplicate(p, f) == \E e \in 1..count : row[e] = [of |-> p, face |-> f]

\* The instance is bounded: a request begins if its message will have a place.
Room ==
  Len(sent) + Cardinality({r \in Request : task[r].at # "idle"}) < MaxMessages

\* add_embedding up to the INSERT: the person exists, in whatever state, and
\* none of its embeddings looks like the new one.
CheckEmbedding(r, p, f) ==
  /\ task[r].at = "idle" /\ Room
  /\ person[p] # "none" /\ ~NearDuplicate(p, f)
  /\ task' = [task EXCEPT ![r] = [Idle EXCEPT !.at = "checked", !.who = p, !.face = f]]
  /\ UNCHANGED <<database, file, stream, process, stranded>>

InsertEmbedding(r) ==
  /\ task[r].at = "checked" /\ count < MaxRows
  /\ count' = count + 1
  /\ row' = [row EXCEPT ![count + 1] = [of |-> task[r].who, face |-> task[r].face]]
  /\ task' = [task EXCEPT ![r].at = "stored", ![r].embs = {count + 1}]
  /\ UNCHANGED <<person, keyed, file, stream, process, stranded>>

RowsOf(p) == {e \in Emb : row[e].of = p}

\* purge_person up to its commit: the person's row is locked FOR UPDATE, which
\* makes an INSERT that refers to it wait, so nothing comes in between.
PurgeCommit(r, p) ==
  /\ task[r].at = "idle" /\ Room
  /\ person[p] # "none"
  /\ person' = [person EXCEPT ![p] = "purged"]
  /\ row' = [e \in Emb |-> IF e \in RowsOf(p) THEN [row[e] EXCEPT !.face = Blank]
                                              ELSE row[e]]
  /\ keyed' = keyed \ {p}
  /\ task' = [task EXCEPT ![r] = [at |-> IF p \in keyed THEN "erased" ELSE "unlinked",
                                  who |-> p, face |-> Blank, embs |-> RowsOf(p)]]
  /\ UNCHANGED <<count, file, stream, process, stranded>>

\* Either backend goes on when there is nothing to delete; the MinIO one also when
\* the service refuses to delete it, and the file stays.
DeleteFiles(r) ==
  /\ task[r].at = "erased"
  /\ \/ file' = file \ {task[r].who} /\ UNCHANGED stranded
     \/ UNCHANGED file /\ stranded' = stranded \cup {task[r].who}
  /\ task' = [task EXCEPT ![r].at = "unlinked"]
  /\ UNCHANGED <<database, stream, process>>

\* XADD, which may trim the stream down to MaxLen messages, but need not.
Publish(m) ==
  /\ sent' = Append(sent, m)
  /\ low' \in {low} \cup {n \in low..Len(sent) : Len(sent) + 1 - n >= MaxLen}

PublishAdd(r) ==
  /\ task[r].at = "stored"
  /\ Publish([kind |-> "add", who |-> task[r].who, embs |-> task[r].embs])
  /\ task' = [task EXCEPT ![r] = Idle]
  /\ UNCHANGED <<database, file, process, stranded>>

PublishRemove(r) ==
  /\ task[r].at = "unlinked"
  /\ Publish([kind |-> "remove", who |-> task[r].who, embs |-> task[r].embs])
  /\ task' = [task EXCEPT ![r] = Idle]
  /\ UNCHANGED <<database, file, process, stranded>>

\* A statement, the storage backend or Redis raises, or the API dies: what is
\* committed stays, the rest of the request never happens.
RequestFails(r) ==
  /\ task[r].at # "idle"
  /\ task' = [task EXCEPT ![r] = Idle]
  /\ lost' = IF task[r].at \in {"erased", "unlinked"} /\ consumer # "down"
             THEN lost \cup task[r].embs ELSE lost
  /\ stranded' = IF task[r].at = "erased" THEN stranded \cup {task[r].who} ELSE stranded
  /\ UNCHANGED <<database, file, stream, consumer, lastId, index, owner>>
-----------------------------------------------------------------------------
(***************************************************************************)
(* The index and the task that keeps it                                    *)
(***************************************************************************)

\* FaissIndex.add: add_with_ids does not replace what is under the id.
IndexAdd(e, p, f) ==
  /\ index' = [index EXCEPT ![e] = Append(@, f)]
  /\ owner' = [owner EXCEPT ![e] = p]

\* FaissIndex.remove: every vector under the ids goes.
IndexRemove(embs) ==
  /\ index' = [e \in Emb |-> IF e \in embs THEN <<>> ELSE index[e]]
  /\ owner' = [e \in Emb |-> IF e \in embs THEN Nobody ELSE owner[e]]

\* FaissIndex.rebuild, which nothing in vms calls: what the index should hold.
Rebuilt ==
  [e \in Emb |-> IF row[e].of \in Person /\ person[row[e].of] = "active"
                 THEN <<row[e].face>> ELSE <<>>]

\* Mutant of ConsumerStart: a task that died is started again over the index it
\* has left.
ConsumerRestarts ==
  /\ consumer # "running" /\ consumer' = "running" /\ lastId' = 0
  /\ UNCHANGED <<database, file, task, stream, index, owner, lost, stranded>>

\* The process starts the task with an empty index; it reads the stream from
\* its oldest message.
ConsumerStart ==
  /\ consumer = "down" /\ consumer' = "running"
  /\ UNCHANGED <<database, file, task, stream, lastId, index, owner, lost, stranded>>

\* The XREAD raises: the task ends silently, the process goes on without it.
ConsumerDies ==
  /\ consumer = "running" /\ consumer' = "dead"
  /\ UNCHANGED <<database, file, task, stream, lastId, index, owner, lost, stranded>>

\* Everything but the database, the storage and the stream is memory.
ProcessDies ==
  /\ consumer # "down" /\ consumer' = "down" /\ lastId' = 0 /\ lost' = {}
  /\ index' = [e \in Emb |-> <<>>] /\ owner' = [e \in Emb |-> Nobody]
  /\ UNCHANGED <<database, file, task, stream, stranded>>

NextId == (IF lastId < low THEN low ELSE lastId) + 1

\* The removals XREAD skips, because they were trimmed before they were read.
Skipped == UNION {sent[k].embs : k \in {j \in lastId + 1 .. NextId - 1 :
                                          sent[j].kind = "remove"}}

Reads(kind) ==
  /\ consumer = "running" /\ NextId <= Len(sent) /\ sent[NextId].kind = kind
  /\ lastId' = NextId /\ lost' = lost \cup Skipped
  /\ UNCHANGED <<database, file, task, stream, consumer, stranded>>

\* faiss_apply_add reads the vector from the table, as it is by now.  (When it
\* raises, last_id stays and the message is read again.)
ApplyAdd ==
  /\ Reads("add")
  /\ \E e \in sent[NextId].embs : IndexAdd(e, sent[NextId].who, row[e].face)

\* Mutant of ApplyRemove: the ids are looked up under another key, and none are
\* found.
ApplyRemoveFindsNone ==
  /\ Reads("remove")
  /\ IndexRemove({})

ApplyRemove ==
  /\ Reads("remove")
  /\ IndexRemove(sent[NextId].embs)

Consume == ApplyAdd \/ ApplyRemove

\* The two best vectors for a face, and the margin between them.
Copies(f) == {c \in Emb \X (1..(MaxMessages + 1)) :
                /\ c[2] \in DOMAIN index[c[1]] /\ index[c[1]][c[2]] = f
                /\ owner[c[1]] # Nobody}

\* ReIdService.identify: a second vector as similar as the first leaves no
\* margin, even if it is the same person's.
Identify(f) ==
  IF \E c \in Copies(f) : Copies(f) = {c}
  THEN owner[(CHOOSE c \in Copies(f) : TRUE)[1]]
  ELSE Nobody
-----------------------------------------------------------------------------
RequestStep(r) ==
  \/ \E p \in Person : (\E f \in Face : CheckEmbedding(r, p, f)) \/ PurgeCommit(r, p)
  \/ InsertEmbedding(r) \/ DeleteFiles(r)
  \/ PublishAdd(r) \/ PublishRemove(r) \/ RequestFails(r)

EnrolmentNext ==
  \/ \E p \in Person : CreatePerson(p) \/ WriteThumbnail(p)
  \/ \E r \in Request : RequestStep(r)
  \/ Consume \/ ConsumerStart \/ ConsumerDies \/ ProcessDies

EnrolmentSpec == EnrolmentInit /\ [][EnrolmentNext]_enrolmentVars

\* The event loop runs the task, and the database does not fail it for ever.
EnrolmentFairness == WF_enrolmentVars(Consume)
-----------------------------------------------------------------------------
(***************************************************************************)
(* Properties                                                              *)
(***************************************************************************)

\* The removal of e is still to come: a purge has it in hand, it is on the
\* stream unread, or it never will be read.
RemovalPending(e) ==
  \/ \E r \in Request : task[r].at \in {"erased", "unlinked"} /\ e \in task[r].embs
  \/ \E k \in lastId + 1 .. Len(sent) : sent[k].kind = "remove" /\ e \in sent[k].embs
  \/ e \in lost

\* A face is attributed to a person only by an embedding the person has now, or
\* had until a purge whose removal has not arrived: whatever the order of
\* additions and removals on the stream, and however often it is replayed.
NeverAnswersErased ==
  \A f \in Face : Identify(f) # Nobody =>
    \E e \in Emb : /\ row[e].of = Identify(f)
                   /\ row[e].face = f \/ RemovalPending(e)

\* An addition that was read is in the index once, under its person, as long
\* as the row has its face: replays do not double it, removals of others and
\* trimming do not take it.
ReadIsIndexed ==
  \A k \in low + 1 .. lastId : sent[k].kind = "add" =>
    \A e \in sent[k].embs : row[e].face # Blank =>
      index[e] = <<row[e].face>> /\ owner[e] = row[e].of

\* A file no row names any more is one a purge is about to delete, or failed to
\* delete: nothing else loses track of a thumbnail.
FilesAccounted ==
  \A p \in file :
    \/ p \in keyed \/ p \in stranded
    \/ \E r \in Request : task[r].at = "erased" /\ task[r].who = p

\* What purge_person, delete_embedding and the replayed stream leave behind: no
\* answer by a face that is gone, no file nobody knows of.
PurgeLeavesNothing == EnrolmentTypeOK /\ NeverAnswersErased /\ FilesAccounted

\* A task that stays up catches up with the stream again and again, whatever
\* messages are on it.
CatchesUp == <>[](consumer = "running") => []<>(lastId = Len(sent))

\* README.md:808, "DELETE /api/persons/{id} blanks embeddings and scrubs
\* thumbnails - irreversible": a purged person has no face in the database.
ErasureHolds ==
  \A e \in Emb : row[e].of \in Person /\ person[row[e].of] = "purged" => row[e].face = Blank

\* writer/db_writer.py:163, "replay missed events on every startup, ensuring the
\* in-memory index converges with DB state": with the stream read to its end and
\* no request under way, the index is what rebuild() would load.
Converged ==
  consumer = "running" /\ lastId = Len(sent) /\ (\A r \in Request : task[r].at = "idle")
    => index = Rebuilt
=============================================================================
