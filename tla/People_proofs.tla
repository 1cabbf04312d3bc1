--------------------------- MODULE People_proofs ----------------------------
(***************************************************************************)
(* Who the persons are, to the face index (Enrolment) and to the registry  *)
(* of tracklets (IdentityEngine), for any persons, faces, requests,        *)
(* messages, cameras and badges, and whatever vectors are similar to       *)
(* whatever; and the rules of src/vms/identity on any crops and any zones. *)
(***************************************************************************)
EXTENDS Enrolment, IdentityEngine, GalleryAndZones,
        FiniteSetTheorems, SequenceTheorems, TLAPS

-----------------------------------------------------------------------------
(***************************************************************************)
(* Enrolment and purge: whatever fails on the way, the index never answers *)
(* with a face that no row has, but for removals it has yet to read; no    *)
(* file is lost track of; and what it has read is in it once.              *)
(***************************************************************************)

RowType == [of : Person \cup {Nobody}, face : Face \cup {Blank}]
TaskType == [at : Stage, who : Person \cup {Nobody}, face : Face \cup {Blank}, embs : SUBSET Emb]

Purging == {"erased", "unlinked"}

\* Rows are used in the order of their ids.
FreshRows == \A e \in Emb : e > count => row[e] = NoRow

\* What a request has in hand, and what it has announced, are rows of the person
\* it is about; those of a purge are blank, and stay so.
HandsInv ==
  \A r \in Request :
    /\ task[r].at = "stored" =>
         \E e \in 1..count : task[r].embs = {e} /\ row[e].of = task[r].who
    /\ task[r].at \in Purging =>
         \A e \in task[r].embs : e \in 1..count /\ row[e].face = Blank

StreamInv ==
  \A k \in 1..Len(sent) :
    /\ sent[k].kind = "add" =>
         \E e \in 1..count : sent[k].embs = {e} /\ row[e].of = sent[k].who
    /\ sent[k].kind = "remove" =>
         \A e \in sent[k].embs : e \in 1..count /\ row[e].face = Blank

\* An embedding is announced once.
AddsOnce ==
  /\ \A j, k \in 1..Len(sent) :
       sent[j].kind = "add" /\ sent[k].kind = "add" /\ sent[j].embs = sent[k].embs => j = k
  /\ \A r \in Request, k \in 1..Len(sent) :
       task[r].at = "stored" /\ sent[k].kind = "add" => task[r].embs # sent[k].embs
  /\ \A r, q \in Request :
       task[r].at = "stored" /\ task[q].at = "stored" /\ task[r].embs = task[q].embs => r = q

StoreInv == FilesAccounted /\ FreshRows /\ HandsInv /\ StreamInv /\ AddsOnce

\* What the index holds under an id was read from the stream by this process, and
\* is the row's face, or a face whose removal is still to come.
IndexInv ==
  \A e \in Emb :
    /\ owner[e] # Nobody => owner[e] = row[e].of
    /\ \A i \in DOMAIN index[e] :
         index[e][i] \in Face => index[e][i] = row[e].face \/ RemovalPending(e)
    /\ index[e] # <<>> => \E k \in 1..lastId : sent[k].kind = "add" /\ sent[k].embs = {e}

DownInv ==
  consumer = "down" => lastId = 0 /\ lost = {} /\ \A e \in Emb : index[e] = <<>>

EnrolInv == EnrolmentTypeOK /\ StoreInv /\ IndexInv /\ DownInv /\ ReadIsIndexed

LEMMA EnrolTypes ==
  ASSUME EnrolInv
  PROVE  /\ row \in [Emb -> RowType] /\ count \in Nat /\ count <= MaxRows /\ MaxRows \in Nat
         /\ task \in [Request -> TaskType]
         /\ \A r \in Request : task[r].at # "idle" => task[r].who \in Person
         /\ sent \in Seq(Message) /\ Len(sent) \in Nat
         /\ \A k \in 1..Len(sent) : sent[k] \in Message
         /\ low \in Nat /\ low <= Len(sent) /\ lastId \in Nat /\ lastId <= Len(sent)
         /\ index \in [Emb -> Seq(Face \cup {Blank})]
         /\ owner \in [Emb -> Person \cup {Nobody}]
         /\ Nobody \notin Person /\ Blank \notin Face
<1>1. sent \in Seq(Message) /\ Len(sent) \in Nat
  BY LenProperties DEF EnrolInv, EnrolmentTypeOK
<1>2. \A k \in 1..Len(sent) : sent[k] \in Message
  BY <1>1, ElementOfSeq
<1> QED
  BY <1>1, <1>2, EnrolmentAssumption DEF EnrolInv, EnrolmentTypeOK, RowType, TaskType

LEMMA InitEnrolInv == EnrolmentInit => EnrolInv
<1> SUFFICES ASSUME EnrolmentInit
             PROVE  EnrolInv
  OBVIOUS
<1> USE EnrolmentAssumption
<1>1. sent \in Seq(Message) /\ Len(sent) = 0
  BY EmptySeq DEF EnrolmentInit
<1>2. /\ index \in [Emb -> Seq(Face \cup {Blank})] /\ \A e \in Emb : index[e] = <<>>
      /\ owner \in [Emb -> Person \cup {Nobody}] /\ \A e \in Emb : owner[e] = Nobody
  BY EmptySeq DEF EnrolmentInit
<1>3. row \in [Emb -> RowType] /\ \A e \in Emb : row[e] = NoRow
  BY DEF EnrolmentInit, NoRow, RowType
<1>4. task \in [Request -> TaskType] /\ \A r \in Request : task[r].at = "idle"
  BY DEF EnrolmentInit, Idle, TaskType, Stage
<1>5. person \in [Person -> {"none", "active", "purged"}]
  BY DEF EnrolmentInit
<1>6. /\ keyed = {} /\ file = {} /\ stranded = {} /\ lost = {} /\ consumer = "down"
      /\ count = 0 /\ low = 0 /\ lastId = 0
  BY DEF EnrolmentInit
<1>7. EnrolmentTypeOK
  <2>1. 0 \in 0..MaxRows /\ 0 \in 0..Len(sent)
    BY <1>1
  <2> QED
    BY <1>1, <1>2, <1>3, <1>4, <1>5, <1>6, <2>1 DEF EnrolmentTypeOK, RowType, TaskType
<1>8. StoreInv
  BY <1>1, <1>3, <1>4, <1>6
     DEF StoreInv, FilesAccounted, FreshRows, HandsInv, StreamInv, AddsOnce, Purging
<1>9. IndexInv /\ DownInv /\ ReadIsIndexed
  BY <1>1, <1>2, <1>6, EmptySeq DEF IndexInv, DownInv, ReadIsIndexed
<1> QED
  BY <1>7, <1>8, <1>9 DEF EnrolInv
-----------------------------------------------------------------------------
(***************************************************************************)
(* The API's side: while the index rests, the stream grows, rows keep      *)
(* their person, faces go only when their removal is pending, and what is  *)
(* pending stays so.                                                       *)
(***************************************************************************)
StreamGrows ==
  /\ Len(sent) <= Len(sent') /\ Len(sent') \in Nat /\ low <= low' /\ low' \in Nat
  /\ \A k \in 1..Len(sent) : sent'[k] = sent[k]

RowsStand ==
  \A e \in Emb :
    /\ row[e].of # Nobody => row'[e].of = row[e].of
    /\ row[e].face # Blank =>
         row'[e].face = row[e].face \/ (row'[e].face = Blank /\ RemovalPending(e)')
    /\ e <= count /\ row[e].face = Blank => row'[e].face = Blank

PendingStays == \A e \in Emb : RemovalPending(e) => RemovalPending(e)' \/ consumer = "down"

LEMMA Narrower ==
  ASSUME NEW a \in Nat, NEW b \in Nat, NEW c \in Nat, NEW n \in Nat, a <= b, c <= n,
         NEW k \in b + 1 .. c
  PROVE  k \in a + 1 .. c /\ k \in 1..n
OBVIOUS

LEMMA IndexRests ==
  ASSUME EnrolInv, StreamGrows, RowsStand, PendingStays,
         UNCHANGED <<consumer, lastId, index, owner>>,
         consumer = "down" => lost' = lost
  PROVE  IndexInv' /\ DownInv' /\ ReadIsIndexed'
<1>1. IndexInv /\ DownInv /\ ReadIsIndexed /\ StreamInv
  BY DEF EnrolInv, StoreInv
<1>2. DownInv'
  BY <1>1 DEF DownInv
<1>3. IndexInv'
  <2> SUFFICES ASSUME NEW e \in Emb
               PROVE  /\ owner[e] # Nobody => owner[e] = row'[e].of
                      /\ \A i \in DOMAIN index[e] :
                           index[e][i] \in Face =>
                             index[e][i] = row'[e].face \/ RemovalPending(e)'
                      /\ index[e] # <<>> =>
                           \E k \in 1..lastId : sent'[k].kind = "add" /\ sent'[k].embs = {e}
    BY DEF IndexInv
  <2>1. owner[e] # Nobody => owner[e] = row'[e].of
    BY <1>1 DEF IndexInv, RowsStand
  <2>2. ASSUME NEW i \in DOMAIN index[e], index[e][i] \in Face
        PROVE  index[e][i] = row'[e].face \/ RemovalPending(e)'
    <3>1. consumer # "down"
      BY <1>1, <2>2 DEF DownInv
    <3>2. index[e][i] = row[e].face \/ RemovalPending(e)
      BY <1>1, <2>2 DEF IndexInv
    <3>3. index[e][i] # Blank
      BY <2>2, EnrolTypes
    <3> QED
      BY <3>1, <3>2, <3>3 DEF RowsStand, PendingStays
  <2>3. index[e] # <<>> =>
          \E k \in 1..lastId : sent'[k].kind = "add" /\ sent'[k].embs = {e}
    <3>1. \A k \in 1..lastId : k \in 1..Len(sent)
      BY EnrolTypes
    <3> QED
      BY <1>1, <3>1 DEF IndexInv, StreamGrows
  <2> QED
    BY <2>1, <2>2, <2>3
<1>4. ReadIsIndexed'
  <2> SUFFICES ASSUME NEW k \in low' + 1 .. lastId, sent'[k].kind = "add",
                      NEW e \in sent'[k].embs, row'[e].face # Blank
               PROVE  index[e] = <<row'[e].face>> /\ owner[e] = row'[e].of
    BY DEF ReadIsIndexed
  <2>1. k \in low + 1 .. lastId /\ k \in 1..Len(sent) /\ sent'[k] = sent[k]
    <3>1. /\ low \in Nat /\ low' \in Nat /\ lastId \in Nat /\ Len(sent) \in Nat
          /\ low <= low' /\ lastId <= Len(sent)
      BY EnrolTypes DEF StreamGrows
    <3>2. k \in low + 1 .. lastId /\ k \in 1..Len(sent)
      BY <3>1, Narrower
    <3> QED
      BY <3>2 DEF StreamGrows
  <2>2. e \in 1..count /\ e \in Emb /\ row[e].of = sent[k].who /\ sent[k].who \in Person
    <3>1. e \in 1..count /\ row[e].of = sent[k].who
      BY <1>1, <2>1 DEF StreamInv
    <3>2. sent[k] \in Message
      BY <2>1, EnrolTypes
    <3> QED
      BY <3>1, <3>2, EnrolTypes DEF Message, Emb
  <2>3. row[e].face # Blank /\ row[e].of # Nobody
    BY <2>2, EnrolTypes DEF RowsStand
  <2>4. index[e] = <<row[e].face>> /\ owner[e] = row[e].of
    BY <1>1, <2>1, <2>3 DEF ReadIsIndexed
  <2>5. row'[e].face = row[e].face /\ row'[e].of = row[e].of
    BY <2>2, <2>3 DEF RowsStand
  <2> QED
    BY <2>4, <2>5
<1> QED
  BY <1>2, <1>3, <1>4

\* A purge in hand stays in hand, reaches the stream, or is written off.
LEMMA PendingKept ==
  ASSUME EnrolInv, StreamGrows, lastId' = lastId, lost \subseteq lost',
         \A r \in Request : task[r].at \in Purging =>
           \/ task'[r].at \in Purging /\ task'[r].embs = task[r].embs
           \/ task[r].embs \subseteq lost'
           \/ \E k \in lastId + 1 .. Len(sent') :
                sent'[k].kind = "remove" /\ sent'[k].embs = task[r].embs
           \/ consumer = "down"
  PROVE  PendingStays
<1> SUFFICES ASSUME NEW e \in Emb, RemovalPending(e)
             PROVE  RemovalPending(e)' \/ consumer = "down"
  BY DEF PendingStays
<1>1. CASE \E r \in Request : task[r].at \in {"erased", "unlinked"} /\ e \in task[r].embs
  BY <1>1 DEF RemovalPending, Purging
<1>2. CASE \E k \in lastId + 1 .. Len(sent) : sent[k].kind = "remove" /\ e \in sent[k].embs
  <2>1. PICK k \in lastId + 1 .. Len(sent) : sent[k].kind = "remove" /\ e \in sent[k].embs
    BY <1>2
  <2>2. k \in lastId + 1 .. Len(sent') /\ sent'[k] = sent[k]
    BY <2>1, EnrolTypes DEF StreamGrows
  <2> QED
    BY <2>1, <2>2 DEF RemovalPending
<1>3. CASE e \in lost
  BY <1>3 DEF RemovalPending
<1> QED
  BY <1>1, <1>2, <1>3 DEF RemovalPending
-----------------------------------------------------------------------------
\* A person is created, or gets a thumbnail: nothing but these two changes.
LEMMA PersonStep ==
  ASSUME EnrolInv, NEW p \in Person, CreatePerson(p) \/ WriteThumbnail(p)
  PROVE  EnrolInv'
<1>1. /\ UNCHANGED <<row, count, task, sent, low, consumer, lastId, index, owner, lost, stranded>>
      /\ person' \in [Person -> {"none", "active", "purged"}]
      /\ keyed' \subseteq Person /\ file' \subseteq Person
      /\ \/ UNCHANGED <<file, keyed>>
         \/ file' = file \cup {p} /\ keyed' = keyed \cup {p}
  BY DEF CreatePerson, WriteThumbnail, stream, process, EnrolInv, EnrolmentTypeOK
<1>2. EnrolmentTypeOK'
  BY <1>1 DEF EnrolInv, EnrolmentTypeOK
<1>3. StoreInv'
  BY <1>1 DEF EnrolInv, StoreInv, FilesAccounted, FreshRows, HandsInv, StreamInv, AddsOnce
<1>4. IndexInv' /\ DownInv' /\ ReadIsIndexed'
  BY <1>1 DEF EnrolInv, IndexInv, DownInv, ReadIsIndexed, RemovalPending
<1> QED
  BY <1>2, <1>3, <1>4 DEF EnrolInv

LEMMA CheckStep ==
  ASSUME EnrolInv, NEW r \in Request, NEW p \in Person, NEW f \in Face, CheckEmbedding(r, p, f)
  PROVE  EnrolInv'
<1>1. /\ UNCHANGED <<person, keyed, row, count, file, sent, low, consumer, lastId, index, owner,
                     lost, stranded>>
      /\ task[r].at = "idle"
      /\ task' = [task EXCEPT ![r] = [Idle EXCEPT !.at = "checked", !.who = p, !.face = f]]
  BY DEF CheckEmbedding, database, stream, process
<1>2. /\ task' \in [Request -> TaskType] /\ task'[r].at = "checked" /\ task'[r].who = p
      /\ \A q \in Request \ {r} : task'[q] = task[q]
  <2> DEFINE new == [Idle EXCEPT !.at = "checked", !.who = p, !.face = f]
  <2>1. Idle \in TaskType
    BY DEF Idle, TaskType, Stage
  <2>2. new \in TaskType /\ new.at = "checked" /\ new.who = p
    BY <2>1 DEF TaskType, Stage
  <2> HIDE DEF new
  <2>3. task' = [task EXCEPT ![r] = new]
    BY <1>1 DEF new
  <2> QED
    BY <2>2, <2>3, EnrolTypes
<1>3. EnrolmentTypeOK'
  BY <1>1, <1>2 DEF EnrolInv, EnrolmentTypeOK, TaskType
<1>4. StoreInv'
  BY <1>1, <1>2
     DEF EnrolInv, StoreInv, FilesAccounted, FreshRows, HandsInv, StreamInv, AddsOnce, Purging
<1>5. StreamGrows /\ RowsStand
  BY <1>1, EnrolTypes DEF StreamGrows, RowsStand
<1>6. PendingStays
  BY <1>1, <1>2, <1>5, PendingKept DEF Purging
<1> QED
  BY <1>1, <1>3, <1>4, <1>5, <1>6, IndexRests DEF EnrolInv

LEMMA InsertStep ==
  ASSUME EnrolInv, NEW r \in Request, InsertEmbedding(r)
  PROVE  EnrolInv'
<1> DEFINE new == count + 1
<1>1. /\ UNCHANGED <<person, keyed, file, sent, low, consumer, lastId, index, owner, lost, stranded>>
      /\ task[r].at = "checked" /\ count < MaxRows /\ count' = new
      /\ row' = [row EXCEPT ![new] = [of |-> task[r].who, face |-> task[r].face]]
      /\ task' = [task EXCEPT ![r].at = "stored", ![r].embs = {new}]
  BY DEF InsertEmbedding, stream, process
<1>2. new \in Emb /\ new \in 1..count' /\ count \in Nat /\ new > count /\ row[new] = NoRow
  BY <1>1, EnrolTypes DEF Emb, EnrolInv, StoreInv, FreshRows
<1>3. /\ task' \in [Request -> TaskType]
      /\ task'[r].at = "stored" /\ task'[r].embs = {new} /\ task'[r].who = task[r].who
      /\ \A q \in Request \ {r} : task'[q] = task[q]
  <2>1. task[r] \in TaskType
    BY EnrolTypes
  <2>2. task' = [task EXCEPT ![r] = [task[r] EXCEPT !.at = "stored", !.embs = {new}]]
    BY <1>1, EnrolTypes
  <2>3. [task[r] EXCEPT !.at = "stored", !.embs = {new}] \in TaskType
    BY <1>2, <2>1 DEF TaskType, Stage
  <2>4. task'[r] = [task[r] EXCEPT !.at = "stored", !.embs = {new}]
    BY <2>2, EnrolTypes
  <2>5. task'[r].at = "stored" /\ task'[r].embs = {new} /\ task'[r].who = task[r].who
    BY <2>1, <2>4 DEF TaskType
  <2> QED
    BY <2>2, <2>3, <2>5, EnrolTypes
<1>4. /\ row' \in [Emb -> RowType] /\ row'[new].of = task[r].who
      /\ \A e \in Emb : e # new => row'[e] = row[e]
  <2>1. [of |-> task[r].who, face |-> task[r].face] \in RowType
    BY EnrolTypes DEF TaskType, RowType
  <2> QED
    BY <1>1, <1>2, <2>1, EnrolTypes
<1> HIDE DEF new
<1>5. \A e \in 1..count : e \in Emb /\ e \in 1..count' /\ row'[e] = row[e] /\ e # new
  BY <1>1, <1>2, <1>4, EnrolTypes DEF Emb, new
<1>6. EnrolmentTypeOK'
  <2>1. count' \in 0..MaxRows
    BY <1>1, <1>2, EnrolTypes DEF new
  <2>2. \A q \in Request : task'[q].at # "idle" => task'[q].who \in Person
    BY <1>1, <1>3, EnrolTypes
  <2> QED
    BY <1>1, <1>3, <1>4, <2>1, <2>2 DEF EnrolInv, EnrolmentTypeOK, TaskType, RowType
<1>7. FilesAccounted'
  BY <1>1, <1>3 DEF EnrolInv, StoreInv, FilesAccounted
<1>8. FreshRows'
  BY <1>1, <1>2, <1>4 DEF EnrolInv, StoreInv, FreshRows, Emb, new
<1>9. HandsInv'
  <2> SUFFICES ASSUME NEW q \in Request
               PROVE  /\ task'[q].at = "stored" =>
                           \E e \in 1..count' : task'[q].embs = {e} /\ row'[e].of = task'[q].who
                      /\ task'[q].at \in Purging =>
                           \A e \in task'[q].embs : e \in 1..count' /\ row'[e].face = Blank
    BY DEF HandsInv
  <2>1. CASE q = r
    BY <1>2, <1>3, <1>4, <2>1 DEF Purging
  <2>2. CASE q # r
    BY <1>3, <1>5, <2>2 DEF EnrolInv, StoreInv, HandsInv
  <2> QED
    BY <2>1, <2>2
<1>10. StreamInv'
  <2> SUFFICES ASSUME NEW k \in 1..Len(sent)
               PROVE  /\ sent[k].kind = "add" =>
                           \E e \in 1..count' : sent[k].embs = {e} /\ row'[e].of = sent[k].who
                      /\ sent[k].kind = "remove" =>
                           \A e \in sent[k].embs : e \in 1..count' /\ row'[e].face = Blank
    BY <1>1 DEF StreamInv
  <2> QED
    BY <1>5 DEF EnrolInv, StoreInv, StreamInv
<1>11. AddsOnce'
  <2>1. \A k \in 1..Len(sent) : sent[k].kind = "add" => sent[k].embs # {new}
    BY <1>5 DEF EnrolInv, StoreInv, StreamInv
  <2>2. \A q \in Request : task[q].at = "stored" => task[q].embs # {new}
    BY <1>5 DEF EnrolInv, StoreInv, HandsInv
  <2> QED
    BY <1>1, <1>3, <2>1, <2>2 DEF EnrolInv, StoreInv, AddsOnce
<1>12. StreamGrows /\ RowsStand
  <2>1. row[new].of = Nobody /\ row[new].face = Blank /\ ~(new <= count)
    BY <1>2 DEF NoRow
  <2> QED
    BY <1>1, <1>4, <2>1, EnrolTypes DEF StreamGrows, RowsStand
<1>13. PendingStays
  BY <1>1, <1>3, <1>12, PendingKept DEF Purging
<1> QED
  BY <1>1, <1>6, <1>7, <1>8, <1>9, <1>10, <1>11, <1>12, <1>13, IndexRests DEF EnrolInv, StoreInv

LEMMA PurgeStep ==
  ASSUME EnrolInv, NEW r \in Request, NEW p \in Person, PurgeCommit(r, p)
  PROVE  EnrolInv'
<1> DEFINE stage == IF p \in keyed THEN "erased" ELSE "unlinked"
<1>1. /\ UNCHANGED <<count, file, sent, low, consumer, lastId, index, owner, lost, stranded>>
      /\ task[r].at = "idle" /\ person' = [person EXCEPT ![p] = "purged"]
      /\ row' = [e \in Emb |-> IF e \in RowsOf(p) THEN [row[e] EXCEPT !.face = Blank] ELSE row[e]]
      /\ keyed' = keyed \ {p}
      /\ task' = [task EXCEPT ![r] = [at |-> stage, who |-> p, face |-> Blank, embs |-> RowsOf(p)]]
  BY DEF PurgeCommit, stream, process
<1>2. /\ task' \in [Request -> TaskType]
      /\ task'[r].at \in Purging /\ task'[r].embs = RowsOf(p) /\ task'[r].who = p
      /\ p \in keyed => task'[r].at = "erased"
      /\ \A q \in Request \ {r} : task'[q] = task[q]
  <2>1. RowsOf(p) \subseteq Emb
    BY DEF RowsOf
  <2>2. [at |-> stage, who |-> p, face |-> Blank, embs |-> RowsOf(p)] \in TaskType
    BY <2>1 DEF TaskType, Stage
  <2> QED
    BY <1>1, <2>2, EnrolTypes DEF Purging
<1>3. /\ row' \in [Emb -> RowType]
      /\ \A e \in Emb : /\ row'[e].of = row[e].of
                        /\ e \in RowsOf(p) => row'[e].face = Blank
                        /\ e \notin RowsOf(p) => row'[e] = row[e]
  <2>1. ASSUME NEW e \in Emb
        PROVE  /\ [row[e] EXCEPT !.face = Blank] \in RowType
               /\ [row[e] EXCEPT !.face = Blank].of = row[e].of
               /\ [row[e] EXCEPT !.face = Blank].face = Blank
    <3>1. row[e] \in RowType
      BY EnrolTypes
    <3> QED
      BY <3>1 DEF RowType
  <2> QED
    BY <1>1, <2>1, EnrolTypes
<1>4. \A e \in RowsOf(p) : e \in Emb /\ e \in 1..count
  <2> SUFFICES ASSUME NEW e \in RowsOf(p)
               PROVE  e \in Emb /\ e \in 1..count
    OBVIOUS
  <2>1. e \in Emb /\ row[e].of = p
    BY DEF RowsOf
  <2>2. ~(e > count)
    BY <2>1, EnrolTypes DEF EnrolInv, StoreInv, FreshRows, NoRow
  <2> QED
    BY <2>1, <2>2, EnrolTypes DEF Emb
<1> HIDE DEF stage
<1>5. EnrolmentTypeOK'
  <2>1. person' \in [Person -> {"none", "active", "purged"}] /\ keyed' \subseteq Person
    BY <1>1 DEF EnrolInv, EnrolmentTypeOK
  <2>2. \A q \in Request : task'[q].at # "idle" => task'[q].who \in Person
    BY <1>2, EnrolTypes
  <2> QED
    BY <1>1, <1>2, <1>3, <2>1, <2>2 DEF EnrolInv, EnrolmentTypeOK, TaskType, RowType
<1>6. FilesAccounted'
  <2> SUFFICES ASSUME NEW y \in file
               PROVE  \/ y \in keyed' \/ y \in stranded
                      \/ \E q \in Request : task'[q].at = "erased" /\ task'[q].who = y
    BY <1>1 DEF FilesAccounted
  <2>1. CASE \E q \in Request : task[q].at = "erased" /\ task[q].who = y
    BY <1>1, <1>2, <2>1
  <2>2. CASE y \in keyed
    BY <1>1, <1>2, <2>2
  <2> QED
    BY <2>1, <2>2 DEF EnrolInv, StoreInv, FilesAccounted
<1>7. FreshRows'
  BY <1>1, <1>3, <1>4, EnrolTypes DEF EnrolInv, StoreInv, FreshRows
<1>8. \A e \in 1..count : e \in Emb /\ (row[e].face = Blank => row'[e].face = Blank)
  BY <1>3, EnrolTypes DEF Emb
<1>9. HandsInv'
  <2> SUFFICES ASSUME NEW q \in Request
               PROVE  /\ task'[q].at = "stored" =>
                           \E e \in 1..count : task'[q].embs = {e} /\ row'[e].of = task'[q].who
                      /\ task'[q].at \in Purging =>
                           \A e \in task'[q].embs : e \in 1..count /\ row'[e].face = Blank
    BY <1>1 DEF HandsInv
  <2>1. CASE q = r
    BY <1>2, <1>3, <1>4, <2>1 DEF Purging
  <2>2. CASE q # r
    BY <1>2, <1>3, <1>8, <2>2 DEF EnrolInv, StoreInv, HandsInv
  <2> QED
    BY <2>1, <2>2
<1>10. StreamInv'
  <2> SUFFICES ASSUME NEW k \in 1..Len(sent)
               PROVE  /\ sent[k].kind = "add" =>
                           \E e \in 1..count : sent[k].embs = {e} /\ row'[e].of = sent[k].who
                      /\ sent[k].kind = "remove" =>
                           \A e \in sent[k].embs : e \in 1..count /\ row'[e].face = Blank
    <3>1. sent' = sent /\ count' = count
      BY <1>1
    <3> QED
      BY <3>1 DEF StreamInv
  <2> QED
    BY <1>3, <1>8 DEF EnrolInv, StoreInv, StreamInv
<1>11. AddsOnce'
  BY <1>1, <1>2 DEF EnrolInv, StoreInv, AddsOnce, Purging
<1>12. StreamGrows /\ RowsStand
  <2>1. \A e \in RowsOf(p) : RemovalPending(e)'
    BY <1>2 DEF RemovalPending, Purging
  <2> QED
    BY <1>1, <1>3, <2>1, EnrolTypes DEF StreamGrows, RowsStand
<1>13. PendingStays
  BY <1>1, <1>2, <1>12, PendingKept DEF Purging
<1> QED
  BY <1>1, <1>5, <1>6, <1>7, <1>9, <1>10, <1>11, <1>12, <1>13, IndexRests DEF EnrolInv, StoreInv

LEMMA DeleteStep ==
  ASSUME EnrolInv, NEW r \in Request, DeleteFiles(r)
  PROVE  EnrolInv'
<1>1. /\ UNCHANGED <<person, keyed, row, count, sent, low, consumer, lastId, index, owner, lost>>
      /\ task[r].at = "erased" /\ task' = [task EXCEPT ![r].at = "unlinked"]
      /\ \/ file' = file \ {task[r].who} /\ UNCHANGED stranded
         \/ UNCHANGED file /\ stranded' = stranded \cup {task[r].who}
  BY DEF DeleteFiles, database, stream, process
<1>2. /\ task' \in [Request -> TaskType] /\ task'[r].at = "unlinked"
      /\ task'[r].embs = task[r].embs /\ task'[r].who = task[r].who
      /\ \A q \in Request \ {r} : task'[q] = task[q]
  BY <1>1, EnrolTypes DEF TaskType, Stage
<1>3. EnrolmentTypeOK'
  <2>1. task[r].who \in Person
    BY <1>1, EnrolTypes
  <2>2. file' \subseteq Person /\ stranded' \subseteq Person
    BY <1>1, <2>1 DEF EnrolInv, EnrolmentTypeOK
  <2> QED
    BY <1>1, <1>2, <2>1, <2>2 DEF EnrolInv, EnrolmentTypeOK, TaskType
<1>4. FilesAccounted'
  BY <1>1, <1>2 DEF EnrolInv, StoreInv, FilesAccounted
<1>5. FreshRows' /\ StreamInv' /\ AddsOnce'
  BY <1>1, <1>2 DEF EnrolInv, StoreInv, FreshRows, StreamInv, AddsOnce
<1>6. HandsInv'
  BY <1>1, <1>2 DEF EnrolInv, StoreInv, HandsInv, Purging
<1>7. StreamGrows /\ RowsStand
  BY <1>1, EnrolTypes DEF StreamGrows, RowsStand
<1>8. PendingStays
  BY <1>1, <1>2, <1>7, PendingKept DEF Purging
<1> QED
  BY <1>1, <1>3, <1>4, <1>5, <1>6, <1>7, <1>8, IndexRests DEF EnrolInv, StoreInv

LEMMA PublishEffect ==
  ASSUME EnrolInv, NEW m \in Message, Publish(m)
  PROVE  /\ sent' \in Seq(Message) /\ Len(sent') = Len(sent) + 1 /\ sent'[Len(sent) + 1] = m
         /\ \A k \in 1..Len(sent) : sent'[k] = sent[k]
         /\ low' \in Nat /\ low <= low' /\ low' <= Len(sent)
<1>1. sent' = Append(sent, m) /\ sent \in Seq(Message)
  BY EnrolTypes DEF Publish
<1>2. low' \in low..Len(sent)
  BY EnrolTypes DEF Publish
<1> QED
  BY <1>1, <1>2, AppendProperties, EnrolTypes

LEMMA PublishStep ==
  ASSUME EnrolInv, NEW r \in Request, PublishAdd(r) \/ PublishRemove(r)
  PROVE  EnrolInv'
<1>1. PICK kind \in {"add", "remove"} :
        /\ UNCHANGED <<person, keyed, row, count, file, consumer, lastId, index, owner, lost,
                       stranded>>
        /\ task[r].at = (IF kind = "add" THEN "stored" ELSE "unlinked")
        /\ Publish([kind |-> kind, who |-> task[r].who, embs |-> task[r].embs])
        /\ task' = [task EXCEPT ![r] = Idle]
  BY DEF PublishAdd, PublishRemove, database, process
<1> DEFINE m == [kind |-> kind, who |-> task[r].who, embs |-> task[r].embs]
           new == Len(sent) + 1
<1>2. /\ m \in Message /\ task[r].who \in Person
      /\ m.kind = kind /\ m.who = task[r].who /\ m.embs = task[r].embs
  <2>1. task[r].who \in Person /\ task[r] \in TaskType
    BY <1>1, EnrolTypes
  <2> QED
    BY <2>1 DEF Message, TaskType
<1>3. /\ task' \in [Request -> TaskType] /\ task'[r].at = "idle"
      /\ \A q \in Request \ {r} : task'[q] = task[q]
  <2>1. Idle \in TaskType /\ Idle.at = "idle"
    BY DEF Idle, TaskType, Stage
  <2> QED
    BY <1>1, <2>1, EnrolTypes
<1> HIDE DEF m
<1>4. /\ sent' \in Seq(Message) /\ Len(sent') = new /\ sent'[new] = m
      /\ \A k \in 1..Len(sent) : sent'[k] = sent[k]
      /\ low' \in Nat /\ low <= low' /\ low' <= Len(sent) /\ Len(sent) \in Nat
  BY <1>1, <1>2, PublishEffect, EnrolTypes DEF m
<1>5. \A k \in 1..Len(sent') : k = new \/ k \in 1..Len(sent)
  BY <1>4
<1>6. EnrolmentTypeOK'
  <2>1. low' \in 0..Len(sent') /\ lastId \in 0..Len(sent')
    BY <1>4, EnrolTypes
  <2>2. \A q \in Request : task'[q].at # "idle" => task'[q].who \in Person
    BY <1>3, EnrolTypes
  <2> QED
    BY <1>1, <1>3, <1>4, <2>1, <2>2 DEF EnrolInv, EnrolmentTypeOK, TaskType
<1>7. FilesAccounted' /\ FreshRows' /\ HandsInv'
  BY <1>1, <1>3 DEF EnrolInv, StoreInv, FilesAccounted, FreshRows, HandsInv, Purging
<1>8. StreamInv'
  <2> SUFFICES ASSUME NEW k \in 1..Len(sent')
               PROVE  /\ sent'[k].kind = "add" =>
                           \E e \in 1..count : sent'[k].embs = {e} /\ row[e].of = sent'[k].who
                      /\ sent'[k].kind = "remove" =>
                           \A e \in sent'[k].embs : e \in 1..count /\ row[e].face = Blank
    BY <1>1 DEF StreamInv
  <2>1. CASE k \in 1..Len(sent)
    BY <1>4, <2>1 DEF EnrolInv, StoreInv, StreamInv
  <2>2. CASE k = new
    BY <1>1, <1>2, <1>4, <2>2 DEF EnrolInv, StoreInv, HandsInv, Purging
  <2> QED
    BY <1>5, <2>1, <2>2
<1>9. AddsOnce'
  <2>1. \A k \in 1..Len(sent) : m.kind = "add" /\ sent[k].kind = "add" => sent[k].embs # m.embs
    BY <1>1, <1>2 DEF EnrolInv, StoreInv, AddsOnce
  <2>2. \A q \in Request \ {r} : m.kind = "add" /\ task[q].at = "stored" => task[q].embs # m.embs
    BY <1>1, <1>2 DEF EnrolInv, StoreInv, AddsOnce
  <2>3. \A j, k \in 1..Len(sent') :
          sent'[j].kind = "add" /\ sent'[k].kind = "add" /\ sent'[j].embs = sent'[k].embs => j = k
    BY <1>4, <1>5, <2>1 DEF EnrolInv, StoreInv, AddsOnce
  <2>4. \A q \in Request, k \in 1..Len(sent') :
          task'[q].at = "stored" /\ sent'[k].kind = "add" => task'[q].embs # sent'[k].embs
    BY <1>3, <1>4, <1>5, <2>2 DEF EnrolInv, StoreInv, AddsOnce
  <2>5. \A y, q \in Request :
          task'[y].at = "stored" /\ task'[q].at = "stored" /\ task'[y].embs = task'[q].embs => y = q
    BY <1>3 DEF EnrolInv, StoreInv, AddsOnce
  <2> QED
    BY <2>3, <2>4, <2>5 DEF AddsOnce
<1>10. StreamGrows /\ RowsStand
  BY <1>1, <1>4 DEF StreamGrows, RowsStand
<1>11. PendingStays
  <2>1. task[r].at \in Purging =>
          \E k \in lastId + 1 .. Len(sent') : sent'[k].kind = "remove" /\ sent'[k].embs = task[r].embs
    <3>1. new \in lastId + 1 .. Len(sent')
      BY <1>4, EnrolTypes
    <3> QED
      BY <1>1, <1>2, <1>4, <3>1 DEF Purging
  <2> QED
    BY <1>1, <1>3, <1>10, <2>1, PendingKept
<1> QED
  BY <1>1, <1>6, <1>7, <1>8, <1>9, <1>10, <1>11, IndexRests DEF EnrolInv, StoreInv

LEMMA RequestFailsStep ==
  ASSUME EnrolInv, NEW r \in Request, RequestFails(r)
  PROVE  EnrolInv'
<1>1. /\ UNCHANGED <<person, keyed, row, count, file, sent, low, consumer, lastId, index, owner>>
      /\ task[r].at # "idle" /\ task' = [task EXCEPT ![r] = Idle]
      /\ lost' = (IF task[r].at \in Purging /\ consumer # "down" THEN lost \cup task[r].embs ELSE lost)
      /\ stranded' = (IF task[r].at = "erased" THEN stranded \cup {task[r].who} ELSE stranded)
  BY DEF RequestFails, database, stream, Purging
<1>2. /\ task' \in [Request -> TaskType] /\ task'[r].at = "idle"
      /\ \A q \in Request \ {r} : task'[q] = task[q]
  <2>1. Idle \in TaskType /\ Idle.at = "idle"
    BY DEF Idle, TaskType, Stage
  <2> QED
    BY <1>1, <2>1, EnrolTypes
<1>3. EnrolmentTypeOK'
  <2>1. task[r].who \in Person /\ task[r].embs \subseteq Emb
    BY <1>1, EnrolTypes DEF TaskType
  <2>2. lost' \subseteq Emb /\ stranded' \subseteq Person
    BY <1>1, <2>1 DEF EnrolInv, EnrolmentTypeOK
  <2>3. \A q \in Request : task'[q].at # "idle" => task'[q].who \in Person
    BY <1>2, EnrolTypes
  <2> QED
    BY <1>1, <1>2, <2>2, <2>3 DEF EnrolInv, EnrolmentTypeOK, TaskType
<1>4. FilesAccounted'
  BY <1>1, <1>2 DEF EnrolInv, StoreInv, FilesAccounted
<1>5. FreshRows' /\ HandsInv' /\ StreamInv' /\ AddsOnce'
  BY <1>1, <1>2 DEF EnrolInv, StoreInv, FreshRows, HandsInv, StreamInv, AddsOnce, Purging
<1>6. StreamGrows /\ RowsStand
  BY <1>1, EnrolTypes DEF StreamGrows, RowsStand
<1>7. PendingStays
  BY <1>1, <1>2, <1>6, PendingKept
<1> QED
  BY <1>1, <1>3, <1>4, <1>5, <1>6, <1>7, IndexRests DEF EnrolInv, StoreInv
-----------------------------------------------------------------------------
(***************************************************************************)
(* The index and its task                                                  *)
(***************************************************************************)
LEMMA StoreRests ==
  ASSUME EnrolInv, UNCHANGED <<keyed, row, count, file, task, sent, stranded>>
  PROVE  StoreInv'
BY DEF EnrolInv, StoreInv, FilesAccounted, FreshRows, HandsInv, StreamInv, AddsOnce

LEMMA TaskStarts ==
  ASSUME EnrolInv, ConsumerStart \/ ConsumerDies
  PROVE  EnrolInv'
<1>1. /\ UNCHANGED <<person, keyed, row, count, file, task, sent, low, lastId, index, owner, lost,
                     stranded>>
      /\ consumer' \in {"running", "dead"}
  BY DEF ConsumerStart, ConsumerDies, database, stream
<1>2. EnrolmentTypeOK'
  BY <1>1 DEF EnrolInv, EnrolmentTypeOK
<1>3. IndexInv' /\ DownInv' /\ ReadIsIndexed'
  BY <1>1 DEF EnrolInv, IndexInv, DownInv, ReadIsIndexed, RemovalPending
<1> QED
  BY <1>1, <1>2, <1>3, StoreRests DEF EnrolInv

LEMMA ProcessDiesStep ==
  ASSUME EnrolInv, ProcessDies
  PROVE  EnrolInv'
<1>1. /\ UNCHANGED <<person, keyed, row, count, file, task, sent, low, stranded>>
      /\ consumer' = "down" /\ lastId' = 0 /\ lost' = {}
      /\ index' = [e \in Emb |-> <<>>] /\ owner' = [e \in Emb |-> Nobody]
  BY DEF ProcessDies, database, stream
<1>2. /\ index' \in [Emb -> Seq(Face \cup {Blank})] /\ \A e \in Emb : index'[e] = <<>>
      /\ owner' \in [Emb -> Person \cup {Nobody}] /\ \A e \in Emb : owner'[e] = Nobody
  BY <1>1, EmptySeq
<1>3. EnrolmentTypeOK'
  <2>1. 0 \in 0..Len(sent)
    BY EnrolTypes
  <2> QED
    BY <1>1, <1>2, <2>1 DEF EnrolInv, EnrolmentTypeOK
<1>4. IndexInv' /\ DownInv' /\ ReadIsIndexed'
  <2>1. ReadIsIndexed'
    BY <1>1, EnrolTypes DEF ReadIsIndexed
  <2>2. IndexInv'
    <3>1. \A e \in Emb : DOMAIN index'[e] = {}
      BY <1>2
    <3> QED
      BY <1>2, <3>1 DEF IndexInv
  <2> QED
    BY <1>1, <1>2, <2>1, <2>2 DEF DownInv
<1> QED
  BY <1>1, <1>3, <1>4, StoreRests DEF EnrolInv

\* What reading the next message does, whatever it is.
LEMMA ReadEffect ==
  ASSUME EnrolInv, NEW kind \in {"add", "remove"}, Reads(kind)
  PROVE  /\ NextId \in 1..Len(sent) /\ lastId < NextId /\ low < NextId
         /\ sent[NextId].kind = kind /\ lastId' = NextId /\ consumer = "running"
         /\ \A k \in low + 1 .. NextId : k = NextId \/ k \in low + 1 .. lastId
         /\ lost \subseteq lost' /\ lost' \subseteq Emb
         /\ UNCHANGED <<person, keyed, row, count, file, task, sent, low, consumer, stranded>>
         /\ \A e \in Emb : RemovalPending(e) =>
              RemovalPending(e)' \/ (kind = "remove" /\ e \in sent[NextId].embs)
<1>1. /\ consumer = "running" /\ NextId <= Len(sent) /\ sent[NextId].kind = kind
      /\ lastId' = NextId /\ lost' = lost \cup Skipped
      /\ UNCHANGED <<person, keyed, row, count, file, task, sent, low, consumer, stranded>>
  BY DEF Reads, database, stream
<1>2. /\ NextId \in 1..Len(sent) /\ lastId < NextId /\ low < NextId
      /\ \A k \in low + 1 .. NextId : k = NextId \/ k \in low + 1 .. lastId
  BY <1>1, EnrolTypes DEF NextId
<1>3. Skipped \subseteq Emb
  <2>1. ASSUME NEW e \in Skipped
        PROVE  e \in Emb
    <3>1. PICK k \in lastId + 1 .. NextId - 1 : e \in sent[k].embs
      BY DEF Skipped
    <3>2. k \in 1..Len(sent)
      BY <1>2, EnrolTypes
    <3>3. sent[k] \in Message
      BY <3>2, EnrolTypes
    <3> QED
      BY <3>1, <3>3 DEF Message
  <2> QED
    BY <2>1
<1>4. ASSUME NEW e \in Emb, RemovalPending(e)
      PROVE  RemovalPending(e)' \/ (kind = "remove" /\ e \in sent[NextId].embs)
  <2>1. CASE \E r \in Request : task[r].at \in {"erased", "unlinked"} /\ e \in task[r].embs
    BY <1>1, <2>1 DEF RemovalPending
  <2>2. CASE \E k \in lastId + 1 .. Len(sent) : sent[k].kind = "remove" /\ e \in sent[k].embs
    <3>1. PICK k \in lastId + 1 .. Len(sent) : sent[k].kind = "remove" /\ e \in sent[k].embs
      BY <2>2
    <3>2. CASE k = NextId
      BY <1>1, <3>1, <3>2
    <3>3. CASE k < NextId
      <4>1. k \in lastId + 1 .. NextId - 1
        BY <1>2, <3>3, EnrolTypes
      <4>2. e \in Skipped
        BY <3>1, <4>1 DEF Skipped
      <4> QED
        BY <1>1, <4>2 DEF RemovalPending
    <3>4. CASE k > NextId
      <4>1. k \in NextId + 1 .. Len(sent)
        BY <1>2, <3>4, EnrolTypes
      <4> QED
        BY <1>1, <3>1, <4>1 DEF RemovalPending
    <3> QED
      BY <1>2, <3>2, <3>3, <3>4, EnrolTypes
  <2>3. CASE e \in lost
    BY <1>1, <2>3 DEF RemovalPending
  <2> QED
    BY <2>1, <2>2, <2>3, <1>4 DEF RemovalPending
<1> QED
  BY <1>1, <1>2, <1>3, <1>4 DEF EnrolInv, EnrolmentTypeOK

\* The addition of e finds nothing under e, and puts the row's face there.
LEMMA ApplyAddStep ==
  ASSUME EnrolInv, ApplyAdd
  PROVE  EnrolInv'
<1>1. PICK e \in sent[NextId].embs : IndexAdd(e, sent[NextId].who, row[e].face)
  BY DEF ApplyAdd
<1>2. /\ NextId \in 1..Len(sent) /\ lastId < NextId /\ low < NextId
      /\ sent[NextId].kind = "add" /\ lastId' = NextId /\ consumer = "running"
      /\ \A k \in low + 1 .. NextId : k = NextId \/ k \in low + 1 .. lastId
      /\ lost \subseteq lost' /\ lost' \subseteq Emb
      /\ UNCHANGED <<person, keyed, row, count, file, task, sent, low, consumer, stranded>>
      /\ \A d \in Emb : RemovalPending(d) => RemovalPending(d)'
  BY ReadEffect DEF ApplyAdd
<1>3. /\ e \in Emb /\ sent[NextId].embs = {e}
      /\ row[e].of = sent[NextId].who /\ sent[NextId].who \in Person
  <2>1. \E d \in 1..count : sent[NextId].embs = {d} /\ row[d].of = sent[NextId].who
    BY <1>2 DEF EnrolInv, StoreInv, StreamInv
  <2>2. sent[NextId] \in Message
    BY <1>2, EnrolTypes
  <2> QED
    BY <1>1, <2>1, <2>2, EnrolTypes DEF Message, Emb
<1>4. index[e] = <<>>
  <2>1. ASSUME NEW k \in 1..lastId, sent[k].kind = "add", sent[k].embs = {e}
        PROVE  FALSE
    <3>1. k \in 1..Len(sent) /\ k # NextId
      BY <1>2, EnrolTypes
    <3> QED
      BY <1>2, <1>3, <2>1, <3>1 DEF EnrolInv, StoreInv, AddsOnce
  <2> QED
    BY <1>3, <2>1 DEF EnrolInv, IndexInv
<1>5. /\ index' \in [Emb -> Seq(Face \cup {Blank})] /\ index'[e] = <<row[e].face>>
      /\ \A d \in Emb \ {e} : index'[d] = index[d] /\ owner'[d] = owner[d]
      /\ owner' \in [Emb -> Person \cup {Nobody}] /\ owner'[e] = row[e].of
  <2>1. row[e].face \in Face \cup {Blank}
    BY <1>3, EnrolTypes DEF RowType
  <2>2. /\ index' = [index EXCEPT ![e] = Append(index[e], row[e].face)]
        /\ owner' = [owner EXCEPT ![e] = sent[NextId].who]
    BY <1>1 DEF IndexAdd
  <2>3. Append(index[e], row[e].face) = <<row[e].face>>
    BY <1>4
  <2>4. <<row[e].face>> \in Seq(Face \cup {Blank})
    BY <2>1
  <2> QED
    BY <1>3, <2>2, <2>3, <2>4, EnrolTypes
<1>6. EnrolmentTypeOK'
  <2>1. lastId' \in 0..Len(sent)
    BY <1>2, EnrolTypes
  <2> QED
    BY <1>2, <1>5, <2>1 DEF EnrolInv, EnrolmentTypeOK
<1>7. IndexInv'
  <2> SUFFICES ASSUME NEW d \in Emb
               PROVE  /\ owner'[d] # Nobody => owner'[d] = row[d].of
                      /\ \A i \in DOMAIN index'[d] :
                           index'[d][i] \in Face =>
                             index'[d][i] = row[d].face \/ RemovalPending(d)'
                      /\ index'[d] # <<>> =>
                           \E k \in 1..lastId' : sent[k].kind = "add" /\ sent[k].embs = {d}
    BY <1>2 DEF IndexInv
  <2>1. CASE d = e
    <3>1. \A i \in DOMAIN index'[e] : index'[e][i] = row[e].face
      BY <1>5
    <3>2. NextId \in 1..lastId'
      BY <1>2
    <3> QED
      BY <1>2, <1>3, <1>5, <2>1, <3>1, <3>2
  <2>2. CASE d # e
    <3>1. index'[d] = index[d] /\ owner'[d] = owner[d]
      BY <1>5, <2>2
    <3>2. \A k \in 1..lastId : k \in 1..lastId'
      BY <1>2, EnrolTypes
    <3> QED
      BY <1>2, <3>1, <3>2 DEF EnrolInv, IndexInv
  <2> QED
    BY <2>1, <2>2
<1>8. ReadIsIndexed'
  <2> SUFFICES ASSUME NEW k \in low + 1 .. NextId, sent[k].kind = "add",
                      NEW d \in sent[k].embs, row[d].face # Blank
               PROVE  index'[d] = <<row[d].face>> /\ owner'[d] = row[d].of
    BY <1>2 DEF ReadIsIndexed
  <2>1. CASE k = NextId
    BY <1>3, <1>5, <2>1
  <2>2. CASE k \in low + 1 .. lastId
    <3>1. k \in 1..Len(sent) /\ k # NextId
      BY <1>2, <2>2, EnrolTypes
    <3>2. d \in Emb /\ sent[k].embs = {d}
      BY <3>1, EnrolTypes DEF EnrolInv, StoreInv, StreamInv, Emb
    <3>3. d # e
      BY <1>2, <1>3, <3>1, <3>2 DEF EnrolInv, StoreInv, AddsOnce
    <3>4. index[d] = <<row[d].face>> /\ owner[d] = row[d].of
      BY <2>2 DEF EnrolInv, ReadIsIndexed
    <3> QED
      BY <1>5, <3>2, <3>3, <3>4
  <2> QED
    BY <1>2, <2>1, <2>2
<1>9. DownInv' /\ StoreInv'
  BY <1>2, StoreRests DEF DownInv
<1> QED
  BY <1>6, <1>7, <1>8, <1>9 DEF EnrolInv

\* A removal clears ids whose rows are blank, and no others.
LEMMA ApplyRemoveStep ==
  ASSUME EnrolInv, ApplyRemove
  PROVE  EnrolInv'
<1> DEFINE embs == sent[NextId].embs
<1>1. /\ NextId \in 1..Len(sent) /\ lastId < NextId /\ low < NextId
      /\ sent[NextId].kind = "remove" /\ lastId' = NextId /\ consumer = "running"
      /\ \A k \in low + 1 .. NextId : k = NextId \/ k \in low + 1 .. lastId
      /\ lost \subseteq lost' /\ lost' \subseteq Emb
      /\ UNCHANGED <<person, keyed, row, count, file, task, sent, low, consumer, stranded>>
      /\ \A d \in Emb : RemovalPending(d) => RemovalPending(d)' \/ d \in embs
  BY ReadEffect DEF ApplyRemove
<1>2. \A d \in embs : row[d].face = Blank
  BY <1>1 DEF EnrolInv, StoreInv, StreamInv
<1>3. /\ index' = [d \in Emb |-> IF d \in embs THEN <<>> ELSE index[d]]
      /\ owner' = [d \in Emb |-> IF d \in embs THEN Nobody ELSE owner[d]]
  BY DEF ApplyRemove, IndexRemove
<1> HIDE DEF embs
<1>4. /\ index' \in [Emb -> Seq(Face \cup {Blank})] /\ owner' \in [Emb -> Person \cup {Nobody}]
      /\ \A d \in Emb : d \in embs => index'[d] = <<>> /\ owner'[d] = Nobody
      /\ \A d \in Emb : d \notin embs => index'[d] = index[d] /\ owner'[d] = owner[d]
  BY <1>3, EmptySeq, EnrolTypes
<1>5. EnrolmentTypeOK'
  <2>1. lastId' \in 0..Len(sent)
    BY <1>1, EnrolTypes
  <2> QED
    BY <1>1, <1>4, <2>1 DEF EnrolInv, EnrolmentTypeOK
<1>6. IndexInv'
  <2> SUFFICES ASSUME NEW d \in Emb
               PROVE  /\ owner'[d] # Nobody => owner'[d] = row[d].of
                      /\ \A i \in DOMAIN index'[d] :
                           index'[d][i] \in Face =>
                             index'[d][i] = row[d].face \/ RemovalPending(d)'
                      /\ index'[d] # <<>> =>
                           \E k \in 1..lastId' : sent[k].kind = "add" /\ sent[k].embs = {d}
    BY <1>1 DEF IndexInv
  <2>1. CASE d \in embs
    <3>1. DOMAIN index'[d] = {}
      BY <1>4, <2>1
    <3> QED
      BY <1>4, <2>1, <3>1
  <2>2. CASE d \notin embs
    <3>1. \A k \in 1..lastId : k \in 1..lastId'
      BY <1>1, EnrolTypes
    <3> QED
      BY <1>1, <1>4, <2>2, <3>1 DEF EnrolInv, IndexInv
  <2> QED
    BY <2>1, <2>2
<1>7. ReadIsIndexed'
  <2> SUFFICES ASSUME NEW k \in low + 1 .. NextId, sent[k].kind = "add",
                      NEW d \in sent[k].embs, row[d].face # Blank
               PROVE  index'[d] = <<row[d].face>> /\ owner'[d] = row[d].of
    BY <1>1 DEF ReadIsIndexed
  <2>1. k \in low + 1 .. lastId /\ k \in 1..Len(sent)
    <3>1. sent[NextId].kind # "add"
      BY <1>1
    <3>2. k # NextId /\ k \in low + 1 .. lastId
      BY <1>1, <3>1
    <3> QED
      BY <3>2, EnrolTypes
  <2>2. d \in 1..count
    BY <2>1 DEF EnrolInv, StoreInv, StreamInv
  <2>3. d \in Emb /\ d \notin embs
    <3>1. d \in Emb
      BY <2>2, EnrolTypes DEF Emb
    <3>2. d \notin embs
      BY <1>2
    <3> QED
      BY <3>1, <3>2
  <2> QED
    BY <1>4, <2>1, <2>3 DEF EnrolInv, ReadIsIndexed
<1>8. DownInv' /\ StoreInv'
  BY <1>1, StoreRests DEF DownInv
<1> QED
  BY <1>5, <1>6, <1>7, <1>8 DEF EnrolInv
-----------------------------------------------------------------------------
LEMMA EnrolStep == EnrolInv /\ [EnrolmentNext]_enrolmentVars => EnrolInv'
<1> SUFFICES ASSUME EnrolInv, [EnrolmentNext]_enrolmentVars
             PROVE  EnrolInv'
  OBVIOUS
<1>1. CASE UNCHANGED enrolmentVars
  <2>1. UNCHANGED <<person, keyed, row, count, file, task, sent, low, consumer, lastId, index,
                    owner, lost, stranded>>
    BY <1>1 DEF enrolmentVars, database, stream, process
  <2>2. EnrolmentTypeOK'
    BY <2>1 DEF EnrolInv, EnrolmentTypeOK
  <2>3. IndexInv' /\ DownInv' /\ ReadIsIndexed'
    BY <2>1 DEF EnrolInv, IndexInv, DownInv, ReadIsIndexed, RemovalPending
  <2> QED
    BY <2>1, <2>2, <2>3, StoreRests DEF EnrolInv
<1>2. ASSUME NEW r \in Request, RequestStep(r)
      PROVE  EnrolInv'
  BY <1>2, CheckStep, PurgeStep, InsertStep, DeleteStep, PublishStep, RequestFailsStep
     DEF RequestStep
<1>3. CASE Consume
  BY <1>3, ApplyAddStep, ApplyRemoveStep DEF Consume
<1> QED
  BY <1>1, <1>2, <1>3, PersonStep, TaskStarts, ProcessDiesStep DEF EnrolmentNext

\* An answer is the owner of a vector the index holds.
LEMMA AnswersAreAccounted == EnrolInv => NeverAnswersErased
<1> SUFFICES ASSUME EnrolInv, NEW f \in Face, Identify(f) # Nobody
             PROVE  \E e \in Emb : /\ row[e].of = Identify(f)
                                   /\ row[e].face = f \/ RemovalPending(e)
  BY DEF NeverAnswersErased
<1> DEFINE c == CHOOSE x \in Copies(f) : TRUE
<1>1. c \in Copies(f) /\ Identify(f) = owner[c[1]]
  BY DEF Identify
<1> HIDE DEF c
<1>2. /\ c[1] \in Emb /\ c[2] \in DOMAIN index[c[1]] /\ index[c[1]][c[2]] = f
      /\ owner[c[1]] # Nobody
  BY <1>1 DEF Copies
<1>3. /\ owner[c[1]] = row[c[1]].of
      /\ f = row[c[1]].face \/ RemovalPending(c[1])
  BY <1>2 DEF EnrolInv, IndexInv
<1> QED
  BY <1>1, <1>2, <1>3

\* No answer by a face that is gone, no file nobody knows of.
THEOREM PurgesLeaveNothing == EnrolmentSpec => []PurgeLeavesNothing
<1>1. EnrolInv => PurgeLeavesNothing
  BY AnswersAreAccounted DEF EnrolInv, StoreInv, PurgeLeavesNothing
<1> QED
  BY <1>1, InitEnrolInv, EnrolStep, PTL DEF EnrolmentSpec

\* What was read is in the index, once.
THEOREM AdditionsIndexed == EnrolmentSpec => []ReadIsIndexed
<1>1. EnrolInv => ReadIsIndexed
  BY DEF EnrolInv
<1> QED
  BY <1>1, InitEnrolInv, EnrolStep, PTL DEF EnrolmentSpec

-----------------------------------------------------------------------------
(***************************************************************************)
(* The engine: the tracklets of a gid agree on whom they are, and a face's *)
(* word stands against badges and bodies.                                  *)
(***************************************************************************)

Known == Person \cup {Nobody}

RegistryTypes ==
  /\ registry \in [Key -> Entry] /\ live \subseteq Key
  /\ \A k \in Key \ live : registry[k] = NoEntry
  /\ nextGid \in 0..(MaxGid + 1) /\ now \in Nat
  /\ faiss \in [Vector -> Known]

\* An anchor by face names somebody.
FacesName == \A k \in Key : registry[k].via = "face" => registry[k].person # Nobody

RegistryInv == RegistryTypes /\ GidAgrees /\ FacesName

LEMMA EngineTypes ==
  ASSUME RegistryInv
  PROVE  /\ registry \in [Key -> Entry] /\ live \subseteq Key /\ now \in Nat
         /\ \A k \in Key \ live : registry[k] = NoEntry
         /\ nextGid \in 0..(MaxGid + 1) /\ MaxGid \in Nat
         /\ faiss \in [Vector -> Known]
         /\ Nobody \notin Person /\ NoVector \notin Vector
BY EngineAssumption DEF RegistryInv, RegistryTypes

\* What the cursor of the BLE consumer has passed, and what it has not.
RowsInv ==
  \A n \in 1..MaxBadges :
    /\ rows[n] \in {0, 1} /\ (n > bleLast => rows[n] = 0)
    /\ n > bleLow /\ n <= bleLast => (rows[n] = 1 <=> n \notin skipped)

ConsumerInv ==
  /\ badges \in Seq([parses : BOOLEAN, badge : Holder]) /\ Len(badges) <= MaxBadges
  /\ bleLow \in Nat /\ bleLow <= Len(badges)
  /\ bleEnd \in Nat /\ bleEnd <= Len(badges)
  /\ bleLast \in Nat /\ bleLast <= bleEnd /\ bleUp \in BOOLEAN
  /\ rows \in [1..MaxBadges -> Nat]
  /\ \A n \in skipped : n \in 1..MaxBadges /\ n <= bleLast
  /\ RowsInv

LEMMA ConsumerTypes ==
  ASSUME ConsumerInv
  PROVE  /\ badges \in Seq([parses : BOOLEAN, badge : Holder])
         /\ Len(badges) \in Nat /\ Len(badges) <= MaxBadges /\ MaxBadges \in Nat
         /\ bleLow \in Nat /\ bleLow <= Len(badges)
         /\ bleEnd \in Nat /\ bleEnd <= Len(badges)
         /\ bleLast \in Nat /\ bleLast <= bleEnd /\ bleUp \in BOOLEAN
         /\ rows \in [1..MaxBadges -> Nat]
         /\ \A n \in skipped : n \in 1..MaxBadges /\ n <= bleLast
<1>1. Len(badges) \in Nat
  BY LenProperties DEF ConsumerInv
<1> QED
  BY <1>1, EngineAssumption DEF ConsumerInv

LEMMA NoEntryType ==
  /\ EmptyGallery \in Gallery /\ NoEntry \in Entry
  /\ NoEntry.person = Nobody /\ NoEntry.via = "none"
<1>1. EmptyGallery \in Gallery
  BY EmptySeq DEF EmptyGallery, Gallery
<1>2. 0 \in 0..MaxGid
  BY EngineAssumption
<1> QED
  BY <1>1, <1>2 DEF NoEntry, Entry

LEMMA InitRegistryInv == Init => RegistryInv
<1> SUFFICES ASSUME Init
             PROVE  RegistryInv
  OBVIOUS
<1> USE EngineAssumption
<1>1. registry \in [Key -> Entry] /\ \A k \in Key : registry[k] = NoEntry
  BY NoEntryType DEF Init
<1>2. live = {} /\ nextGid = 0 /\ now \in Nat /\ faiss \in [Vector -> Known]
  BY DEF Init, Known
<1>3. RegistryTypes /\ GidAgrees
  BY <1>1, <1>2 DEF RegistryTypes, GidAgrees
<1>4. FacesName
  BY <1>1, NoEntryType DEF FacesName
<1> QED
  BY <1>3, <1>4 DEF RegistryInv
-----------------------------------------------------------------------------
(***************************************************************************)
(* The gallery of a tracklet stays a gallery                               *)
(***************************************************************************)
LEMMA LastOfType ==
  ASSUME NEW s \in Seq(Vector), NEW n \in Nat \ {0}
  PROVE  LastOf(s, n) \in Seq(Vector)
<1>1. Len(s) \in Nat
  BY LenProperties
<1>2. CASE Len(s) <= n
  BY <1>2 DEF LastOf
<1>3. CASE ~(Len(s) <= n)
  <2>1. Len(s) - n + 1 \in Int /\ Len(s) \in Int
    BY <1>1
  <2>2. \A i \in (Len(s) - n + 1)..Len(s) : s[i] \in Vector
    <3>1. \A i \in (Len(s) - n + 1)..Len(s) : i \in 1..Len(s)
      BY <1>1, <1>3
    <3> QED
      BY <3>1, ElementOfSeq
  <2>3. SubSeq(s, Len(s) - n + 1, Len(s)) \in Seq(Vector)
    BY <2>1, <2>2, SubSeqProperties
  <2> QED
    BY <1>3, <2>3 DEF LastOf
<1> QED
  BY <1>2, <1>3

LEMMA AdmitType ==
  ASSUME NEW g \in Gallery, NEW v \in Vector, NEW q \in Nat, now \in Nat
  PROVE  Admit(g, v, q, now, Settings.gallery) \in Gallery
<1> DEFINE p == Settings.gallery
<1>1. p.window \in Nat /\ p.floor \in Nat /\ p.size \in Nat \ {0}
  BY EngineAssumption
<1>2. /\ g.slots \in Seq(Vector) /\ g.start \in Nat /\ g.best \in Int
  BY DEF Gallery
<1> HIDE DEF p
<1>3. ReplaceLast(g.slots, v) \in Seq(Vector)
  <2>1. CASE g.slots = <<>>
    BY <2>1 DEF ReplaceLast
  <2>2. CASE g.slots # <<>>
    BY <1>2, <2>2, ExceptSeq, EmptySeq DEF ReplaceLast
  <2> QED
    BY <2>1, <2>2
<1>4. LastOf(Append(g.slots, v), p.size) \in Seq(Vector)
  <2>1. Append(g.slots, v) \in Seq(Vector)
    BY <1>2, AppendProperties
  <2> QED
    BY <1>1, <2>1, LastOfType
<1>5. /\ [slots |-> LastOf(Append(g.slots, v), p.size), start |-> now, best |-> q] \in Gallery
      /\ [g EXCEPT !.slots = ReplaceLast(g.slots, v), !.best = q] \in Gallery
  <2>1. q \in Int
    OBVIOUS
  <2>2. [slots |-> LastOf(Append(g.slots, v), p.size), start |-> now, best |-> q] \in Gallery
    BY <1>4, <2>1 DEF Gallery
  <2>3. [g EXCEPT !.slots = ReplaceLast(g.slots, v), !.best = q] \in Gallery
    BY <1>2, <1>3, <2>1 DEF Gallery
  <2> QED
    BY <2>2, <2>3
<1>6. \/ q < p.floor
      \/ q >= p.floor /\ now - g.start < p.window /\ q <= g.best
      \/ q >= p.floor /\ now - g.start < p.window /\ q > g.best
      \/ q >= p.floor /\ now - g.start >= p.window
  BY <1>1, <1>2
<1>7. Admit(g, v, q, now, p) \in Gallery
  BY <1>1, <1>2, <1>5, <1>6 DEF Admit
<1> QED
  BY <1>7 DEF p

\* A sighting changes neither whom a tracklet is nor how that is known.
LEMMA SightedType ==
  ASSUME RegistryInv, NEW e \in Entry, NEW gid \in 0..MaxGid,
         NEW face \in Vector \cup {NoVector}, NEW body \in Vector \cup {NoVector}, NEW q \in Quality
  PROVE  LET new == Sighted(e, gid, face, body, q)
         IN  /\ new \in Entry /\ new.gid = gid
             /\ new.person = e.person /\ new.via = e.via
<1> DEFINE faces == Grown(e.faces, face, q)
           bodies == Grown(e.bodies, body, q)
           n == IF {face, body} = {NoVector} \/ e.sightings >= Settings.confirmAfter
                THEN e.sightings ELSE e.sightings + 1
           new == [e EXCEPT !.gid = gid, !.seen = now, !.faces = faces, !.bodies = bodies,
                            !.sightings = n]
<1>1. /\ e.faces \in Gallery /\ e.bodies \in Gallery /\ e.sightings \in Nat
      /\ q \in Nat /\ now \in Nat
  BY EngineTypes, EngineAssumption DEF Entry
<1>2. faces \in Gallery /\ bodies \in Gallery
  BY <1>1, AdmitType DEF Grown
<1>3. n \in Nat
  BY <1>1
<1>4. Sighted(e, gid, face, body, q) = new
  BY DEF Sighted
<1> HIDE DEF faces, bodies, n
<1>5. new \in Entry /\ new.gid = gid /\ new.person = e.person /\ new.via = e.via
  BY <1>1, <1>2, <1>3 DEF Entry
<1> QED
  BY <1>4, <1>5
-----------------------------------------------------------------------------
(***************************************************************************)
(* What identification makes of a registry                                 *)
(***************************************************************************)
\* The person is whom the face stands for, else one who is known of the gid,
\* else nobody; the whole gid learns of it.
LEMMA IdentifiedEffect ==
  ASSUME RegistryInv, NEW reg \in [Key -> Entry], NEW keys \in SUBSET Key, NEW k \in keys,
         NEW face \in Vector \cup {NoVector}, NEW new \in Identified(reg, keys, k, face)
  PROVE  \E who \in Known, by \in {"face", "other"} :
           /\ \/ who = Nobody /\ new = reg
              \/ who # Nobody /\ new = Anchored(reg, keys, reg[k].gid, who, by)
           /\ \/ by = "face" /\ \E v \in Vector : faiss[v] = who
              \/ \E j \in keys : reg[j].gid = reg[k].gid /\ reg[j].person = who /\ who # Nobody
              \/ \A j \in keys : reg[j].gid = reg[k].gid => reg[j].person = Nobody
           /\ who = Nobody => \A j \in keys : reg[j].gid = reg[k].gid => reg[j].person = Nobody
<1> DEFINE gid == reg[k].gid
           known == {reg[j].person : j \in {i \in keys : reg[i].gid = gid}} \ {Nobody}
           faceId == IF face = NoVector THEN Nobody ELSE faiss[face]
           by == IF faceId # Nobody \/ \E j \in keys : reg[j].gid = gid /\ reg[j].via = "face"
                 THEN "face" ELSE "other"
           who(b) == IF faceId # Nobody THEN faceId ELSE b
<1>1. \A b : Resolve(faceId, b, Nobody, Nobody).person = who(b)
  BY DEF Resolve
<1>2. PICK b \in (IF known = {} THEN {Nobody} ELSE known) :
        new = IF who(b) = Nobody THEN reg ELSE Anchored(reg, keys, gid, who(b), by)
  <2>1. \E b \in (IF known = {} THEN {Nobody} ELSE known) :
          new = IF Resolve(faceId, b, Nobody, Nobody).person = Nobody THEN reg
                ELSE Anchored(reg, keys, gid, Resolve(faceId, b, Nobody, Nobody).person, by)
    BY ZenonT(60) DEF Identified
  <2>2. PICK b \in (IF known = {} THEN {Nobody} ELSE known) :
          new = IF Resolve(faceId, b, Nobody, Nobody).person = Nobody THEN reg
                ELSE Anchored(reg, keys, gid, Resolve(faceId, b, Nobody, Nobody).person, by)
    BY <2>1
  <2>3. new = IF who(b) = Nobody THEN reg ELSE Anchored(reg, keys, gid, who(b), by)
    <3>1. Resolve(faceId, b, Nobody, Nobody).person = who(b)
      BY <1>1
    <3> HIDE DEF faceId, who, by, known, gid
    <3> QED
      BY <2>2, <3>1
  <2> QED
    BY <2>2, <2>3
<1>3. faceId \in Known /\ (faceId # Nobody => \E v \in Vector : faiss[v] = faceId)
  BY EngineTypes DEF Known
<1>4. \A x \in known : /\ x \in Known /\ x # Nobody
                       /\ \E j \in keys : reg[j].gid = gid /\ reg[j].person = x
  BY DEF Entry, Known
<1>5. known = {} => \A j \in keys : reg[j].gid = gid => reg[j].person = Nobody
  OBVIOUS
<1>6. by \in {"face", "other"} /\ (faceId # Nobody => by = "face")
  OBVIOUS
<1> HIDE DEF known, faceId, by
<1>7. b \in Known /\ (b = Nobody <=> known = {})
  BY <1>4 DEF Known
<1>8. who(b) \in Known /\ (who(b) = Nobody => known = {})
  BY <1>3, <1>7
<1>9. CASE faceId # Nobody
  BY <1>2, <1>3, <1>6, <1>9
<1>10. CASE faceId = Nobody /\ known # {}
  BY <1>2, <1>4, <1>6, <1>8, <1>10
<1>11. CASE faceId = Nobody /\ known = {}
  BY <1>2, <1>5, <1>6, <1>7, <1>11 DEF Known
<1> QED
  BY <1>9, <1>10, <1>11

\* One sighting, of a tracklet k whose gid is settled: reg is the registry with
\* the sighting, keys who is live with it.
LEMMA IdentificationKeeps ==
  ASSUME RegistryInv, NEW reg \in [Key -> Entry], NEW keys \in SUBSET Key, NEW k \in keys,
         live \subseteq keys, keys \subseteq live \cup {k},
         NEW face \in Vector \cup {NoVector}, registry' \in Identified(reg, keys, k, face),
         \A j \in Key : reg[j].person = registry[j].person /\ reg[j].via = registry[j].via,
         \A j \in Key \ {k} : reg[j] = registry[j],
         k \in live => reg[k].gid = registry[k].gid
  PROVE  /\ registry' \in [Key -> Entry]
         /\ \A j \in Key \ keys : registry'[j] = registry[j]
         /\ \A i, j \in keys : registry'[i].gid = registry'[j].gid =>
                                 registry'[i].person = registry'[j].person
         /\ \A j \in Key : registry'[j].via = "face" => registry'[j].person # Nobody
         /\ \A j \in live : registry[j].via = "face" =>
              \/ registry'[j].person = registry[j].person
              \/ registry'[j].via = "face" /\ \E v \in Vector : faiss[v] = registry'[j].person
<1>1. PICK who \in Known, by \in {"face", "other"} :
        /\ \/ who = Nobody /\ registry' = reg
           \/ who # Nobody /\ registry' = Anchored(reg, keys, reg[k].gid, who, by)
        /\ \/ by = "face" /\ \E v \in Vector : faiss[v] = who
           \/ \E j \in keys : reg[j].gid = reg[k].gid /\ reg[j].person = who /\ who # Nobody
           \/ \A j \in keys : reg[j].gid = reg[k].gid => reg[j].person = Nobody
        /\ who = Nobody => \A j \in keys : reg[j].gid = reg[k].gid => reg[j].person = Nobody
  BY IdentifiedEffect
<1>2. \A j \in Key \ {k} : reg[j] = registry[j]
  OBVIOUS
<1>3. k \notin live => registry[k].person = Nobody /\ registry[k].via = "none"
  BY EngineTypes, NoEntryType
<1>4. \* those who were live agree as before
      \A i, j \in live : reg[i].gid = reg[j].gid => reg[i].person = reg[j].person
  BY EngineTypes DEF RegistryInv, GidAgrees
<1>5. \A i, j \in keys \ {k} : reg[i].gid = reg[j].gid => reg[i].person = reg[j].person
  BY <1>4
<1>6. \A j \in Key : reg[j].via = "face" => reg[j].person # Nobody
  BY DEF RegistryInv, FacesName
<1>7. CASE who = Nobody
  <2>1. registry' = reg
    BY <1>1, <1>7
  <2>2. \A i, j \in keys : reg[i].gid = reg[j].gid => reg[i].person = reg[j].person
    BY <1>1, <1>5, <1>7
  <2> QED
    BY <1>6, <2>1, <2>2
<1>8. CASE who # Nobody
  <2>1. registry' = Anchored(reg, keys, reg[k].gid, who, by)
    BY <1>1, <1>8
  <2>2. /\ registry' \in [Key -> Entry]
        /\ \A j \in Key : /\ registry'[j].gid = reg[j].gid
                          /\ j \in keys /\ reg[j].gid = reg[k].gid =>
                               registry'[j].person = who /\ registry'[j].via = by
                          /\ ~(j \in keys /\ reg[j].gid = reg[k].gid) => registry'[j] = reg[j]
    <3>1. ASSUME NEW j \in Key
          PROVE  LET new == [reg[j] EXCEPT !.person = who, !.via = by]
                 IN  new \in Entry /\ new.gid = reg[j].gid /\ new.person = who /\ new.via = by
      <4>1. reg[j] \in Entry
        OBVIOUS
      <4> QED
        BY <4>1 DEF Entry, Known
    <3> QED
      BY <2>1, <3>1 DEF Anchored
  <2>3. \A i, j \in keys : registry'[i].gid = registry'[j].gid =>
                             registry'[i].person = registry'[j].person
    <3> SUFFICES ASSUME NEW i \in keys, NEW j \in keys, registry'[i].gid = registry'[j].gid
                 PROVE  registry'[i].person = registry'[j].person
      OBVIOUS
    <3>1. CASE reg[i].gid = reg[k].gid
      BY <2>2, <3>1
    <3>2. CASE reg[i].gid # reg[k].gid
      BY <1>5, <2>2, <3>2
    <3> QED
      BY <3>1, <3>2
  <2>4. \A j \in Key : registry'[j].via = "face" => registry'[j].person # Nobody
    BY <1>6, <1>8, <2>2
  <2>5. ASSUME NEW j \in live, registry[j].via = "face"
        PROVE  \/ registry'[j].person = registry[j].person
               \/ registry'[j].via = "face" /\ \E v \in Vector : faiss[v] = registry'[j].person
    <3>0. j \in Key /\ j \in keys /\ reg[j].person = registry[j].person /\ reg[j].person # Nobody
      BY <1>6, <2>5
    <3>1. CASE reg[j].gid # reg[k].gid
      BY <2>2, <3>0, <3>1
    <3>2. CASE reg[j].gid = reg[k].gid
      <4>1. registry'[j].person = who /\ registry'[j].via = by
        BY <2>2, <3>0, <3>2
      <4>2. CASE by = "face" /\ \E v \in Vector : faiss[v] = who
        BY <4>1, <4>2
      <4>3. CASE \E i \in keys : reg[i].gid = reg[k].gid /\ reg[i].person = who
        <5>1. PICK i \in keys : reg[i].gid = reg[k].gid /\ reg[i].person = who
          BY <4>3
        <5>2. i \in live
          BY <1>3, <1>8, <5>1
        <5>3. reg[i].person = reg[j].person
          BY <1>4, <3>2, <5>1, <5>2
        <5> QED
          BY <3>0, <4>1, <5>1, <5>3
      <4> QED
        BY <1>1, <3>0, <3>2, <4>2, <4>3
    <3> QED
      BY <3>1, <3>2
  <2>6. \A j \in Key \ keys : registry'[j] = registry[j]
    BY <1>2, <2>2
  <2> QED
    BY <2>2, <2>3, <2>4, <2>5, <2>6
<1> QED
  BY <1>7, <1>8

\* What a face has told stands, in the sense of FaceIdentityStands.
Stands ==
  \A k \in live \cap live' :
    registry[k].via = "face" =>
      \/ registry'[k].person = registry[k].person
      \/ /\ registry'[k].via = "face"
         /\ \E v \in Vector : faiss[v] = registry'[k].person

LEMMA SeeStep ==
  ASSUME RegistryInv, See
  PROVE  RegistryInv' /\ Stands
<1>1. PICK k \in Key, face \in Vector \cup {NoVector}, body \in Vector \cup {NoVector},
           q \in Quality : SeeKnown(k, face, body, q) \/ SeeNew(k, face, body, q)
  BY DEF See
<1>2. UNCHANGED <<now, faiss>>
  BY DEF See
<1>3. \E gid \in 0..MaxGid, e \in Entry :
        LET keys == live \cup {k}
            reg == [registry EXCEPT ![k] = Sighted(e, gid, face, body, q)]
        IN  /\ e = registry[k] /\ (k \in live => gid = registry[k].gid)
            /\ registry' \in Identified(reg, keys, k, face)
            /\ live' = keys /\ nextGid' \in 0..(MaxGid + 1)
  <2>1. CASE SeeKnown(k, face, body, q)
    <3>1. /\ k \in live /\ live \cup {k} = live /\ registry[k] \in Entry
          /\ registry[k].gid \in 0..MaxGid
      BY <2>1, EngineTypes DEF SeeKnown, Entry
    <3>2. registry' \in Identified([registry EXCEPT ![k] =
            Sighted(registry[k], registry[k].gid, face, body, q)], live, k, face)
      BY <2>1, EngineTypes DEF SeeKnown
    <3>3. live' = live /\ nextGid' = nextGid
      BY <2>1 DEF SeeKnown
    <3> QED
      BY <3>1, <3>2, <3>3, EngineTypes
  <2>2. CASE SeeNew(k, face, body, q)
    <3>1. k \notin live /\ nextGid <= MaxGid /\ live' = live \cup {k} /\ registry[k] = NoEntry
      BY <2>2, EngineTypes DEF SeeNew
    <3>2. PICK gid \in (IF Candidates(k[1], face, body) = {} THEN {nextGid}
                        ELSE Candidates(k[1], face, body)) :
            /\ registry' \in Identified(
                 [registry EXCEPT ![k] = Sighted(NoEntry, gid, face, body, q)],
                 live \cup {k}, k, face)
            /\ nextGid' = IF gid = nextGid THEN nextGid + 1 ELSE nextGid
      BY <2>2 DEF SeeNew
    <3>3. \A v, c, type : Matches(v, c, type) \subseteq 0..MaxGid
      BY EngineTypes DEF Matches, Entry
    <3>4. gid \in 0..MaxGid
      BY <3>1, <3>2, <3>3, EngineTypes DEF Candidates
    <3>5. nextGid' \in 0..(MaxGid + 1)
      BY <3>1, <3>2, EngineTypes
    <3> QED
      BY <3>1, <3>2, <3>4, <3>5, NoEntryType
  <2> QED
    BY <1>1, <2>1, <2>2
<1>4. PICK gid \in 0..MaxGid, e \in Entry :
        LET keys == live \cup {k}
            reg == [registry EXCEPT ![k] = Sighted(e, gid, face, body, q)]
        IN  /\ e = registry[k] /\ (k \in live => gid = registry[k].gid)
            /\ registry' \in Identified(reg, keys, k, face)
            /\ live' = keys /\ nextGid' \in 0..(MaxGid + 1)
  BY <1>3
<1> DEFINE keys == live \cup {k}
           reg == [registry EXCEPT ![k] = Sighted(e, gid, face, body, q)]
<1>5. /\ reg \in [Key -> Entry] /\ reg[k].gid = gid
      /\ \A j \in Key : reg[j].person = registry[j].person /\ reg[j].via = registry[j].via
      /\ \A j \in Key \ {k} : reg[j] = registry[j]
  BY <1>4, SightedType, EngineTypes
<1>6. /\ registry' \in Identified(reg, keys, k, face) /\ live' = keys
      /\ k \in live => reg[k].gid = registry[k].gid
      /\ nextGid' \in 0..(MaxGid + 1)
  BY <1>4, <1>5
<1>7. keys \subseteq Key /\ k \in keys /\ live \subseteq keys
  BY EngineTypes
<1> HIDE DEF keys, reg
<1>8. /\ registry' \in [Key -> Entry]
      /\ \A j \in Key \ keys : registry'[j] = registry[j]
      /\ \A i, j \in keys : registry'[i].gid = registry'[j].gid =>
                              registry'[i].person = registry'[j].person
      /\ \A j \in Key : registry'[j].via = "face" => registry'[j].person # Nobody
      /\ \A j \in live : registry[j].via = "face" =>
           \/ registry'[j].person = registry[j].person
           \/ registry'[j].via = "face" /\ \E v \in Vector : faiss[v] = registry'[j].person
  <2>1. keys \subseteq live \cup {k}
    BY DEF keys
  <2> QED
    BY <1>5, <1>6, <1>7, <2>1, IdentificationKeeps
<1>9. RegistryTypes'
  BY <1>2, <1>6, <1>7, <1>8, EngineTypes DEF RegistryInv, RegistryTypes
<1>10. GidAgrees' /\ FacesName' /\ Stands
  BY <1>6, <1>8 DEF GidAgrees, FacesName, Stands
<1> QED
  BY <1>9, <1>10 DEF RegistryInv
-----------------------------------------------------------------------------
(***************************************************************************)
(* The other steps                                                         *)
(***************************************************************************)
LEMMA EvictStep ==
  ASSUME RegistryInv, Evict
  PROVE  RegistryInv' /\ Stands
<1>1. /\ live' \subseteq live /\ registry' = [k \in Key |-> IF k \in live' THEN registry[k] ELSE NoEntry]
      /\ UNCHANGED <<nextGid, now, faiss>>
  BY DEF Evict
<1>2. /\ registry' \in [Key -> Entry] /\ live' \subseteq Key
      /\ \A k \in Key \ live' : registry'[k] = NoEntry
      /\ \A k \in live' : registry'[k] = registry[k]
  BY <1>1, EngineTypes, NoEntryType
<1>3. RegistryTypes'
  BY <1>1, <1>2 DEF RegistryInv, RegistryTypes
<1>4. GidAgrees' /\ Stands
  BY <1>1, <1>2 DEF RegistryInv, GidAgrees, Stands
<1>5. FacesName'
  BY <1>1, <1>2, NoEntryType DEF RegistryInv, FacesName
<1> QED
  BY <1>3, <1>4, <1>5 DEF RegistryInv

LEMMA RestartStep ==
  ASSUME RegistryInv, Restart
  PROVE  RegistryInv' /\ Stands
<1>1. /\ live' = {} /\ registry' = [k \in Key |-> NoEntry]
      /\ UNCHANGED <<nextGid, now, faiss>>
  BY DEF Restart
<1>2. registry' \in [Key -> Entry] /\ \A k \in Key : registry'[k] = NoEntry
  BY <1>1, NoEntryType
<1>3. RegistryTypes'
  BY <1>1, <1>2 DEF RegistryInv, RegistryTypes
<1>4. GidAgrees' /\ FacesName' /\ Stands
  BY <1>1, <1>2, NoEntryType DEF RegistryInv, GidAgrees, FacesName, Stands
<1> QED
  BY <1>3, <1>4 DEF RegistryInv

\* A badge names those who have no name, all of a gid or none.
LEMMA AnchorEffect ==
  ASSUME RegistryInv, NEW p \in Known, AnchorByBadge(p)
  PROVE  /\ registry' \in [Key -> Entry]
         /\ \A k \in Key : registry'[k].gid = registry[k].gid
         /\ \A k \in live : registry[k].person = Nobody =>
              registry'[k].person = p /\ registry'[k].via = "other"
         /\ \A k \in Key : ~(k \in live /\ registry[k].person = Nobody) =>
              registry'[k] = registry[k]
<1>1. ASSUME NEW k \in Key
      PROVE  LET new == [registry[k] EXCEPT !.person = p, !.via = "other"]
             IN  /\ new \in Entry /\ new.gid = registry[k].gid
                 /\ new.person = p /\ new.via = "other"
  <2>1. registry[k] \in Entry
    BY EngineTypes
  <2> QED
    BY <2>1 DEF Entry, Known
<1> QED
  BY <1>1, EngineTypes DEF AnchorByBadge

LEMMA BadgeStep ==
  ASSUME RegistryInv, ConsumerInv, BadgeHandled
  PROVE  RegistryInv' /\ Stands
<1>1. UNCHANGED <<live, nextGid, now, faiss>>
  BY DEF BadgeHandled
<1>2. CASE UNCHANGED registry
  BY <1>1, <1>2 DEF RegistryInv, RegistryTypes, GidAgrees, FacesName, Stands
<1>3. ASSUME NEW p \in Badge[badges[ThisBadge].badge], AnchorByBadge(p)
      PROVE  RegistryInv' /\ Stands
  <2>1. p \in Known /\ p # Nobody
    <3>1. ThisBadge \in 1..Len(badges)
      BY ConsumerTypes DEF BadgeHandled, Turn, ThisBadge
    <3>2. badges[ThisBadge] \in [parses : BOOLEAN, badge : Holder]
      BY <3>1, ElementOfSeq, ConsumerTypes
    <3> QED
      BY <1>3, <3>2, EngineAssumption DEF Holder, Known
  <2>2. /\ registry' \in [Key -> Entry]
        /\ \A k \in Key : registry'[k].gid = registry[k].gid
        /\ \A k \in live : registry[k].person = Nobody =>
             registry'[k].person = p /\ registry'[k].via = "other"
        /\ \A k \in Key : ~(k \in live /\ registry[k].person = Nobody) =>
             registry'[k] = registry[k]
    BY <1>3, <2>1, AnchorEffect
  <2>3. RegistryTypes'
    BY <1>1, <2>2 DEF RegistryInv, RegistryTypes
  <2>4. GidAgrees'
    BY <1>1, <2>2, EngineTypes DEF RegistryInv, GidAgrees
  <2>5. FacesName' /\ Stands
    BY <1>1, <2>1, <2>2, EngineTypes DEF RegistryInv, FacesName, Stands
  <2> QED
    BY <2>3, <2>4, <2>5 DEF RegistryInv
<1> QED
  BY <1>2, <1>3 DEF BadgeHandled

\* Steps the registry has no part in.
LEMMA AsideStep ==
  ASSUME RegistryInv,
         \/ BadgeArrives \/ ReadBadges \/ BadgeEnds \/ BadgeLoopRaises
         \/ FaissChanges \/ Tick \/ UNCHANGED vars
  PROVE  RegistryInv' /\ Stands
<1>1. UNCHANGED <<registry, live, nextGid>>
  BY DEF BadgeArrives, ReadBadges, BadgeEnds, BadgeLoopRaises, LoopEnds, FaissChanges,
         Tick, vars
<1>2. faiss' \in [Vector -> Known] /\ now' \in Nat
  BY EngineTypes
     DEF BadgeArrives, ReadBadges, BadgeEnds, BadgeLoopRaises, LoopEnds, FaissChanges,
         Tick, vars, Known
<1> QED
  BY <1>1, <1>2 DEF RegistryInv, RegistryTypes, GidAgrees, FacesName, Stands

LEMMA RegistryStep ==
  RegistryInv /\ ConsumerInv /\ [Next]_vars => RegistryInv' /\ Stands
BY SeeStep, EvictStep, RestartStep, BadgeStep, AsideStep DEF Next, ConsumeBadges
-----------------------------------------------------------------------------
(***************************************************************************)
(* The BLE consumer: what is behind the cursor has its row, or a cause not *)
(* to have it; what is ahead of it, in the batch or on the stream, has     *)
(* none yet.                                                               *)
(***************************************************************************)
LEMMA InitConsumerInv == Init => ConsumerInv
<1> SUFFICES ASSUME Init
             PROVE  ConsumerInv
  OBVIOUS
<1>1. badges \in Seq([parses : BOOLEAN, badge : Holder]) /\ Len(badges) = 0
  BY EmptySeq DEF Init
<1> QED
  BY <1>1, EngineAssumption DEF Init, ConsumerInv, RowsInv

\* The stream grows at one end and is trimmed at the other.
LEMMA ArriveStep ==
  ASSUME ConsumerInv, BadgeArrives
  PROVE  ConsumerInv'
<1>1. PICK m \in [parses : BOOLEAN, badge : Holder] : badges' = Append(badges, m)
  BY DEF BadgeArrives
<1>2. badges' \in Seq([parses : BOOLEAN, badge : Holder]) /\ Len(badges') = Len(badges) + 1
  BY <1>1, AppendProperties, ConsumerTypes
<1>3. /\ bleLow' \in Nat /\ bleLow <= bleLow' /\ bleLow' <= Len(badges)
      /\ UNCHANGED <<bleLast, bleEnd, bleUp, rows, skipped>> /\ Len(badges) < MaxBadges
  BY ConsumerTypes DEF BadgeArrives
<1>4. RowsInv'
  BY <1>3, ConsumerTypes DEF ConsumerInv, RowsInv
<1> QED
  BY <1>2, <1>3, <1>4, ConsumerTypes DEF ConsumerInv

\* XREAD passes what was trimmed and takes a batch.
LEMMA ReadStep ==
  ASSUME ConsumerInv, ReadBadges
  PROVE  ConsumerInv'
<1>1. /\ bleLast' = Oldest /\ Oldest \in Nat /\ Oldest < Len(badges)
      /\ bleLast <= Oldest /\ (Oldest = bleLast \/ Oldest = bleLow)
      /\ UNCHANGED <<badges, bleLow, bleUp, rows, skipped>>
  BY ConsumerTypes DEF ReadBadges, Oldest
<1>2. bleEnd' \in Nat /\ Oldest <= bleEnd' /\ bleEnd' <= Len(badges)
  <2>1. ReadCount \in Nat \ {0}
    BY EngineAssumption
  <2>2. Len(badges) \in Nat
    BY ConsumerTypes
  <2>3. bleEnd' = IF Oldest + ReadCount < Len(badges) THEN Oldest + ReadCount ELSE Len(badges)
    BY DEF ReadBadges
  <2> QED
    BY <1>1, <2>1, <2>2, <2>3
<1>3. RowsInv'
  BY <1>1, ConsumerTypes DEF ConsumerInv, RowsInv
<1> QED
  BY <1>1, <1>2, <1>3, ConsumerTypes DEF ConsumerInv

\* A handled event has its row now, or is one that has none.
LEMMA HandledStep ==
  ASSUME ConsumerInv, BadgeHandled
  PROVE  ConsumerInv'
<1>1. /\ bleLast' = ThisBadge /\ ThisBadge = bleLast + 1 /\ bleLast < bleEnd
      /\ UNCHANGED <<badges, bleLow, bleEnd, bleUp>>
      /\ StoreRow \/ NoRowStored
  BY DEF BadgeHandled, Turn, ThisBadge
<1>2. ThisBadge \in 1..MaxBadges
  BY <1>1, ConsumerTypes
<1>3. CASE StoreRow
  <2>1. /\ rows' \in [1..MaxBadges -> Nat] /\ skipped' = skipped
        /\ rows'[ThisBadge] = rows[ThisBadge] + 1
        /\ \A n \in 1..MaxBadges : n # ThisBadge => rows'[n] = rows[n]
    BY <1>2, <1>3, ConsumerTypes DEF StoreRow
  <2>2. rows'[ThisBadge] = 1 /\ ThisBadge \notin skipped
    BY <1>1, <1>2, <2>1, ConsumerTypes DEF ConsumerInv, RowsInv
  <2>3. RowsInv'
    BY <1>1, <2>1, <2>2, ConsumerTypes DEF ConsumerInv, RowsInv
  <2> QED
    BY <1>1, <2>1, <2>3, ConsumerTypes DEF ConsumerInv
<1>4. CASE NoRowStored
  <2>1. skipped' = skipped \cup {ThisBadge} /\ rows' = rows
    BY <1>4 DEF NoRowStored
  <2>2. rows[ThisBadge] = 0
    BY <1>1, <1>2, ConsumerTypes DEF ConsumerInv, RowsInv
  <2>3. RowsInv'
    BY <1>1, <2>1, <2>2, ConsumerTypes DEF ConsumerInv, RowsInv
  <2> QED
    BY <1>1, <2>1, <2>3, ConsumerTypes DEF ConsumerInv
<1> QED
  BY <1>1, <1>3, <1>4

LEMMA ConsumerStep == ConsumerInv /\ [Next]_vars => ConsumerInv'
<1> SUFFICES ASSUME ConsumerInv, [Next]_vars
             PROVE  ConsumerInv'
  OBVIOUS
<1>1. CASE See \/ Evict \/ FaissChanges \/ Tick \/ UNCHANGED vars
  <2>1. UNCHANGED consumerVars
    BY <1>1 DEF See, Evict, FaissChanges, Tick, vars
  <2> QED
    BY <2>1 DEF ConsumerInv, RowsInv, consumerVars
<1>2. CASE BadgeEnds \/ BadgeLoopRaises
  <2>1. /\ UNCHANGED <<badges, bleLow, bleLast, bleEnd, rows, skipped>>
        /\ bleUp' = FALSE
    BY <1>2 DEF BadgeEnds, BadgeLoopRaises, LoopEnds
  <2>2. RowsInv'
    BY <2>1 DEF ConsumerInv, RowsInv
  <2> QED
    BY <2>1, <2>2 DEF ConsumerInv
<1>3. CASE Restart
  BY <1>3, ConsumerTypes DEF Restart, ConsumerInv, RowsInv
<1> QED
  BY <1>1, <1>2, <1>3, ArriveStep, ReadStep, HandledStep DEF Next, ConsumeBadges

LEMMA EngineInvariance == Spec => [](RegistryInv /\ ConsumerInv)
<1>1. Init => RegistryInv /\ ConsumerInv
  BY InitRegistryInv, InitConsumerInv
<1>2. RegistryInv /\ ConsumerInv /\ [Next]_vars => RegistryInv' /\ ConsumerInv'
  BY RegistryStep, ConsumerStep
<1> QED
  BY <1>1, <1>2, PTL DEF Spec
-----------------------------------------------------------------------------
\* The tracklets of a gid never name two persons.
THEOREM GidsNameOne == Spec => []OnePersonPerGid
<1>1. RegistryInv /\ ConsumerInv => OnePersonPerGid
  <2> SUFFICES ASSUME RegistryInv, ConsumerInv
               PROVE  TypeOK
    BY DEF RegistryInv, OnePersonPerGid
  <2> QED
    BY ConsumerTypes DEF RegistryInv, RegistryTypes, ConsumerInv, RowsInv, TypeOK, Known
<1> QED
  BY <1>1, EngineInvariance, PTL

\* Each badge event is stored once in a life of the process, and none is passed
\* without a row or a cause.
THEOREM BadgeRowsOnce == Spec => []BadgesStoredOnce
<1>1. ConsumerInv => BadgesStoredOnce
  BY ConsumerTypes DEF ConsumerInv, RowsInv, BadgesStoredOnce
<1> QED
  BY <1>1, EngineInvariance, PTL

\* Badges and bodies do not overrule a face.
THEOREM FacesStand == Spec => FaceIdentityStands
<1>1. RegistryInv /\ ConsumerInv /\ [Next]_vars =>
        [\A k \in live \cap live' :
           registry[k].via = "face" =>
             \/ registry'[k].person = registry[k].person
             \/ /\ registry'[k].via = "face"
                /\ \E v \in Vector : faiss[v] = registry'[k].person]_vars
  BY RegistryStep DEF Stands
<1> QED
  BY <1>1, EngineInvariance, PTL DEF Spec, FaceIdentityStands
-----------------------------------------------------------------------------
(***************************************************************************)
(* Zones: the ray crosses an edge whichever end comes first, so a cut adds *)
(* the same crossing, or none, to both zones; every other edge of the      *)
(* whole is an edge of one of them.                                        *)
(***************************************************************************)
Point == Int \X Int

LEMMA Moved ==
  ASSUME NEW u \in Int, NEW e \in Int, NEW d \in Int
  PROVE  (u - e) * d = u * d - e * d
  BY SMT

LEMMA Reversed ==
  ASSUME NEW u \in Int, NEW d \in Int
  PROVE  u * (-d) = -(u * d) /\ (-u) * d = -(u * d)
  BY SMT

\* An error of at most n times the height moves no product across one farther off.
LEMMA ErrorBound ==
  ASSUME NEW n \in Nat, NEW e \in -n .. n, NEW d \in Nat
  PROVE  /\ n * d \in Nat /\ e * d \in Int
         /\ -(n * d) <= e * d /\ e * d <= n * d
<1>1. (n - e) * d = n * d - e * d /\ (n + e) * d = n * d + e * d
  BY SMT
<1>2. (n - e) * d >= 0 /\ (n + e) * d >= 0
  <2>1. n - e \in Nat /\ n + e \in Nat
    OBVIOUS
  <2>2. \A u, v \in Nat : u * v >= 0
    BY SMT
  <2> QED
    BY <2>1, <2>2
<1>3. n * d \in Nat /\ e * d \in Int
  BY SMT
<1> DEFINE p == n * d
           q == e * d
<1> QED
  <2>1. p - q >= 0 /\ p + q >= 0 /\ p \in Nat /\ q \in Int
    BY <1>1, <1>2, <1>3
  <2> HIDE DEF p, q
  <2>2. -p <= q /\ q <= p
    BY <2>1
  <2> QED
    BY <2>1, <2>2 DEF p, q

\* How far (x, y) is to the right of the line from a to b, times its height.
Off(x, y, a, b) == (x - a[1]) * (b[2] - a[2]) - (b[1] - a[1]) * (y - a[2])
Tall(a, b) == IF b[2] > a[2] THEN b[2] - a[2] ELSE a[2] - b[2]

\* An edge that no error takes across the point is crossed according to its exact
\* course.
LEMMA CrossesExactly ==
  ASSUME NEW x \in Int, NEW y \in Int, NEW a \in Point, NEW b \in Point,
         NEW n \in Nat, NEW e \in -n .. n,
         (a[2] > y) # (b[2] > y) =>
           Off(x, y, a, b) > n * Tall(a, b) \/ -Off(x, y, a, b) > n * Tall(a, b)
  PROVE  Crosses(x, y, a, b, e) <=>
           /\ (a[2] > y) # (b[2] > y)
           /\ IF b[2] > a[2] THEN Off(x, y, a, b) < 0 ELSE Off(x, y, a, b) > 0
<1> DEFINE P == (x - a[1]) * (b[2] - a[2])
           Q == (b[1] - a[1]) * (y - a[2])
           D == b[2] - a[2]
<1>1. /\ a[1] \in Int /\ a[2] \in Int /\ b[1] \in Int /\ b[2] \in Int
      /\ P \in Int /\ Q \in Int /\ D \in Int /\ Off(x, y, a, b) = P - Q
  BY DEF Point, Off
<1>2. CASE (a[2] > y) = (b[2] > y)
  BY <1>2 DEF Crosses
<1>3. CASE (a[2] > y) # (b[2] > y) /\ b[2] > a[2]
  <2>1. D \in Nat /\ Tall(a, b) = D
    BY <1>1, <1>3 DEF Tall
  <2>2. Crosses(x, y, a, b, e) <=> P < Q + e * D
    BY <1>3 DEF Crosses
  <2> HIDE DEF P, Q, D
  <2>3. n * D \in Nat /\ e * D \in Int /\ -(n * D) <= e * D /\ e * D <= n * D
    BY <2>1, ErrorBound
  <2>4. P - Q > n * D \/ -(P - Q) > n * D
    BY <1>1, <1>3, <2>1
  <2> DEFINE N == n * D
             E == e * D
  <2>5. /\ N \in Nat /\ E \in Int /\ -N <= E /\ E <= N
        /\ P - Q > N \/ -(P - Q) > N
    BY <2>3, <2>4
  <2> HIDE DEF N, E
  <2>6. P < Q + E <=> P - Q < 0
    BY <1>1, <2>5
  <2> QED
    BY <1>1, <1>3, <2>2, <2>6 DEF E
<1>4. CASE (a[2] > y) # (b[2] > y) /\ ~(b[2] > a[2])
  <2>1. -D \in Nat /\ Tall(a, b) = -D
    BY <1>1, <1>4 DEF Tall
  <2>2. Crosses(x, y, a, b, e) <=> P > Q + e * D
    BY <1>4 DEF Crosses
  <2>3. e * (-D) = -(e * D)
    BY <1>1, Reversed
  <2> HIDE DEF P, Q, D
  <2> DEFINE T == -D
  <2>4. T \in Nat /\ e * T = -(e * D)
    BY <2>1, <2>3
  <2> HIDE DEF T
  <2>5. n * T \in Nat /\ e * T \in Int /\ -(n * T) <= e * T /\ e * T <= n * T
    BY <2>4, ErrorBound
  <2>6. P - Q > n * T \/ -(P - Q) > n * T
    BY <1>1, <1>4, <2>1 DEF T
  <2> DEFINE N == n * T
             F == e * T
             E == e * D
  <2>7. /\ N \in Nat /\ F \in Int /\ -N <= F /\ F <= N /\ E \in Int /\ F = -E
        /\ P - Q > N \/ -(P - Q) > N
    BY <1>1, <2>4, <2>5, <2>6
  <2> HIDE DEF N, F, E
  <2>8. P > Q + E <=> P - Q > 0
    BY <1>1, <2>7
  <2> QED
    BY <1>1, <1>4, <2>2, <2>8 DEF E
<1> QED
  BY <1>2, <1>3, <1>4

\* The point is as far to the one side of the line as to the other of its reverse.
LEMMA OffReversed ==
  ASSUME NEW x \in Int, NEW y \in Int, NEW a \in Point, NEW b \in Point
  PROVE  /\ Off(x, y, a, b) \in Int /\ Off(x, y, b, a) = -Off(x, y, a, b)
         /\ a[2] # b[2] => Tall(a, b) = Tall(b, a)
<1> DEFINE D == b[2] - a[2]
           E == b[1] - a[1]
           U == x - a[1]
           V == y - a[2]
<1>0. /\ a[1] \in Int /\ a[2] \in Int /\ b[1] \in Int /\ b[2] \in Int
      /\ D \in Int /\ E \in Int /\ U \in Int /\ V \in Int
  BY DEF Point
<1>1. /\ a[2] - b[2] = -D /\ a[1] - b[1] = -E
      /\ x - b[1] = U - E /\ y - b[2] = V - D
  <2>1. \A p, q, o \in Int : p - q = -(q - p) /\ o - q = (o - p) - (q - p) OBVIOUS
  <2> QED BY <2>1, <1>0
<1>2. Off(x, y, a, b) = U * D - E * V
  BY DEF Off
<1>3. Off(x, y, b, a) = (U - E) * (-D) - (-E) * (V - D)
  BY <1>1 DEF Off
<1>4. a[2] # b[2] => Tall(a, b) = Tall(b, a)
  BY <1>0 DEF Tall
<1> HIDE DEF D, E, U, V
<1> DEFINE P == U * D
           Q == E * V
           R == E * D
<1>5. (U - E) * (-D) = R - P
  <2>1. (U - E) * (-D) = -((U - E) * D) BY <1>0, Reversed
  <2>2. (U - E) * D = P - R BY <1>0, Moved
  <2>3. P \in Int /\ R \in Int BY <1>0
  <2> HIDE DEF P, R
  <2> QED BY <2>1, <2>2, <2>3
<1>6. (-E) * (V - D) = R - Q
  <2>1. (-E) * (V - D) = -(E * (V - D)) BY <1>0, Reversed
  <2>2. E * (V - D) = (V - D) * E /\ V * E = Q /\ D * E = R BY <1>0
  <2>3. (V - D) * E = V * E - D * E BY <1>0, Moved
  <2>4. R \in Int /\ Q \in Int BY <1>0
  <2>5. E * (V - D) = Q - R BY <2>2, <2>3
  <2> HIDE DEF R, Q
  <2> QED BY <2>1, <2>4, <2>5
<1>7. P \in Int /\ Q \in Int /\ R \in Int BY <1>0
<1>8. Off(x, y, a, b) = P - Q /\ Off(x, y, b, a) = (R - P) - (R - Q)
  BY <1>2, <1>3, <1>5, <1>6
<1> HIDE DEF P, Q, R
<1> QED
  BY <1>4, <1>7, <1>8

\* Such an edge is crossed whichever end comes first, and whatever the errors.
LEMMA CrossesEitherWay ==
  ASSUME NEW x \in Int, NEW y \in Int, NEW a \in Point, NEW b \in Point,
         NEW n \in Nat, NEW e \in -n .. n, NEW o \in -n .. n,
         (a[2] > y) # (b[2] > y) =>
           Off(x, y, a, b) > n * Tall(a, b) \/ -Off(x, y, a, b) > n * Tall(a, b)
  PROVE  Crosses(x, y, a, b, e) <=> Crosses(x, y, b, a, o)
<1>1. a[2] \in Int /\ b[2] \in Int
  BY DEF Point
<1>2. CASE (a[2] > y) = (b[2] > y)
  BY <1>2 DEF Crosses
<1>3. CASE (a[2] > y) # (b[2] > y)
  <2>1. Tall(a, b) = Tall(b, a) /\ Off(x, y, a, b) \in Int /\ Off(x, y, b, a) = -Off(x, y, a, b)
    BY <1>1, <1>3, OffReversed
  <2>2. Off(x, y, b, a) > n * Tall(b, a) \/ -Off(x, y, b, a) > n * Tall(b, a)
    <3> DEFINE N == n * Tall(a, b)
               M == Off(x, y, a, b)
    <3>1. M > N \/ -M > N
      BY <1>3
    <3>2. n * Tall(b, a) = N /\ Off(x, y, b, a) = -M /\ M \in Int
      BY <2>1
    <3> HIDE DEF N, M
    <3>3. -M > N \/ -(-M) > N
      BY <3>1, <3>2
    <3> QED
      BY <3>2, <3>3
  <2>3. Crosses(x, y, a, b, e) <=> IF b[2] > a[2] THEN Off(x, y, a, b) < 0 ELSE Off(x, y, a, b) > 0
    BY <1>3, CrossesExactly
  <2>4. Crosses(x, y, b, a, o) <=> IF a[2] > b[2] THEN Off(x, y, b, a) < 0 ELSE Off(x, y, b, a) > 0
    BY <1>3, <2>2, CrossesExactly
  <2> QED
    BY <1>1, <1>3, <2>1, <2>3, <2>4
<1> QED
  BY <1>2, <1>3

\* Two sets whose members stand for each other have as many.
LEMMA SameCount ==
  ASSUME NEW S, IsFiniteSet(S), NEW T, NEW g \in [S -> T],
         \A a, b \in S : g[a] = g[b] => a = b,
         \A u \in T : \E a \in S : g[a] = u
  PROVE  IsFiniteSet(T) /\ Cardinality(T) = Cardinality(S)
<1>1. g \in Bijection(S, T) BY Zenon DEF Bijection, Injection, Surjection, IsInjective
<1>2. ExistsBijection(S, T) BY <1>1, Zenon DEF ExistsBijection
<1> QED BY <1>2, FS_Bijection

One(c) == IF c THEN 1 ELSE 0

LEMMA ButOne ==
  ASSUME NEW S, IsFiniteSet(S), NEW e, NEW c \in BOOLEAN, e \in S <=> c
  PROVE  Cardinality(S) = Cardinality(S \ {e}) + One(c) /\ Cardinality(S \ {e}) \in Nat
<1>1. IsFiniteSet(S \ {e}) /\ Cardinality(S \ {e}) = IF e \in S THEN Cardinality(S) - 1
                                                              ELSE Cardinality(S)
  BY FS_RemoveElement
<1>2. Cardinality(S) \in Nat /\ Cardinality(S \ {e}) \in Nat BY <1>1, FS_CardinalityType
<1> QED BY <1>1, <1>2 DEF One

LEMMA Parity ==
  ASSUME NEW m \in Nat, NEW n \in Nat, NEW c \in {0, 1}
  PROVE  (m + n) % 2 = 1 <=> ((m + c) % 2 = 1) # ((n + c) % 2 = 1)
  BY SMT

\* Is edge i of a polygon crossed by the ray, as it is computed?
EdgeCrossed(x, y, a, b) == Crosses(x, y, a, b, ErrorOf(error, a, b))

\* The edges of a polygon that the ray crosses.
Crossed(x, y, p) == {i \in 1..Len(p) : EdgeCrossed(x, y, p[i], p[Before(i, Len(p))])}

LEMMA InPolygonCounts ==
  ASSUME NEW x, NEW y, NEW p
  PROVE  InPolygon(x, y, p, error) <=> Cardinality(Crossed(x, y, p)) % 2 = 1
  BY Zenon DEF InPolygon, Crossed, EdgeCrossed

LEMMA CrossedFinite ==
  ASSUME NEW x, NEW y, NEW p \in Seq(Point)
  PROVE  IsFiniteSet(Crossed(x, y, p))
<1>1. IsFiniteSet(1..Len(p)) BY FS_Interval
<1>2. Crossed(x, y, p) \in SUBSET (1..Len(p)) BY DEF Crossed
<1> QED BY <1>1, <1>2, FS_Subset

\* The points of the two zones.
LEMMA OneSideIs ==
  ASSUME NEW z \in Seq(Point), NEW f \in 1..Len(z), NEW t \in 1..Len(z), f < t
  PROVE  LET s == SubSeq(z, f, t) IN
         /\ s \in Seq(Point) /\ Len(s) = t - f + 1
         /\ \A k \in 1..Len(s) : s[k] = z[f + k - 1]
<1>1. f \in 1..(Len(z) + 1) /\ t \in 0..Len(z) BY LenProperties
<1> QED BY <1>1, SubSeqProperties, LenProperties

LEMMA OtherSideIs ==
  ASSUME NEW z \in Seq(Point), NEW f \in 1..Len(z), NEW t \in 1..Len(z), f < t
  PROVE  LET s == SubSeq(z, 1, f) \o SubSeq(z, t, Len(z)) IN
         /\ s \in Seq(Point) /\ Len(s) = f + Len(z) - t + 1
         /\ \A k \in 1..Len(s) : s[k] = z[IF k <= f THEN k ELSE t + k - f - 1]
<1>1. Len(z) \in Nat BY LenProperties
<1> DEFINE u == SubSeq(z, 1, f)
           v == SubSeq(z, t, Len(z))
<1>2. /\ u \in Seq(Point) /\ Len(u) = f /\ \A k \in 1..f : u[k] = z[k]
  <2>1. 1 \in 1..(Len(z) + 1) /\ f \in 0..Len(z) BY <1>1
  <2> QED BY <2>1, <1>1, SubSeqProperties
<1>3. /\ v \in Seq(Point) /\ Len(v) = Len(z) - t + 1
      /\ \A k \in 1..(Len(z) - t + 1) : v[k] = z[t + k - 1]
  <2>1. t \in 1..(Len(z) + 1) /\ Len(z) \in 0..Len(z) BY <1>1
  <2> QED BY <2>1, <1>1, SubSeqProperties
<1> HIDE DEF u, v
<1>4. /\ u \o v \in Seq(Point) /\ Len(u \o v) = f + Len(z) - t + 1
      /\ \A k \in 1..Len(u \o v) : (u \o v)[k] = IF k <= f THEN u[k] ELSE v[k - f]
  <2>1. /\ u \o v \in Seq(Point) /\ Len(u \o v) = Len(u) + Len(v)
        /\ \A k \in 1..Len(u) + Len(v) : (u \o v)[k] = IF k <= Len(u) THEN u[k]
                                                            ELSE v[k - Len(u)]
    BY <1>2, <1>3, ConcatProperties
  <2>2. Len(u) + Len(v) = f + Len(z) - t + 1 BY <1>1, <1>2, <1>3
  <2> QED BY <2>1, <2>2, <1>2
<1>5. \A k \in 1..Len(u \o v) : (u \o v)[k] = z[IF k <= f THEN k ELSE t + k - f - 1]
  <2> SUFFICES ASSUME NEW k \in 1..Len(u \o v)
               PROVE  (u \o v)[k] = z[IF k <= f THEN k ELSE t + k - f - 1]
    OBVIOUS
  <2>1. k \in 1..(f + Len(z) - t + 1) BY <1>4
  <2>2. CASE k <= f BY <2>1, <2>2, <1>1, <1>2, <1>4
  <2>3. CASE ~(k <= f)
    <3>1. k - f \in 1..(Len(z) - t + 1) /\ t + (k - f) - 1 = t + k - f - 1
      BY <2>1, <2>3, <1>1
    <3> QED BY <3>1, <2>3, <1>3, <1>4
  <2> QED BY <2>2, <2>3
<1> QED BY <1>4, <1>5 DEF u, v

\* A cut gives each edge to one of the two zones, and the cut itself to both.
LEMMA CutCounts ==
  ASSUME NEW x \in Int, NEW y \in Int, NEW z \in Seq(Point),
         NEW f \in 1..Len(z), NEW t \in 1..Len(z), f < t,
         EdgeCrossed(x, y, z[f], z[t]) <=> EdgeCrossed(x, y, z[t], z[f])
  PROVE  \E m, n \in Nat, c \in {0, 1} :
           /\ Cardinality(Crossed(x, y, z)) = m + n
           /\ Cardinality(Crossed(x, y, SubSeq(z, f, t))) = m + c
           /\ Cardinality(Crossed(x, y, SubSeq(z, 1, f) \o SubSeq(z, t, Len(z)))) = n + c
<1> DEFINE N == Len(z)
           s == SubSeq(z, f, t)
           o == SubSeq(z, 1, f) \o SubSeq(z, t, N)
           X == Crossed(x, y, z)
           X1 == {i \in X : f < i /\ i <= t}
           X2 == {i \in X : ~(f < i /\ i <= t)}
           S == Crossed(x, y, s)
           O == Crossed(x, y, o)
           chord == EdgeCrossed(x, y, z[f], z[t])
<1>1. N \in Nat /\ 1 <= f /\ f < t /\ t <= N /\ f \in Nat /\ t \in Nat BY LenProperties
<1>2. /\ s \in Seq(Point) /\ Len(s) = t - f + 1
      /\ \A k \in 1..Len(s) : s[k] = z[f + k - 1]
  BY OneSideIs
<1>3. /\ o \in Seq(Point) /\ Len(o) = f + N - t + 1
      /\ \A k \in 1..Len(o) : o[k] = z[IF k <= f THEN k ELSE t + k - f - 1]
  BY OtherSideIs
<1> HIDE DEF s, o
<1>4. IsFiniteSet(X) /\ IsFiniteSet(S) /\ IsFiniteSet(O)
  BY <1>2, <1>3, CrossedFinite
<1>5. X = {i \in 1..N : EdgeCrossed(x, y, z[i], z[Before(i, N)])} BY DEF Crossed
<1>6. S = {k \in 1..Len(s) : EdgeCrossed(x, y, s[k], s[Before(k, Len(s))])} BY DEF Crossed
<1>7. O = {k \in 1..Len(o) : EdgeCrossed(x, y, o[k], o[Before(k, Len(o))])} BY DEF Crossed
<1> HIDE DEF X, S, O, N
<1>8. Cardinality(X) = Cardinality(X1) + Cardinality(X2)
      /\ Cardinality(X1) \in Nat /\ Cardinality(X2) \in Nat
  <2>1. X1 \in SUBSET X /\ X2 \in SUBSET X /\ X1 \cup X2 = X /\ X1 \cap X2 = {} OBVIOUS
  <2> HIDE DEF X1, X2
  <2>2. IsFiniteSet(X1) /\ IsFiniteSet(X2) BY <2>1, <1>4, FS_Subset
  <2>3. Cardinality(X) = Cardinality(X1) + Cardinality(X2) - Cardinality({})
    BY <2>1, <2>2, FS_Union
  <2>4. Cardinality(X1) \in Nat /\ Cardinality(X2) \in Nat BY <2>2, FS_CardinalityType
  <2>5. Cardinality({}) = 0 BY FS_EmptySet
  <2> QED BY <2>3, <2>4, <2>5
<1>9. Cardinality(S) = Cardinality(X1) + One(chord)
  <2> DEFINE g == [k \in S \ {1} |-> f + k - 1]
  <2>1. \A k \in 2..Len(s) : k \in S <=> (f + k - 1) \in X1
    <3> SUFFICES ASSUME NEW k \in 2..Len(s) PROVE k \in S <=> (f + k - 1) \in X1 OBVIOUS
    <3>1. /\ k \in 1..Len(s) /\ Before(k, Len(s)) = k - 1 /\ k - 1 \in 1..Len(s)
          /\ f + k - 1 \in 1..N /\ Before(f + k - 1, N) = f + (k - 1) - 1
          /\ f < f + k - 1 /\ f + k - 1 <= t
      <4>1. Len(s) = t - f + 1 /\ k \in 2..(t - f + 1) BY <1>2
      <4>2. k \in Int /\ 2 <= k /\ k <= t - f + 1 BY <4>1, <1>1
      <4>3. Before(k, Len(s)) = k - 1 /\ Before(f + k - 1, N) = (f + k - 1) - 1
        BY <4>2, <1>1 DEF Before
      <4>4. k \in 1..(t - f + 1) /\ k - 1 \in 1..(t - f + 1) /\ f + k - 1 \in 1..N
            /\ (f + k - 1) - 1 = f + (k - 1) - 1 /\ f < f + k - 1 /\ f + k - 1 <= t
        BY <4>2, <1>1
      <4> QED BY <4>1, <4>3, <4>4
    <3>2. s[k] = z[f + k - 1] /\ s[k - 1] = z[f + (k - 1) - 1] BY <3>1, <1>2
    <3> QED BY <3>1, <3>2, <1>5, <1>6
  <2>2. 1 \in S <=> chord
    <3>1. 1 \in 1..Len(s) /\ Before(1, Len(s)) = Len(s) /\ Len(s) \in 1..Len(s)
          /\ f + 1 - 1 = f /\ f + Len(s) - 1 = t
      BY <1>1, <1>2 DEF Before
    <3>2. s[1] = z[f] /\ s[Len(s)] = z[t] BY <3>1, <1>2
    <3> QED BY <3>1, <3>2, <1>6
  <2>3. S \ {1} \subseteq 2..Len(s) BY <1>6, <1>2
  <2>4. \A i \in X1 : i - f + 1 \in 2..Len(s) /\ f + (i - f + 1) - 1 = i
    BY <1>1, <1>2, <1>5
  <2>5. g \in [S \ {1} -> X1] BY <2>1, <2>3, Zenon
  <2>6. \A a, b \in S \ {1} : g[a] = g[b] => a = b
    <3> SUFFICES ASSUME NEW a \in S \ {1}, NEW b \in S \ {1}, g[a] = g[b] PROVE a = b
      OBVIOUS
    <3>1. a \in Int /\ b \in Int BY <2>3, <1>1, <1>2
    <3>2. f + a - 1 = f + b - 1 OBVIOUS
    <3> QED BY <3>1, <3>2, <1>1
  <2>7. \A u \in X1 : \E a \in S \ {1} : g[a] = u
    <3> SUFFICES ASSUME NEW u \in X1 PROVE \E a \in S \ {1} : g[a] = u OBVIOUS
    <3>1. u - f + 1 \in 2..Len(s) /\ f + (u - f + 1) - 1 = u BY <2>4
    <3>2. u - f + 1 \in S \ {1} BY <3>1, <2>1
    <3>3. g[u - f + 1] = u BY <3>1, <3>2
    <3> QED BY <3>2, <3>3
  <2>8. IsFiniteSet(S \ {1}) BY <1>4, FS_RemoveElement
  <2> HIDE DEF g, X1
  <2>9. Cardinality(X1) = Cardinality(S \ {1}) BY <2>5, <2>6, <2>7, <2>8, SameCount
  <2>10. chord \in BOOLEAN BY DEF EdgeCrossed, Crosses
  <2> QED BY <2>2, <2>9, <2>10, <1>4, ButOne
<1>10. Cardinality(O) = Cardinality(X2) + One(chord)
  <2> DEFINE e == f + 1
             h(k) == IF k <= f THEN k ELSE t + k - f - 1
             g == [k \in O \ {e} |-> h(k)]
  <2>1. \A k \in (1..Len(o)) \ {e} : k \in O <=> h(k) \in X2
    <3> SUFFICES ASSUME NEW k \in 1..Len(o), k # e PROVE k \in O <=> h(k) \in X2 OBVIOUS
    <3>1. /\ h(k) \in 1..N /\ ~(f < h(k) /\ h(k) <= t)
      BY <1>1, <1>3
    <3>2. Before(k, Len(o)) \in 1..Len(o) /\ h(Before(k, Len(o))) = Before(h(k), N)
      BY <1>1, <1>3 DEF Before
    <3>3. o[k] = z[h(k)] /\ o[Before(k, Len(o))] = z[Before(h(k), N)] BY <3>2, <1>3
    <3> HIDE DEF h
    <3> QED BY <3>1, <3>3, <1>5, <1>7
  <2>2. e \in O <=> chord
    <3>1. e \in 1..Len(o) /\ Before(e, Len(o)) = f /\ f \in 1..Len(o) /\ h(e) = t /\ h(f) = f
      BY <1>1, <1>3 DEF Before
    <3>2. o[e] = z[t] /\ o[f] = z[f] BY <3>1, <1>3
    <3>3. EdgeCrossed(x, y, z[t], z[f]) <=> chord OBVIOUS
    <3> QED BY <3>1, <3>2, <3>3, <1>7
  <2>3. O \ {e} \subseteq (1..Len(o)) \ {e} BY <1>7
  <2>4. \A i \in X2 : LET k == IF i <= f THEN i ELSE i - t + f + 1 IN
                        k \in (1..Len(o)) \ {e} /\ h(k) = i
    BY <1>1, <1>3, <1>5
  <2>5. \A k \in O \ {e} : h(k) \in X2 BY <2>1, <2>3
  <2>6. \A a, b \in (1..Len(o)) \ {e} : h(a) = h(b) => a = b
    BY <1>1, <1>3
  <2> HIDE DEF h, X2, e
  <2>7. g \in [O \ {e} -> X2] BY <2>5
  <2>8. \A a, b \in O \ {e} : g[a] = g[b] => a = b BY <2>3, <2>6
  <2>9. \A u \in X2 : \E a \in O \ {e} : g[a] = u
    <3> SUFFICES ASSUME NEW u \in X2 PROVE \E a \in O \ {e} : g[a] = u OBVIOUS
    <3>1. PICK k \in (1..Len(o)) \ {e} : h(k) = u BY <2>4
    <3>2. k \in O \ {e} BY <3>1, <2>1
    <3> QED BY <3>1, <3>2
  <2>10. IsFiniteSet(O \ {e}) BY <1>4, FS_RemoveElement
  <2> HIDE DEF g
  <2>11. Cardinality(X2) = Cardinality(O \ {e}) BY <2>7, <2>8, <2>9, <2>10, SameCount
  <2>12. chord \in BOOLEAN BY DEF EdgeCrossed, Crosses
  <2> QED BY <2>2, <2>11, <2>12, <1>4, ButOne
<1>11. One(chord) \in {0, 1} BY DEF One
<1> HIDE DEF X1, X2, chord
<1> QED BY <1>8, <1>9, <1>10, <1>11 DEF X, S, O, s, o, N

LEMMA CutZones ==
  ASSUME NEW x \in Int, NEW y \in Int, NEW z \in Seq(Point),
         NEW f \in 1..Len(z), NEW t \in 1..Len(z), f < t,
         EdgeCrossed(x, y, z[f], z[t]) <=> EdgeCrossed(x, y, z[t], z[f])
  PROVE  InPolygon(x, y, z, error) <=>
           InPolygon(x, y, SubSeq(z, f, t), error)
             # InPolygon(x, y, SubSeq(z, 1, f) \o SubSeq(z, t, Len(z)), error)
<1>1. PICK m \in Nat, n \in Nat, c \in {0, 1} :
           /\ Cardinality(Crossed(x, y, z)) = m + n
           /\ Cardinality(Crossed(x, y, SubSeq(z, f, t))) = m + c
           /\ Cardinality(Crossed(x, y, SubSeq(z, 1, f) \o SubSeq(z, t, Len(z)))) = n + c
  BY CutCounts, Zenon
<1>2. (m + n) % 2 = 1 <=> ((m + c) % 2 = 1) # ((n + c) % 2 = 1) BY Parity
<1> DEFINE u == SubSeq(z, f, t)
           v == SubSeq(z, 1, f) \o SubSeq(z, t, Len(z))
<1>3. InPolygon(x, y, z, error) <=> (m + n) % 2 = 1 BY <1>1, InPolygonCounts
<1>4. InPolygon(x, y, u, error) <=> (m + c) % 2 = 1 BY <1>1, InPolygonCounts
<1>5. InPolygon(x, y, v, error) <=> (n + c) % 2 = 1 BY <1>1, InPolygonCounts
<1>6. InPolygon(x, y, u, error) \in BOOLEAN /\ InPolygon(x, y, v, error) \in BOOLEAN BY DEF InPolygon
<1> HIDE DEF u, v
<1>7. InPolygon(x, y, z, error) <=> InPolygon(x, y, u, error) # InPolygon(x, y, v, error)
  BY <1>2, <1>3, <1>4, <1>5, <1>6
<1> QED BY <1>7 DEF u, v

DivisionKept ==
  /\ division \in Division /\ foot \in Foot \X Foot
  /\ error \in [division.inexact -> -Slack .. Slack]

LEMMA CutsShareNothing == DivisionKept => AdjacentZonesShareNothing
<1> DEFINE a == division.zone[division.from]
           b == division.zone[division.to]
<1> SUFFICES ASSUME DivisionKept, Beside(a, b)
             PROVE  LET In(zone) == InPolygon(foot[1], foot[2], zone, error)
                    IN  In(division.zone) <=> In(OneSide(division)) # In(OtherSide(division))
  BY DEF AdjacentZonesShareNothing
<1>1. /\ division.zone \in Seq(Point)
      /\ division.from \in 1..Len(division.zone) /\ division.to \in 1..Len(division.zone)
      /\ division.from < division.to
  BY InputsAssumption DEF DivisionKept, Point
<1>2. foot[1] \in Int /\ foot[2] \in Int /\ Slack \in Nat
  BY InputsAssumption DEF DivisionKept
<1>3. \A p, q : ErrorOf(error, p, q) \in -Slack .. Slack
  <2>1. 0 \in -Slack .. Slack
    BY <1>2
  <2> QED
    BY <2>1 DEF DivisionKept, ErrorOf
<1>4. a \in Point /\ b \in Point
  BY <1>1, ElementOfSeq
<1> HIDE DEF a, b
<1>5. (a[2] > foot[2]) # (b[2] > foot[2]) =>
        \/ Off(foot[1], foot[2], a, b) > Slack * Tall(a, b)
        \/ -Off(foot[1], foot[2], a, b) > Slack * Tall(a, b)
  BY DEF Beside, Off, Tall
<1>6. EdgeCrossed(foot[1], foot[2], a, b) <=> EdgeCrossed(foot[1], foot[2], b, a)
  BY <1>2, <1>3, <1>4, <1>5, CrossesEitherWay DEF EdgeCrossed
<1> DEFINE In(zone) == InPolygon(foot[1], foot[2], zone, error)
<1>7. In(division.zone) <=> In(OneSide(division)) # In(OtherSide(division))
  BY <1>1, <1>2, <1>6, CutZones DEF OneSide, OtherSide, a, b
<1> QED BY <1>7
-----------------------------------------------------------------------------
(***************************************************************************)
(* The gallery: what LastOf leaves of a list that grows, or whose last     *)
(* element is replaced.                                                    *)
(***************************************************************************)
\* l is the end of s, of n elements or all there are.
Ends(l, s, n) ==
  /\ l \in Seq(Nat) /\ Len(l) <= n /\ Len(l) <= Len(s) /\ Len(l) \in {n, Len(s)}
  /\ \A k \in 1..Len(l) : l[k] = s[Len(s) - Len(l) + k]

LEMMA LastOfEnds ==
  ASSUME NEW s \in Seq(Nat), NEW n \in Nat \ {0}
  PROVE  Ends(LastOf(s, n), s, n)
<1>1. Len(s) \in Nat /\ \A k \in Int : Len(s) - Len(s) + k = k BY LenProperties
<1>2. CASE Len(s) <= n BY <1>1, <1>2 DEF LastOf, Ends
<1>3. CASE ~(Len(s) <= n)
  <2> DEFINE a == Len(s) - n + 1
             b == Len(s)
             u == SubSeq(s, a, b)
  <2>1. a \in 1..(Len(s) + 1) /\ b \in 0..Len(s) BY <1>1, <1>3
  <2>2. LastOf(s, n) = u BY <1>3 DEF LastOf
  <2>3. a <= b /\ b - a + 1 = n /\ \A k \in Int : a + k - 1 = Len(s) - n + k
    BY <1>1, <1>3
  <2> HIDE DEF a, b
  <2>4. /\ u \in Seq(Nat) /\ Len(u) = IF a <= b THEN b - a + 1 ELSE 0
        /\ \A k \in 1..(b - a + 1) : u[k] = s[a + k - 1]
    BY <2>1, SubSeqProperties
  <2> HIDE DEF u
  <2>5. u \in Seq(Nat) /\ Len(u) = n /\ \A k \in 1..n : u[k] = s[Len(s) - n + k]
    BY <2>3, <2>4
  <2> QED BY <1>1, <1>3, <2>2, <2>5 DEF Ends
<1> QED BY <1>2, <1>3

LEMMA SameEnds ==
  ASSUME NEW s \in Seq(Nat), NEW n \in Nat \ {0}, NEW l, NEW k, Ends(l, s, n), Ends(k, s, n)
  PROVE  l = k
<1>1. Len(s) \in Nat /\ Len(l) \in Nat /\ Len(k) \in Nat BY LenProperties DEF Ends
<1>2. Len(l) = Len(k) BY <1>1 DEF Ends
<1> QED BY <1>2, SeqEqual DEF Ends

\* A new slot after the last ones is one of the last ones.
LEMMA LastOfOneMore ==
  ASSUME NEW s \in Seq(Nat), NEW v \in Nat, NEW n \in Nat \ {0}
  PROVE  LastOf(Append(LastOf(s, n), v), n) = LastOf(Append(s, v), n)
<1> DEFINE l == LastOf(s, n)
           a == Append(l, v)
           b == Append(s, v)
           p == LastOf(a, n)
<1>1. Ends(l, s, n) BY LastOfEnds
<1> HIDE DEF l
<1>2. l \in Seq(Nat) /\ Len(s) \in Nat /\ Len(l) \in Nat BY <1>1, LenProperties DEF Ends
<1>3. a \in Seq(Nat) /\ Len(a) = Len(l) + 1
      /\ \A k \in 1..(Len(l) + 1) : a[k] = IF k <= Len(l) THEN l[k] ELSE v
  BY <1>2, AppendProperties
<1>4. b \in Seq(Nat) /\ Len(b) = Len(s) + 1
      /\ \A k \in 1..(Len(s) + 1) : b[k] = IF k <= Len(s) THEN s[k] ELSE v
  BY <1>2, AppendProperties
<1> HIDE DEF a, b
<1>5. Ends(p, a, n) BY <1>3, LastOfEnds
<1> HIDE DEF p
<1>6. Ends(p, b, n)
  <2>1. p \in Seq(Nat) /\ Len(p) \in Nat BY <1>5, LenProperties DEF Ends
  <2>2. Len(p) <= n /\ Len(p) <= Len(b) /\ Len(p) \in {n, Len(b)}
    <3>1. Len(p) <= n /\ Len(p) <= Len(l) + 1 /\ Len(p) \in {n, Len(l) + 1}
      BY <1>3, <1>5 DEF Ends
    <3>2. Len(l) <= n /\ Len(l) <= Len(s) /\ Len(l) \in {n, Len(s)} BY <1>1 DEF Ends
    <3>3. Len(b) = Len(s) + 1 BY <1>4
    <3>4. CASE Len(l) = Len(s) BY <3>1, <3>3, <3>4
    <3>5. CASE Len(l) = n BY <3>1, <3>2, <3>3, <3>5, <2>1, <1>2
    <3> QED BY <3>2, <3>4, <3>5
  <2>3. ASSUME NEW k \in 1..Len(p) PROVE p[k] = b[Len(b) - Len(p) + k]
    <3> DEFINE i == Len(a) - Len(p) + k
               j == Len(b) - Len(p) + k
    <3>1. p[k] = a[i] BY <1>5 DEF Ends
    <3>2. i \in 1..(Len(l) + 1) /\ j \in 1..(Len(s) + 1) /\ j = Len(s) - Len(l) + i
          /\ (i <= Len(l) <=> j <= Len(s))
      <4>1. Len(l) <= Len(s) /\ Len(p) <= Len(l) + 1 BY <1>1, <1>3, <1>5 DEF Ends
      <4>2. i = Len(l) + 1 - Len(p) + k /\ j = Len(s) + 1 - Len(p) + k BY <1>3, <1>4
      <4>3. k \in 1..Len(p) OBVIOUS
      <4> HIDE DEF i, j
      <4> QED BY <4>1, <4>2, <4>3, <1>2, <2>1
    <3> HIDE DEF i, j
    <3>3. CASE i <= Len(l)
      <4>1. i \in 1..Len(l) BY <3>2, <3>3, <1>2
      <4>2. l[i] = s[j] BY <4>1, <3>2, <1>1 DEF Ends
      <4> QED BY <4>2, <3>1, <3>2, <3>3, <1>3, <1>4 DEF j
    <3>4. CASE ~(i <= Len(l)) BY <3>1, <3>2, <3>4, <1>3, <1>4 DEF j
    <3> QED BY <3>3, <3>4
  <2> QED BY <2>1, <2>2, <2>3 DEF Ends
<1>7. Ends(LastOf(b, n), b, n) BY <1>4, LastOfEnds
<1>8. p = LastOf(b, n) BY <1>4, <1>6, <1>7, SameEnds
<1> QED BY <1>8 DEF p, a, b, l

\* Replacing the last slot replaces the last of the last ones.
LEMMA LastOfReplaced ==
  ASSUME NEW s \in Seq(Nat), s # <<>>, NEW v \in Nat, NEW n \in Nat \ {0}
  PROVE  ReplaceLast(LastOf(s, n), v) = LastOf([s EXCEPT ![Len(s)] = v], n)
<1> DEFINE l == LastOf(s, n)
           b == [s EXCEPT ![Len(s)] = v]
<1>0. Len(s) \in Nat \ {0} BY EmptySeq
<1>1. Ends(l, s, n) BY LastOfEnds
<1> HIDE DEF l
<1>2. l \in Seq(Nat) /\ Len(l) \in Nat \ {0} BY <1>0, <1>1, LenProperties DEF Ends
<1>3. b \in Seq(Nat) /\ Len(b) = Len(s)
      /\ \A k \in 1..Len(s) : b[k] = IF k = Len(s) THEN v ELSE s[k]
  <2>1. Len(s) \in 1..Len(s) BY <1>0
  <2> QED BY <2>1, ExceptSeq
<1> HIDE DEF b
<1> DEFINE p == [l EXCEPT ![Len(l)] = v]
<1>4. p \in Seq(Nat) /\ Len(p) = Len(l) /\ \A k \in 1..Len(l) : p[k] = IF k = Len(l) THEN v ELSE l[k]
  <2>1. Len(l) \in 1..Len(l) BY <1>2
  <2> QED BY <2>1, <1>2, ExceptSeq
<1>5. ReplaceLast(l, v) = p
  <2>1. l # <<>> BY <1>2, EmptySeq
  <2> QED BY <2>1 DEF ReplaceLast
<1> HIDE DEF p
<1>6. Ends(p, b, n)
  <2>1. \A k \in 1..Len(p) : p[k] = b[Len(b) - Len(p) + k]
    <3> SUFFICES ASSUME NEW k \in 1..Len(p) PROVE p[k] = b[Len(b) - Len(p) + k] OBVIOUS
    <3>1. k \in 1..Len(l) /\ Len(b) - Len(p) + k = Len(s) - Len(l) + k BY <1>3, <1>4
    <3>2. Len(s) - Len(l) + k \in 1..Len(s) /\ (Len(s) - Len(l) + k = Len(s) <=> k = Len(l))
      <4>1. Len(l) <= Len(s) BY <1>1 DEF Ends
      <4>2. k \in Int /\ 1 <= k /\ k <= Len(l) BY <3>1, <1>2
      <4>3. Len(s) - Len(l) + k \in Int /\ 1 <= Len(s) - Len(l) + k
            /\ Len(s) - Len(l) + k <= Len(s) /\ (Len(s) - Len(l) + k = Len(s) <=> k = Len(l))
        <5>1. \A a, c \in Nat, i \in Int : c <= a /\ 1 <= i /\ i <= c =>
                a - c + i \in Int /\ 1 <= a - c + i /\ a - c + i <= a /\ (a - c + i = a <=> i = c)
          OBVIOUS
        <5>2. Len(s) \in Nat /\ Len(l) \in Nat BY <1>0, <1>2
        <5> QED BY <5>1, <5>2, <4>1, <4>2
      <4> QED BY <4>3, <1>0
    <3>3. l[k] = s[Len(s) - Len(l) + k] BY <3>1, <1>1 DEF Ends
    <3> QED BY <3>1, <3>2, <3>3, <1>3, <1>4
  <2> QED BY <2>1, <1>1, <1>3, <1>4 DEF Ends
<1>7. Ends(LastOf(b, n), b, n) BY <1>3, LastOfEnds
<1>8. p = LastOf(b, n) BY <1>3, <1>6, <1>7, SameEnds
<1> QED BY <1>5, <1>8 DEF l, b
-----------------------------------------------------------------------------
(***************************************************************************)
(* The windows opened so far and the best crop of each are kept as a list; *)
(* the gallery is its end.                                                 *)
(***************************************************************************)
CropType == [q : Nat, at : Nat]

\* Crops come in the order of their times.
CropsInTime ==
  /\ crops \in Seq(CropType)
  /\ \A i \in 1..Len(crops) : FirstSeen <= crops[i].at
  /\ \A i, j \in 1..Len(crops) : i <= j => crops[i].at <= crops[j].at

\* b is the first of the best of the crops S among those of cs.
Leads(cs, b, S) ==
  /\ b \in S
  /\ \A j \in S : cs[j].q <= cs[b].q /\ (cs[j].q = cs[b].q => b <= j)

\* The windows opened so far and the best crop of each, which the gallery ends with;
\* the last of them is the window it fills.
Windowed(opened, best) ==
  LET m == Len(best) IN
  /\ best \in Seq(Nat) /\ opened \in [1..m -> 1..Len(crops)] /\ m <= Len(crops)
  /\ Opens(opened)
  /\ \A k \in 1..m : Leads(crops, best[k], CropsOf(opened, k))
  /\ gallery = [slots |-> LastOf(best, Windows.size),
                start |-> IF m = 0 THEN 0 ELSE crops[opened[m]].at,
                best |-> IF m = 0 THEN -1 ELSE crops[best[m]].q]

GalleryInv == CropsInTime /\ \E opened, best : Windowed(opened, best)

LEMMA OneLeads ==
  ASSUME CropsInTime, NEW S, S \subseteq 1..Len(crops), NEW b, Leads(crops, b, S)
  PROVE  FirstBest(S) = b
<1>1. ASSUME NEW j \in S PROVE j \in Nat /\ crops[j].q \in Nat
  <2>1. j \in 1..Len(crops) /\ Len(crops) \in Nat BY LenProperties DEF CropsInTime
  <2>2. crops[j] \in CropType BY <2>1, ElementOfSeq DEF CropsInTime
  <2> QED BY <2>1, <2>2 DEF CropType
<1>2. \A c \in S : (\A j \in S : crops[j].q <= crops[c].q
                                 /\ (crops[j].q = crops[c].q => c <= j)) => c = b
  BY <1>1 DEF Leads
<1> QED BY <1>2 DEF FirstBest, Leads

LEMMA GalleryIsBest == GalleryInv => GalleryKeepsBest
<1> SUFFICES ASSUME CropsInTime, NEW opened, NEW best, Windowed(opened, best)
             PROVE  GalleryKeepsBest
  BY DEF GalleryInv
<1> DEFINE m == Len(best)
<1>1. best \in Seq(Nat) /\ m \in Nat /\ Len(crops) \in Nat /\ m \in 0..Len(crops)
  BY LenProperties DEF Windowed, CropsInTime
<1>2. opened \in [1..m -> 1..Len(crops)] BY DEF Windowed
<1>3. \A k \in 1..m : FirstBest(CropsOf(opened, k)) = best[k]
  <2> SUFFICES ASSUME NEW k \in 1..m PROVE FirstBest(CropsOf(opened, k)) = best[k] OBVIOUS
  <2>1. CropsOf(opened, k) \subseteq 1..Len(crops) BY <1>1, <1>2 DEF CropsOf
  <2>2. Leads(crops, best[k], CropsOf(opened, k)) BY DEF Windowed
  <2> QED BY <2>1, <2>2, OneLeads
<1>4. best = [k \in 1..m |-> best[k]] BY <1>1
<1>5. [k \in 1..m |-> FirstBest(CropsOf(opened, k))] = best BY <1>3, <1>4
<1>6. Opens(opened) /\ gallery.slots = LastOf(best, Windows.size) BY DEF Windowed
<1> QED BY <1>1, <1>2, <1>5, <1>6, Zenon DEF GalleryKeepsBest

LEMMA InitGalleryInv == GalleryInit => GalleryInv
<1> SUFFICES ASSUME GalleryInit PROVE GalleryInv OBVIOUS
<1>1. crops = <<>> /\ Len(crops) = 0 /\ gallery = EmptyGallery BY EmptySeq DEF GalleryInit
<1>2. crops \in Seq(CropType) BY <1>1
<1>3. CropsInTime BY <1>1, <1>2 DEF CropsInTime
<1> DEFINE none == [k \in 1..0 |-> 0]
<1>4. none = <<>> OBVIOUS
<1>5. none \in [1..0 -> 1..Len(crops)] OBVIOUS
<1>6. <<>> \in Seq(Nat) /\ Len(<<>>) = 0 OBVIOUS
<1>7. Opens(<<>>) BY <1>1 DEF Opens
<1>8. LastOf(<<>>, Windows.size) = <<>>
  <2>1. Windows.size \in Nat BY InputsAssumption
  <2> QED BY <2>1, <1>6 DEF LastOf
<1>9. Windowed(<<>>, <<>>) BY <1>1, <1>4, <1>5, <1>6, <1>7, <1>8 DEF Windowed, EmptyGallery
<1> QED BY <1>3, <1>9 DEF GalleryInv

LEMMA CropAdded ==
  ASSUME CropsInTime, NEW q \in Grade, NEW pause \in Pause, AddCrop(q, pause)
  PROVE  LET N == Len(crops)
             time == LastTime + pause
         IN  /\ N \in Nat /\ q \in Nat /\ time \in Nat /\ FirstSeen <= time
             /\ \A i \in 1..N : crops[i] \in CropType /\ crops[i].at <= time
             /\ Len(crops') = N + 1
             /\ \A i \in 1..N : crops'[i] = crops[i]
             /\ crops'[N + 1] = [q |-> q, at |-> time]
             /\ CropsInTime'
<1> DEFINE N == Len(crops)
           time == LastTime + pause
           c == [q |-> q, at |-> time]
<1>1. N \in Nat /\ \A i \in 1..N : crops[i] \in CropType
  BY LenProperties, ElementOfSeq DEF CropsInTime
<1>2. q \in Nat /\ pause \in Nat /\ FirstSeen \in Nat BY InputsAssumption
<1>3. LastTime \in Nat /\ FirstSeen <= LastTime /\ \A i \in 1..N : crops[i].at <= LastTime
  <2>1. CASE crops = <<>>
    <3>1. LastTime = FirstSeen /\ N = 0 BY <2>1, EmptySeq DEF LastTime
    <3> QED BY <3>1, <1>2
  <2>2. CASE crops # <<>>
    <3>1. N \in 1..N BY <2>2, <1>1, EmptySeq DEF CropsInTime
    <3>2. LastTime = crops[N].at BY <2>2 DEF LastTime
    <3> QED BY <3>1, <3>2, <1>1 DEF CropsInTime, CropType
  <2> QED BY <2>1, <2>2
<1>4. time \in Nat /\ FirstSeen <= time /\ \A i \in 1..N : crops[i].at <= time
  <2>1. \A i \in 1..N : crops[i].at \in Nat BY <1>1 DEF CropType
  <2> QED BY <2>1, <1>2, <1>3
<1> HIDE DEF time
<1>5. c \in CropType BY <1>2, <1>4 DEF CropType
<1>6. crops' = Append(crops, c) BY DEF AddCrop, time
<1> HIDE DEF c
<1>7. /\ crops' \in Seq(CropType) /\ Len(crops') = N + 1
      /\ \A i \in 1..(N + 1) : crops'[i] = IF i <= N THEN crops[i] ELSE c
  BY <1>5, <1>6, <1>1, AppendProperties DEF CropsInTime
<1>8. (\A i \in 1..N : crops'[i] = crops[i]) /\ crops'[N + 1] = c BY <1>1, <1>7
<1>9. CropsInTime'
  <2>1. FirstSeen' = FirstSeen BY Zenon
  <2>2. \A i \in 1..(N + 1) : i \in 1..N \/ i = N + 1 BY <1>1
  <2>3. c.at = time BY DEF c
  <2>4. \A i \in 1..(N + 1) : FirstSeen <= crops'[i].at
    BY <2>2, <2>3, <1>4, <1>8 DEF CropsInTime
  <2>5. ASSUME NEW i \in 1..(N + 1), NEW j \in 1..(N + 1), i <= j
        PROVE  crops'[i].at <= crops'[j].at
    <3>1. CASE j \in 1..N
      <4>1. i \in 1..N BY <3>1, <2>5, <1>1
      <4> QED BY <4>1, <3>1, <2>5, <1>8 DEF CropsInTime
    <3>2. CASE j = N + 1 /\ i \in 1..N BY <3>2, <2>3, <1>4, <1>8
    <3>3. CASE j = N + 1 /\ i = N + 1 BY <3>3, <2>3, <1>4, <1>8
    <3> QED BY <3>1, <3>2, <3>3, <2>2
  <2> QED BY <2>1, <2>4, <2>5, <1>7 DEF CropsInTime
<1> QED BY <1>1, <1>2, <1>4, <1>7, <1>8, <1>9 DEF c, time

\* What a list of windows says of the best crops and of the gallery.
LEMMA WindowedFacts ==
  ASSUME CropsInTime, NEW opened, NEW best, Windowed(opened, best)
  PROVE  LET m == Len(best) IN
         /\ m \in Nat /\ best \in Seq(Nat) /\ opened \in [1..m -> 1..Len(crops)]
         /\ \A k \in 1..m : best[k] \in CropsOf(opened, k) /\ CropsOf(opened, k) \subseteq 1..Len(crops)
         /\ m > 0 => /\ gallery.start = crops[opened[m]].at
                     /\ gallery.best = crops[best[m]].q
                     /\ Windows.floor <= gallery.best
         /\ m = 0 => gallery.start = 0
<1> DEFINE m == Len(best)
           N == Len(crops)
<1>1. m \in Nat /\ best \in Seq(Nat) /\ opened \in [1..m -> 1..N] /\ N \in Nat
  BY LenProperties DEF Windowed, CropsInTime
<1>2. \A k \in 1..m : CropsOf(opened, k) \subseteq 1..N BY <1>1 DEF CropsOf
<1>3. \A k \in 1..m : best[k] \in CropsOf(opened, k) BY DEF Windowed, Leads
<1>4. (m > 0 => gallery.start = crops[opened[m]].at /\ gallery.best = crops[best[m]].q)
      /\ (m = 0 => gallery.start = 0)
  BY <1>1 DEF Windowed
<1>5. ASSUME m > 0 PROVE Windows.floor <= crops[best[m]].q
  <2>1. m \in 1..m /\ opened[m] \in 1..N /\ m + 1 \notin 1..m BY <1>1, <1>5
  <2>2. opened[m] \in CropsOf(opened, m) BY <2>1, <1>1 DEF CropsOf
  <2>3. crops[opened[m]].q <= crops[best[m]].q BY <2>1, <2>2 DEF Windowed, Leads
  <2>4. crops[opened[m]].q >= Windows.floor BY <2>1, <1>1 DEF Windowed, Opens
  <2>5. best[m] \in 1..N BY <2>1, <1>2, <1>3
  <2>6. crops[opened[m]] \in CropType /\ crops[best[m]] \in CropType
    BY <2>1, <2>5, ElementOfSeq DEF CropsInTime
  <2>7. Windows.floor \in Nat BY InputsAssumption
  <2> QED BY <2>3, <2>4, <2>6, <2>7 DEF CropType
<1> QED BY <1>1, <1>2, <1>3, <1>4, <1>5

\* A crop that opens no window: it is not good enough, or the last window is open.
LEMMA NoWindowOpens ==
  ASSUME CropsInTime, NEW opened, NEW best, Windowed(opened, best),
         NEW q \in Grade, NEW pause \in Pause, AddCrop(q, pause),
         q < Windows.floor \/ (LastTime + pause) - gallery.start < Windows.window
  PROVE  /\ Opens(opened)'
         /\ \A k \in 1..Len(best) :
              CropsOf(opened, k)' = IF k = Len(best) THEN CropsOf(opened, k) \cup {Len(crops) + 1}
                                                     ELSE CropsOf(opened, k)
         /\ q >= Windows.floor => Len(best) > 0
<1> DEFINE m == Len(best)
           N == Len(crops)
           time == LastTime + pause
<1>1. /\ N \in Nat /\ q \in Nat /\ time \in Nat /\ FirstSeen <= time
      /\ \A i \in 1..N : crops[i] \in CropType
      /\ Len(crops') = N + 1 /\ \A i \in 1..N : crops'[i] = crops[i]
      /\ crops'[N + 1] = [q |-> q, at |-> time]
  BY CropAdded
<1>2. DOMAIN crops = 1..N /\ DOMAIN crops' = 1..(N + 1)
  <2>1. crops \in Seq(CropType) /\ crops' \in Seq(CropType) BY CropAdded DEF CropsInTime
  <2> QED BY <2>1, <1>1, LenProperties
<1>3. /\ m \in Nat /\ opened \in [1..m -> 1..N]
      /\ m > 0 => gallery.start = crops[opened[m]].at
      /\ m = 0 => gallery.start = 0
  BY WindowedFacts
<1>4. Windows.floor \in Nat /\ Windows.window \in Nat /\ Windows.window <= FirstSeen
      /\ FirstSeen \in Nat
  BY InputsAssumption
<1>5. q < Windows.floor \/ time - gallery.start < Windows.window OBVIOUS
<1> HIDE DEF time, N, m
<1>6. q >= Windows.floor => m > 0 /\ time - crops[opened[m]].at < Windows.window
  BY <1>1, <1>3, <1>4, <1>5
<1>7. Opens(opened)'
  <2>0. Opens(opened) BY DEF Windowed
  <2>1. \A k \in 1..m : opened[k] \in 1..N /\ opened[k] # N + 1 /\ opened[k] < N + 1
    BY <1>1, <1>3
  <2>2. \A k, l \in DOMAIN opened : k < l => opened[k] < opened[l] BY <2>0 DEF Opens
  <2>3. ASSUME NEW i \in 1..N
        PROVE  (\E k \in 1..m : opened[k] = i) <=>
                 /\ crops'[i].q >= Windows.floor
                 /\ \A k \in 1..m : opened[k] < i =>
                      crops'[i].at - crops'[opened[k]].at >= Windows.window
    <3>1. (\E k \in 1..m : opened[k] = i) <=>
            /\ crops[i].q >= Windows.floor
            /\ \A k \in 1..m : opened[k] < i =>
                 crops[i].at - crops[opened[k]].at >= Windows.window
      BY <2>0, <1>2, <1>3 DEF Opens
    <3> QED BY <3>1, <2>1, <1>1
  <2>4. ~\E k \in 1..m : opened[k] = N + 1 BY <2>1
  <2>5. ~ /\ crops'[N + 1].q >= Windows.floor
          /\ \A k \in 1..m : opened[k] < N + 1 =>
               crops'[N + 1].at - crops'[opened[k]].at >= Windows.window
    <3> SUFFICES ASSUME q >= Windows.floor
                 PROVE  \E k \in 1..m : opened[k] < N + 1
                          /\ ~(time - crops'[opened[k]].at >= Windows.window)
      BY <1>1
    <3>1. m \in 1..m /\ time - crops[opened[m]].at < Windows.window BY <1>3, <1>6
    <3>2. opened[m] \in 1..N BY <3>1, <2>1
    <3>3. crops'[opened[m]] = crops[opened[m]] /\ crops[opened[m]].at \in Nat
      BY <3>2, <1>1 DEF CropType
    <3>4. ~(time - crops'[opened[m]].at >= Windows.window)
      BY <3>1, <3>3, <1>1, <1>4
    <3>5. opened[m] < N + 1 BY <3>1, <2>1
    <3> QED BY <3>1, <3>4, <3>5
  <2>6. \A i \in 1..(N + 1) : i \in 1..N \/ i = N + 1 BY <1>1
  <2>7. DOMAIN opened = 1..m BY <1>3
  <2>8. \A i \in 1..(N + 1) :
          (\E k \in 1..m : opened[k] = i) <=>
            /\ crops'[i].q >= Windows.floor
            /\ \A k \in 1..m : opened[k] < i =>
                 crops'[i].at - crops'[opened[k]].at >= Windows.window
    BY <2>3, <2>4, <2>5, <2>6, Zenon
  <2> QED BY <2>2, <2>7, <2>8, <1>2, Zenon DEF Opens
<1>8. ASSUME NEW k \in 1..m
      PROVE  CropsOf(opened, k)' = IF k = m THEN CropsOf(opened, k) \cup {N + 1}
                                            ELSE CropsOf(opened, k)
  <2>1. CropsOf(opened, k)' = {j \in opened[k]..(N + 1) : k + 1 \in DOMAIN opened => j < opened[k + 1]}
    BY <1>1 DEF CropsOf
  <2>2. CropsOf(opened, k) = {j \in opened[k]..N : k + 1 \in DOMAIN opened => j < opened[k + 1]}
    BY DEF CropsOf, N
  <2>3. opened[k] \in 1..N /\ (k + 1 \in DOMAIN opened => opened[k + 1] \in 1..N)
        /\ (k + 1 \in DOMAIN opened <=> k # m)
    BY <1>3
  <2> HIDE DEF CropsOf
  <2>4. CASE k = m BY <2>1, <2>2, <2>3, <2>4, <1>1
  <2>5. CASE k # m BY <2>1, <2>2, <2>3, <2>5, <1>1
  <2> QED BY <2>4, <2>5
<1> QED BY <1>6, <1>7, <1>8 DEF N, m

\* What leads older crops still does.
LEMMA LeadsOn ==
  ASSUME CropsInTime, NEW q \in Grade, NEW pause \in Pause, AddCrop(q, pause),
         NEW S, S \subseteq 1..Len(crops), NEW b, Leads(crops, b, S)
  PROVE  Leads(crops', b, S)
<1>1. \A i \in 1..Len(crops) : crops'[i] = crops[i] BY CropAdded
<1>2. b \in S BY DEF Leads
<1>3. \A j \in S \cup {b} : crops'[j] = crops[j] BY <1>1, <1>2
<1> QED BY <1>2, <1>3 DEF Leads

LEMMA AdmittedIs ==
  ASSUME NEW q \in Grade, NEW pause \in Pause, AddCrop(q, pause), gallery.start \in Nat,
         gallery.best \in Int, LastTime + pause \in Nat
  PROVE  LET time == LastTime + pause
             v == Len(crops) + 1
             in == time - gallery.start < Windows.window
         IN  /\ q < Windows.floor => gallery' = gallery
             /\ q >= Windows.floor /\ in /\ q <= gallery.best => gallery' = gallery
             /\ q >= Windows.floor /\ in /\ q > gallery.best =>
                  gallery' = [gallery EXCEPT !.slots = ReplaceLast(gallery.slots, v), !.best = q]
             /\ q >= Windows.floor /\ ~in =>
                  gallery' = [slots |-> LastOf(Append(gallery.slots, v), Windows.size),
                              start |-> time, best |-> q]
<1>1. q \in Nat /\ Windows.floor \in Nat /\ Windows.window \in Nat BY InputsAssumption
<1> QED BY <1>1 DEF AddCrop, Admit

LEMMA AddCropStep ==
  ASSUME GalleryInv, NEW q \in Grade, NEW pause \in Pause, AddCrop(q, pause)
  PROVE  GalleryInv'
<1> DEFINE N == Len(crops)
           time == LastTime + pause
           size == Windows.size
           window == Windows.window
           floor == Windows.floor
<1>0. CropsInTime BY DEF GalleryInv
<1>1. /\ N \in Nat /\ q \in Nat /\ time \in Nat /\ FirstSeen <= time
      /\ \A i \in 1..N : crops[i] \in CropType /\ crops[i].at <= time
      /\ Len(crops') = N + 1 /\ \A i \in 1..N : crops'[i] = crops[i]
      /\ crops'[N + 1] = [q |-> q, at |-> time]
      /\ CropsInTime'
  BY <1>0, CropAdded
<1>2. size \in Nat \ {0} /\ window \in Nat /\ floor \in Nat /\ window <= FirstSeen
      /\ FirstSeen \in Nat
  BY InputsAssumption
<1>3. PICK opened, best : Windowed(opened, best) BY DEF GalleryInv
<1> DEFINE m == Len(best)
           in == time - gallery.start < window
<1>4. /\ m \in Nat /\ best \in Seq(Nat) /\ opened \in [1..m -> 1..N]
      /\ \A k \in 1..m : best[k] \in CropsOf(opened, k) /\ CropsOf(opened, k) \subseteq 1..N
      /\ m > 0 => /\ gallery.start = crops[opened[m]].at
                  /\ gallery.best = crops[best[m]].q
                  /\ floor <= gallery.best
      /\ m = 0 => gallery.start = 0
  BY <1>0, <1>3, WindowedFacts
<1>5. \A k \in 1..m : Leads(crops, best[k], CropsOf(opened, k)) /\ best[k] \in 1..N /\ opened[k] \in 1..N
  BY <1>3, <1>4 DEF Windowed
<1>6. Opens(opened) /\ m <= N
      /\ gallery = [slots |-> LastOf(best, size), start |-> IF m = 0 THEN 0 ELSE crops[opened[m]].at,
                    best |-> IF m = 0 THEN -1 ELSE crops[best[m]].q]
  BY <1>3 DEF Windowed
<1>7. gallery.start \in Nat /\ gallery.best \in Int
  <2>1. CASE m = 0 BY <2>1, <1>6
  <2>2. CASE m # 0
    <3>1. opened[m] \in 1..N /\ best[m] \in 1..N BY <2>2, <1>4, <1>5
    <3> QED BY <3>1, <2>2, <1>1, <1>4 DEF CropType
  <2> QED BY <2>1, <2>2
<1>8. /\ q < floor => gallery' = gallery
      /\ q >= floor /\ in /\ q <= gallery.best => gallery' = gallery
      /\ q >= floor /\ in /\ q > gallery.best =>
           gallery' = [gallery EXCEPT !.slots = ReplaceLast(gallery.slots, N + 1), !.best = q]
      /\ q >= floor /\ ~in =>
           gallery' = [slots |-> LastOf(Append(gallery.slots, N + 1), size),
                       start |-> time, best |-> q]
  BY <1>1, <1>7, AdmittedIs
<1>9. ASSUME NEW o, NEW b, Windowed(o, b)' PROVE GalleryInv' BY <1>1, <1>9 DEF GalleryInv
<1> HIDE DEF N, time, m, in, size, window, floor
\* The crop opens no window.
<1>10. ASSUME q < floor \/ in PROVE GalleryInv'
  <2>1. /\ Opens(opened)'
        /\ \A k \in 1..m : CropsOf(opened, k)' = IF k = m THEN CropsOf(opened, k) \cup {N + 1}
                                                          ELSE CropsOf(opened, k)
        /\ q >= floor => m > 0
    <3>1. q < Windows.floor \/ (LastTime + pause) - gallery.start < Windows.window
      BY <1>10 DEF in, time, window, floor
    <3> QED BY <3>1, <1>0, <1>3, NoWindowOpens DEF m, N, floor
  <2>2. opened \in [1..m -> 1..Len(crops')] /\ m <= Len(crops')
    BY <1>1, <1>4, <1>6
  <2>3. \A k \in 1..m : CropsOf(opened, k) \subseteq 1..Len(crops)
    BY <1>4 DEF N
  <2>4. ASSUME NEW k \in 1..m PROVE Leads(crops', best[k], CropsOf(opened, k))
    <3> DEFINE S == CropsOf(opened, k)
    <3>1. Leads(crops, best[k], S) /\ S \subseteq 1..Len(crops) BY <1>5, <2>3
    <3> HIDE DEF S
    <3>2. Leads(crops', best[k], S) BY <3>1, <1>0, LeadsOn
    <3> QED BY <3>2 DEF S
  <2>5. ASSUME NEW k \in 1..m, k # m PROVE Leads(crops', best[k], CropsOf(opened, k)')
    BY <2>1, <2>4, <2>5
  <2>6. m > 0 => m \in 1..m /\ best[m] \in 1..N /\ opened[m] \in 1..N
                 /\ crops'[opened[m]] = crops[opened[m]]
    BY <1>1, <1>4, <1>5
  <2>7. \A k \in 1..m : k = m => m > 0 BY <1>4
  \* It is not better than the best of the last window.
  <2>8. CASE q < floor \/ q <= gallery.best
    <3>1. gallery' = gallery BY <2>8, <1>8, <1>10, <1>1, <1>2
    <3>2. ASSUME m > 0 PROVE Leads(crops', best[m], CropsOf(opened, m)')
      <4>1. CropsOf(opened, m)' = CropsOf(opened, m) \cup {N + 1} BY <2>1, <2>6, <3>2
      <4>2. Leads(crops', best[m], CropsOf(opened, m)) BY <2>4, <2>6, <3>2
      <4>3. crops'[best[m]].q = gallery.best /\ best[m] < N + 1 /\ best[m] \in Nat
        BY <2>6, <3>2, <1>1, <1>4
      <4>4. q <= gallery.best BY <2>8, <3>2, <1>1, <1>2, <1>4, <1>7
      <4>5. crops'[N + 1].q = q BY <1>1
      <4> QED BY <4>1, <4>2, <4>3, <4>4, <4>5, <1>1, <1>7 DEF Leads
    <3>3. \A k \in 1..m : Leads(crops', best[k], CropsOf(opened, k)') BY <2>5, <2>7, <3>2
    <3>4. gallery' = [slots |-> LastOf(best, size),
                      start |-> IF m = 0 THEN 0 ELSE crops'[opened[m]].at,
                      best |-> IF m = 0 THEN -1 ELSE crops'[best[m]].q]
      <4>1. m # 0 => crops'[opened[m]] = crops[opened[m]] /\ crops'[best[m]] = crops[best[m]]
        BY <2>6, <1>1, <1>4
      <4> QED BY <4>1, <3>1, <1>6
    <3>5. Windowed(opened, best)'
      BY <1>4, <2>1, <2>2, <3>3, <3>4 DEF Windowed, m, size
    <3> QED BY <3>5, <1>9
  \* It takes the place of the best of the last window.
  <2>9. CASE q >= floor /\ q > gallery.best
    <3>b. PICK b : b = [best EXCEPT ![m] = N + 1] OBVIOUS
    <3>0. m > 0 /\ m \in 1..m BY <2>1, <2>6, <2>9
    <3>1. gallery' = [gallery EXCEPT !.slots = ReplaceLast(gallery.slots, N + 1), !.best = q]
      BY <2>9, <1>8, <1>10, <1>1, <1>2
    <3>2. b \in Seq(Nat) /\ Len(b) = m /\ \A k \in 1..m : b[k] = IF k = m THEN N + 1 ELSE best[k]
      <4>1. N + 1 \in Nat /\ m = Len(best) BY <1>1 DEF m
      <4> QED BY <4>1, <3>0, <3>b, <1>4, ExceptSeq
    <3>3. ReplaceLast(gallery.slots, N + 1) = LastOf(b, size)
      <4>1. best # <<>> BY <3>0, EmptySeq DEF m
      <4>2. gallery.slots = LastOf(best, size) BY <1>6
      <4>3. ReplaceLast(LastOf(best, size), N + 1) = LastOf([best EXCEPT ![Len(best)] = N + 1], size)
        <5>1. best \in Seq(Nat) /\ N + 1 \in Nat BY <1>1, <1>4
        <5> QED BY <5>1, <4>1, <1>2, LastOfReplaced
      <4> QED BY <4>2, <4>3, <3>b DEF m
    <3>4. Leads(crops', N + 1, CropsOf(opened, m)')
      <4>1. CropsOf(opened, m)' = CropsOf(opened, m) \cup {N + 1} BY <2>1, <3>0
      <4>2. Leads(crops, best[m], CropsOf(opened, m)) /\ CropsOf(opened, m) \subseteq 1..N
        BY <1>4, <1>5, <3>0
      <4>3. crops[best[m]].q = gallery.best BY <1>4, <3>0
      <4>4. ASSUME NEW j \in CropsOf(opened, m) PROVE crops'[j].q < q
        <5>1. crops'[j] = crops[j] /\ crops[j] \in CropType BY <4>2, <1>1
        <5>2. crops[j].q <= gallery.best BY <4>2, <4>3 DEF Leads
        <5> QED BY <5>1, <5>2, <2>9, <1>1, <1>7 DEF CropType
      <4>5. crops'[N + 1].q = q BY <1>1
      <4>6. \A j \in CropsOf(opened, m) : crops'[j].q \in Nat
        BY <4>2, <1>1 DEF CropType
      <4> QED BY <4>1, <4>4, <4>5, <4>6, <1>1 DEF Leads
    <3>5. \A k \in 1..m : Leads(crops', b[k], CropsOf(opened, k)')
      BY <2>5, <3>2, <3>4
    <3>6. gallery' = [slots |-> LastOf(b, size), start |-> IF m = 0 THEN 0 ELSE crops'[opened[m]].at,
                      best |-> IF m = 0 THEN -1 ELSE crops'[b[m]].q]
      <4>1. crops'[opened[m]] = crops[opened[m]] /\ crops'[b[m]].q = q
        BY <2>6, <3>0, <3>2, <1>1
      <4>2. m # 0 BY <3>0
      <4> QED BY <4>1, <4>2, <3>1, <3>3, <1>6
    <3>7. Windowed(opened, b)'
      BY <1>4, <2>1, <2>2, <3>2, <3>5, <3>6 DEF Windowed, size
    <3> QED BY <3>7, <1>9
  <2> QED BY <2>8, <2>9, <1>1, <1>2, <1>7
\* The crop opens a window.
<1>11. ASSUME q >= floor, ~in PROVE GalleryInv'
  <2>b. PICK b : b = Append(best, N + 1) OBVIOUS
  <2>o. PICK o : o = [k \in 1..(m + 1) |-> IF k = m + 1 THEN N + 1 ELSE opened[k]] OBVIOUS
  <2>1. b \in Seq(Nat) /\ Len(b) = m + 1
        /\ \A k \in 1..(m + 1) : b[k] = IF k <= m THEN best[k] ELSE N + 1
    <3>1. N + 1 \in Nat /\ m = Len(best) BY <1>1 DEF m
    <3> QED BY <3>1, <2>b, <1>4, AppendProperties
  <2>2. o \in [1..(m + 1) -> 1..(N + 1)]
    <3>1. \A k \in 1..(m + 1) : (IF k = m + 1 THEN N + 1 ELSE opened[k]) \in 1..(N + 1)
      BY <1>1, <1>4, <1>5
    <3> QED BY <3>1, <2>o
  <2>3. o[m + 1] = N + 1 /\ \A k \in 1..m : o[k] = opened[k] BY <1>4, <2>o
  <2>4. gallery' = [slots |-> LastOf(b, size), start |-> time, best |-> q]
    <3>1. gallery.slots = LastOf(best, size) BY <1>6
    <3>2. LastOf(Append(LastOf(best, size), N + 1), size) = LastOf(Append(best, N + 1), size)
      BY <1>1, <1>2, <1>4, LastOfOneMore
    <3> QED BY <3>1, <3>2, <2>b, <1>8, <1>11
  <2>5. DOMAIN crops = 1..N /\ DOMAIN crops' = 1..(N + 1) /\ DOMAIN opened = 1..m
        /\ DOMAIN o = 1..(m + 1)
    <3>1. crops \in Seq(CropType) /\ crops' \in Seq(CropType) BY <1>0, <1>1 DEF CropsInTime
    <3> QED BY <3>1, <1>1, <1>4, <2>2, LenProperties DEF N
  <2>6. \A k \in 1..(m + 1) : k \in 1..m \/ k = m + 1 BY <1>4
  <2>7. \A i \in 1..(N + 1) : i \in 1..N \/ i = N + 1 BY <1>1
  <2>8. \A k, l \in 1..m : k < l => opened[k] < opened[l] BY <1>6, <2>5 DEF Opens
  <2>9. Opens(o)'
    <3>1. ASSUME NEW k \in 1..(m + 1), NEW l \in 1..(m + 1), k < l PROVE o[k] < o[l]
      <4>1. k \in 1..m BY <3>1, <1>4
      <4>2. CASE l \in 1..m BY <4>1, <4>2, <3>1, <2>3, <2>8
      <4>3. CASE l = m + 1 BY <4>1, <4>3, <2>3, <1>1, <1>5
      <4> QED BY <4>2, <4>3, <2>6
    <3>2. ASSUME NEW i \in 1..N
          PROVE  (\E k \in 1..(m + 1) : o[k] = i) <=>
                   /\ crops'[i].q >= floor
                   /\ \A k \in 1..(m + 1) : o[k] < i => crops'[i].at - crops'[o[k]].at >= window
      <4>1. (\E k \in 1..m : opened[k] = i) <=>
              /\ crops[i].q >= floor
              /\ \A k \in 1..m : opened[k] < i => crops[i].at - crops[opened[k]].at >= window
        BY <1>6, <2>5 DEF Opens, floor, window
      <4>2. ~(o[m + 1] = i) /\ ~(o[m + 1] < i) BY <2>3, <1>1
      <4>3. (\E k \in 1..(m + 1) : o[k] = i) <=> (\E k \in 1..m : opened[k] = i)
        <5>1. \A k \in 1..m : k \in 1..(m + 1) BY <1>4
        <5>2. \A k \in 1..(m + 1) : o[k] = i => k \in 1..m /\ opened[k] = i
          BY <4>2, <2>3, <2>6, Zenon
        <5> QED BY <5>1, <5>2, <2>3, Zenon
      <4>4. \A k \in 1..m : crops'[opened[k]] = crops[opened[k]] BY <1>1, <1>5
      <4>5. (\A k \in 1..(m + 1) : o[k] < i => crops'[i].at - crops'[o[k]].at >= window)
            <=> (\A k \in 1..m : opened[k] < i => crops[i].at - crops[opened[k]].at >= window)
        <5>1. \A k \in 1..m : k \in 1..(m + 1) BY <1>4
        <5>2. \A k \in 1..m : o[k] = opened[k] /\ crops'[o[k]] = crops[opened[k]]
          BY <4>4, <2>3, Zenon
        <5>3. crops'[i] = crops[i] BY <1>1
        <5>4. \A k \in 1..(m + 1) : o[k] < i => k \in 1..m BY <4>2, <2>6, Zenon
        <5> QED BY <5>1, <5>2, <5>3, <5>4, Zenon
      <4> QED BY <4>1, <4>3, <4>5, <1>1
    <3>3. \E k \in 1..(m + 1) : o[k] = N + 1 BY <2>3, <1>4
    <3>4. crops'[N + 1].q >= floor BY <1>1, <1>11
    <3>5. ASSUME NEW k \in 1..(m + 1), o[k] < N + 1
          PROVE  crops'[N + 1].at - crops'[o[k]].at >= window
      <4>1. k \in 1..m BY <3>5, <2>3, <2>6, <1>1
      <4>2. m > 0 /\ m \in 1..m BY <4>1, <1>4
      <4>3. opened[k] \in 1..N /\ opened[m] \in 1..N /\ opened[k] <= opened[m]
        <5>1. opened[k] \in 1..N /\ opened[m] \in 1..N BY <4>1, <4>2, <1>5
        <5>2. k < m \/ k = m BY <4>1, <1>4
        <5>3. k < m => opened[k] < opened[m] BY <4>1, <4>2, <2>8
        <5>4. opened[k] \in Int /\ opened[m] \in Int BY <5>1, <1>1
        <5> QED BY <5>1, <5>2, <5>3, <5>4
      <4>4. crops[opened[k]].at <= crops[opened[m]].at BY <4>3, <1>0 DEF CropsInTime, N
      <4>5. time - crops[opened[m]].at >= window
        <5>1. ~(time - gallery.start < window) BY <1>11 DEF in
        <5>2. gallery.start = crops[opened[m]].at BY <4>2, <1>4
        <5> QED BY <5>1, <5>2, <1>1, <1>2, <1>7
      <4>6. crops'[o[k]] = crops[opened[k]] BY <4>1, <4>3, <2>3, <1>1
      <4>7. crops[opened[k]].at \in Nat /\ crops[opened[m]].at \in Nat
        BY <4>3, <1>1 DEF CropType
      <4>8. \A u, v \in Nat : u <= v /\ time - v >= window => time - u >= window
        BY <1>1, <1>2
      <4>9. time - crops[opened[k]].at >= window BY <4>4, <4>5, <4>7, <4>8
      <4>10. crops'[N + 1].at = time BY <1>1
      <4> QED BY <4>6, <4>9, <4>10
    <3>6. \A i \in 1..(N + 1) :
            (\E k \in 1..(m + 1) : o[k] = i) <=>
              /\ crops'[i].q >= floor
              /\ \A k \in 1..(m + 1) : o[k] < i => crops'[i].at - crops'[o[k]].at >= window
      BY <3>2, <3>3, <3>4, <3>5, <2>7, Zenon
    <3> QED BY <3>1, <3>6, <2>5, Zenon DEF Opens, floor, window
  <2>10. ASSUME NEW k \in 1..m PROVE CropsOf(o, k)' = CropsOf(opened, k)
    <3>1. CropsOf(o, k)' = {j \in o[k]..(N + 1) : k + 1 \in DOMAIN o => j < o[k + 1]}
      BY <1>1 DEF CropsOf
    <3>2. CropsOf(opened, k) = {j \in opened[k]..N : k + 1 \in DOMAIN opened => j < opened[k + 1]}
      BY DEF CropsOf, N
    <3>3. k \in Nat /\ k + 1 \in DOMAIN o /\ opened[k] \in 1..N /\ o[k] = opened[k]
      BY <1>4, <1>5, <2>3, <2>5
    <3> HIDE DEF CropsOf
    <3>4. CASE k = m
      <4>1. k + 1 \notin DOMAIN opened /\ o[k + 1] = N + 1 BY <3>4, <2>3, <2>5
      <4> QED BY <3>1, <3>2, <3>3, <4>1, <1>1
    <3>5. CASE k # m
      <4>1. k + 1 \in 1..m /\ k + 1 \in DOMAIN opened BY <3>5, <2>5, <1>4
      <4>2. o[k + 1] = opened[k + 1] /\ opened[k + 1] \in 1..N BY <4>1, <2>3, <1>5
      <4> QED BY <3>1, <3>2, <3>3, <4>1, <4>2, <1>1
    <3> QED BY <3>4, <3>5
  <2>11. CropsOf(o, m + 1)' = {N + 1}
    <3>1. CropsOf(o, m + 1)' = {j \in o[m + 1]..(N + 1) : (m + 1) + 1 \in DOMAIN o => j < o[(m + 1) + 1]}
      BY <1>1 DEF CropsOf
    <3>2. (m + 1) + 1 \notin DOMAIN o BY <2>5, <1>4
    <3> HIDE DEF CropsOf
    <3> QED BY <3>1, <3>2, <2>3, <1>1
  <2>12. ASSUME NEW k \in 1..(m + 1) PROVE Leads(crops', b[k], CropsOf(o, k)')
    <3>1. CASE k \in 1..m
      <4> DEFINE S == CropsOf(opened, k)
      <4>1. Leads(crops, best[k], S) /\ S \subseteq 1..Len(crops) BY <3>1, <1>4, <1>5 DEF N
      <4>2. b[k] = best[k] /\ CropsOf(o, k)' = S BY <3>1, <1>4, <2>1, <2>10
      <4> HIDE DEF S
      <4>3. Leads(crops', best[k], S) BY <4>1, <1>0, LeadsOn
      <4> QED BY <4>2, <4>3
    <3>2. CASE k = m + 1
      <4>1. b[k] = N + 1 BY <3>2, <2>1, <1>4
      <4>2. Leads(crops', N + 1, {N + 1}) BY <1>1 DEF Leads
      <4> QED BY <4>1, <4>2, <3>2, <2>11
    <3> QED BY <3>1, <3>2, <2>6
  <2>13. m + 1 <= N + 1 /\ m + 1 # 0 BY <1>1, <1>4, <1>6
  <2>14. crops'[o[m + 1]].at = time /\ crops'[b[m + 1]].q = q
    <3>1. o[m + 1] = N + 1 /\ b[m + 1] = N + 1 BY <2>1, <2>3, <1>4
    <3> QED BY <3>1, <1>1
  <2>15. Windowed(o, b)'
    BY <1>1, <2>1, <2>2, <2>4, <2>9, <2>12, <2>13, <2>14 DEF Windowed, size
  <2> QED BY <2>15, <1>9
<1> QED BY <1>10, <1>11, <1>1, <1>2

LEMMA GalleryStep ==
  GalleryInv /\ DivisionKept /\ [GalleryNext]_galleryVars => GalleryInv' /\ DivisionKept'
<1>1. DivisionKept /\ [GalleryNext]_galleryVars => DivisionKept'
  BY DEF DivisionKept, GalleryNext, AddCrop, galleryVars
<1>2. GalleryInv /\ GalleryNext => GalleryInv'
  BY AddCropStep DEF GalleryNext
<1>3. ASSUME GalleryInv, UNCHANGED galleryVars PROVE GalleryInv'
  <2>1. crops' = crops /\ gallery' = gallery BY <1>3 DEF galleryVars
  <2>2. CropsInTime' BY <1>3, <2>1 DEF GalleryInv, CropsInTime
  <2>3. PICK opened, best : Windowed(opened, best) BY <1>3 DEF GalleryInv
  <2>4. Windowed(opened, best)' BY <2>1, <2>3 DEF Windowed, Opens, Leads, CropsOf
  <2> QED BY <2>2, <2>4 DEF GalleryInv
<1> QED BY <1>1, <1>2, <1>3

\* IdentityRulesHold: whatever crops come to a tracklet and when, its gallery is the
\* best crop of each of the last windows, in order (_update_galleries); and however a
\* zone is cut in two, a foot point of it that no rounding error takes across the cut
\* is in exactly one of them (point_in_polygon).
THEOREM IdentityRulesAlways == GallerySpec => []IdentityRulesHold
<1>1. GallerySpec => [](GalleryInv /\ DivisionKept)
  <2>1. GalleryInit => GalleryInv /\ DivisionKept
    BY InitGalleryInv DEF GalleryInit, DivisionKept
  <2> QED
    BY <2>1, GalleryStep, PTL DEF GallerySpec
<1>2. GalleryInv /\ DivisionKept => IdentityRulesHold
  BY GalleryIsBest, CutsShareNothing DEF IdentityRulesHold
<1> QED
  BY <1>1, <1>2, PTL
=============================================================================
