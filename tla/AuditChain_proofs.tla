-------------------------- MODULE AuditChain_proofs --------------------------
(***************************************************************************)
(* For any number of sessions: links lead back to committed rows.  As long *)
(* as no two of them have been at work at the same time: the log is the    *)
(* abstract chain of HashChain.                                            *)
(***************************************************************************)
EXTENDS AuditChain, FiniteSetTheorems, TLAPS

\* What a session read is committed and older than every id to come; the id it
\* took is its own.
SessionInv ==
  /\ \A w \in Writer :
       pc[w] # "idle" => last[w] \in Committed \cup {0} /\ last[w] < nextId
  /\ \A w \in Writer :
       pc[w] = "inserted" => /\ own[w] \in Id /\ own[w] < nextId
                             /\ last[w] < own[w] /\ own[w] \notin Committed
  /\ \A v, w \in Writer :
       pc[v] = "inserted" /\ pc[w] = "inserted" /\ own[v] = own[w] => v = w

LogInv ==
  /\ \E m \in 0..MaxRows : IsNewest(m)
  /\ \A i \in Committed : i < nextId

IInv == TypeOK /\ SessionInv /\ LogInv /\ LinksBackwards

LEMMA NewestIs ==
  ASSUME NEW m \in 0..MaxRows, IsNewest(m)
  PROVE  Newest = m
<1>1. \A i \in 0..MaxRows : IsNewest(i) => i = m
  BY AuditAssumption DEF IsNewest, Committed, Id
<1> QED
  BY <1>1 DEF Newest

LEMMA NewestInLog ==
  ASSUME LogInv
  PROVE  Newest \in 0..MaxRows /\ IsNewest(Newest)
BY NewestIs DEF LogInv

LEMMA InitIInv == Init => IInv
<1> SUFFICES ASSUME Init
             PROVE  IInv
  OBVIOUS
<1>1. Committed = {}
  BY DEF Init, Committed
<1>2. TypeOK
  <2>1. overlapped \in BOOLEAN
    BY DEF Init
  <2> QED
    BY <2>1, AuditAssumption DEF Init, TypeOK, Time, Id
<1>3. IsNewest(0) /\ 0 \in 0..MaxRows
  BY <1>1, AuditAssumption DEF IsNewest
<1> QED
  BY <1>1, <1>2, <1>3 DEF Init, IInv, SessionInv, LogInv, LinksBackwards

\* A commit adds its own id to the log and changes nothing else of it.
LEMMA CommitEffect ==
  ASSUME IInv, NEW w \in Writer, Commit(w)
  PROVE  /\ log' \in [Id -> Row \cup {NoRow}]
         /\ own[w] \in Id /\ own[w] \notin Committed
         /\ Committed' = Committed \cup {own[w]}
         /\ log'[own[w]].prev = last[w]
         /\ \A i \in Committed : log'[i] = log[i]
<1>1. /\ own[w] \in Id /\ own[w] \notin Committed
      /\ log' = [log EXCEPT ![own[w]] = [prev |-> last[w], ts |-> built[w]]]
  BY DEF IInv, SessionInv, Commit
<1>2. [prev |-> last[w], ts |-> built[w]] \in Row
  BY DEF IInv, TypeOK, Row
<1>3. log \in [Id -> Row \cup {NoRow}]
  BY DEF IInv, TypeOK
<1>4. [prev |-> last[w], ts |-> built[w]] # NoRow
  BY <1>2, AuditAssumption
<1> QED
  BY <1>1, <1>2, <1>3, <1>4 DEF Committed

LEMMA TypeStep ==
  ASSUME IInv, [Next]_vars
  PROVE  TypeOK'
<1> USE DEF TypeOK
<1>1. TypeOK
  BY DEF IInv
<1>2. ASSUME NEW w \in Writer, Select(w)
      PROVE  TypeOK'
  <2>1. Newest \in 0..MaxRows
    BY NewestInLog DEF IInv
  <2> QED
    BY <1>1, <1>2, <2>1 DEF Select
<1>3. ASSUME NEW w \in Writer, Wake(w) \/ Rollback(w)
      PROVE  TypeOK'
  BY <1>1, <1>3 DEF Wake, Rollback
<1>4. ASSUME NEW w \in Writer, Insert(w)
      PROVE  TypeOK'
  BY <1>1, <1>4, AuditAssumption DEF Insert
<1>5. ASSUME NEW w \in Writer, Commit(w)
      PROVE  TypeOK'
  <2>1. log' \in [Id -> Row \cup {NoRow}]
    BY <1>5, CommitEffect
  <2> QED
    BY <1>1, <1>5, <2>1 DEF Commit
<1>6. CASE Tick
  BY <1>1, <1>6, AuditAssumption DEF Tick, Time
<1>7. CASE UNCHANGED vars
  BY <1>1, <1>7 DEF vars
<1> QED
  BY <1>2, <1>3, <1>4, <1>5, <1>6, <1>7 DEF Next, Write

\* The rest of the invariant, for steps that leave the log alone.
LEMMA QuietStep ==
  ASSUME IInv, UNCHANGED log, nextId' \in Nat, nextId' >= nextId, SessionInv'
  PROVE  LogInv' /\ LinksBackwards'
<1>1. Committed' = Committed /\ nextId \in Nat
  BY AuditAssumption DEF Committed, IInv, TypeOK
<1>2. Committed \subseteq Nat
  BY AuditAssumption DEF Committed, Id
<1> QED
  BY <1>1, <1>2 DEF IInv, LogInv, LinksBackwards, IsNewest

LEMMA Step ==
  ASSUME IInv, [Next]_vars
  PROVE  IInv'
<1>0. TypeOK' /\ TypeOK /\ SessionInv /\ LogInv /\ LinksBackwards
  BY TypeStep DEF IInv
<1>a. /\ Committed \subseteq 1..MaxRows /\ nextId \in 1..(MaxRows + 1) /\ MaxRows \in Nat
      /\ last \in [Writer -> 0..MaxRows] /\ own \in [Writer -> 0..MaxRows]
      /\ pc \in [Writer -> {"idle", "waiting", "locked", "inserted"}]
  BY <1>0, AuditAssumption DEF Committed, TypeOK, Id
<1>1. ASSUME UNCHANGED log, SessionInv', nextId' >= nextId
      PROVE  IInv'
  <2>1. nextId' \in Nat
    BY <1>0, AuditAssumption DEF TypeOK
  <2> QED
    BY <1>0, <1>1, <2>1, QuietStep DEF IInv
<1>2. ASSUME NEW w \in Writer, Select(w)
      PROVE  IInv'
  <2>1. /\ Newest \in Committed \cup {0} /\ Newest < nextId
    BY <1>0, <1>a, NewestInLog DEF LogInv, IsNewest
  <2>2. /\ UNCHANGED <<log, nextId, own>> /\ Committed' = Committed
        /\ last' = [last EXCEPT ![w] = Newest]
        /\ pc'[w] # "inserted" /\ \A v \in Writer : v # w => pc'[v] = pc[v]
    BY <1>a, <1>2 DEF Select, Committed
  <2>3. SessionInv'
    BY <1>0, <1>a, <2>1, <2>2 DEF SessionInv
  <2> QED
    BY <1>1, <1>a, <2>2, <2>3
<1>3. ASSUME NEW w \in Writer, Wake(w) \/ Rollback(w)
      PROVE  IInv'
  <2>1. /\ UNCHANGED <<log, nextId, own, last>> /\ Committed' = Committed
        /\ pc[w] # "idle" /\ pc'[w] # "inserted"
        /\ \A v \in Writer : v # w => pc'[v] = pc[v]
    BY <1>a, <1>3 DEF Wake, Rollback, Committed
  <2>2. SessionInv'
    BY <1>0, <1>a, <2>1 DEF SessionInv
  <2> QED
    BY <1>1, <1>a, <2>1, <2>2
<1>4. ASSUME NEW w \in Writer, Insert(w)
      PROVE  IInv'
  <2>1. /\ UNCHANGED <<log, last>> /\ Committed' = Committed /\ nextId <= MaxRows
        /\ pc[w] = "locked" /\ pc'[w] = "inserted" /\ own'[w] = nextId
        /\ \A v \in Writer : v # w => pc'[v] = pc[v] /\ own'[v] = own[v]
        /\ nextId' = nextId + 1
    BY <1>a, <1>4 DEF Insert, Committed
  <2>2. nextId \in Id /\ nextId \notin Committed
    BY <1>0, <1>a, <2>1 DEF Id, LogInv
  <2>3. SessionInv'
    BY <1>0, <1>a, <2>1, <2>2 DEF SessionInv
  <2> QED
    BY <1>1, <1>a, <2>1, <2>3
<1>5. ASSUME NEW w \in Writer, Commit(w)
      PROVE  IInv'
  <2>1. /\ own[w] \in Id /\ own[w] \notin Committed /\ own[w] < nextId
        /\ last[w] < own[w] /\ last[w] \in Committed \cup {0}
        /\ Committed' = Committed \cup {own[w]}
        /\ log'[own[w]].prev = last[w] /\ \A i \in Committed : log'[i] = log[i]
        /\ UNCHANGED <<nextId, last, own>> /\ pc'[w] = "idle"
        /\ \A v \in Writer : v # w => pc'[v] = pc[v]
    <3>1. pc[w] = "inserted"
      BY <1>5 DEF Commit
    <3>2. /\ own[w] \in Id /\ own[w] \notin Committed /\ own[w] < nextId
          /\ last[w] < own[w] /\ last[w] \in Committed \cup {0}
      BY <1>0, <3>1 DEF SessionInv
    <3>3. /\ Committed' = Committed \cup {own[w]}
          /\ log'[own[w]].prev = last[w] /\ \A i \in Committed : log'[i] = log[i]
      BY <1>5, CommitEffect
    <3>4. /\ UNCHANGED <<nextId, last, own>> /\ pc'[w] = "idle"
          /\ \A v \in Writer : v # w => pc'[v] = pc[v]
      BY <1>a, <1>5 DEF Commit
    <3> QED
      BY <3>2, <3>3, <3>4
  <2>2. LinksBackwards'
    BY <1>0, <2>1 DEF LinksBackwards
  <2>3. SessionInv'
    BY <1>0, <1>a, <1>5, <2>1 DEF SessionInv, Commit
  <2>4. LogInv'
    <3>1. PICK m \in 0..MaxRows : IsNewest(m)
      BY <1>0 DEF LogInv
    <3>2. own[w] \in 0..MaxRows
      BY <1>a, <2>1 DEF Id
    <3>3. IsNewest(IF own[w] > m THEN own[w] ELSE m)'
      BY <1>a, <2>1, <3>1, <3>2 DEF IsNewest
    <3>4. \E n \in 0..MaxRows : IsNewest(n)'
      BY <1>a, <2>1, <3>1, <3>2, <3>3
    <3> QED
      BY <1>0, <2>1, <3>4 DEF LogInv
  <2> QED
    BY <1>0, <2>2, <2>3, <2>4 DEF IInv
<1>6. CASE Tick \/ UNCHANGED vars
  <2>1. UNCHANGED <<log, nextId, own, last, pc>> /\ Committed' = Committed
    BY <1>6 DEF Tick, vars, Committed
  <2>2. SessionInv'
    BY <1>0, <2>1 DEF SessionInv
  <2> QED
    BY <1>1, <1>a, <2>1, <2>2
<1> QED
  BY <1>2, <1>3, <1>4, <1>5, <1>6 DEF Next, Write

\* However many sessions write, and whatever is rolled back, every committed
\* row links to an older committed row or to the genesis.
THEOREM BackLinks == Spec => [](TypeOK /\ LinksBackwards)
<1>1. IInv => TypeOK /\ LinksBackwards
  BY DEF IInv
<1> QED
  BY <1>1, InitIInv, Step, PTL DEF Spec
-----------------------------------------------------------------------------
(***************************************************************************)
(* No overlap yet.  One session is at work at most, it never waits, and    *)
(* what it read is still the newest row when it commits.                   *)
(***************************************************************************)
AtWork == {w \in Writer : pc[w] # "idle"}

SoloInv ==
  ~overlapped => \A w \in AtWork : /\ pc[w] # "waiting" /\ IsNewest(last[w])
                                   /\ \A v \in AtWork : v = w

links == {<<log[i].prev, i>> : i \in Committed}

\* A history without overlap after a step had none before it.
LEMMA OverlapStays ==
  ASSUME TypeOK, [Next]_vars, ~overlapped'
  PROVE  ~overlapped
BY DEF TypeOK, Next, Write, Select, Wake, Insert, Commit, Rollback, Tick, vars

LEMMA SoloStep ==
  ASSUME IInv, SoloInv, [Next]_vars, ~overlapped'
  PROVE  /\ SoloInv'
         /\ \/ UNCHANGED <<Newest, links>>
            \/ \E id \in Id : /\ id > Newest
                             /\ links' = links \cup {<<Newest, id>>}
                             /\ Newest' = id
<1>1. /\ ~overlapped
      /\ \A w \in AtWork : /\ pc[w] # "waiting" /\ IsNewest(last[w])
                          /\ \A v \in AtWork : v = w
  BY OverlapStays DEF IInv, SoloInv
<1>2. /\ last \in [Writer -> 0..MaxRows] /\ own \in [Writer -> 0..MaxRows]
      /\ pc \in [Writer -> {"idle", "waiting", "locked", "inserted"}]
      /\ TypeOK /\ LogInv
  BY DEF IInv, TypeOK
<1>3. ASSUME UNCHANGED log
      PROVE  /\ UNCHANGED <<Newest, links>>
             /\ \A i : IsNewest(i) <=> IsNewest(i)'
  BY <1>3 DEF Newest, IsNewest, links, Committed
<1>a. \A i : IsNewest(i)' <=> (i \in Committed' \cup {0} /\ \A j \in Committed' : j <= i)
  BY DEF IsNewest
<1>4. ASSUME NEW w \in Writer, Select(w)
      PROVE  SoloInv' /\ UNCHANGED <<Newest, links>>
  <2>1. /\ UNCHANGED log /\ pc[w] = "idle" /\ last'[w] = Newest
        /\ pc'[w] = (IF Locked(Newest) THEN "waiting" ELSE "locked")
        /\ \A v \in Writer : v # w => pc'[v] = pc[v]
        /\ Alone(w)
    BY <1>2, <1>4 DEF Select
  <2>2. ~Locked(Newest)
    BY <2>1 DEF Locked, Holds, Alone
  <2>3. IsNewest(Newest)
    BY <1>2, NewestInLog
  <2>4. AtWork' = {w} /\ pc'[w] = "locked"
    BY <2>1, <2>2 DEF AtWork, Alone
  <2>5. IsNewest(Newest)'
    BY <1>3, <2>1, <2>3
  <2>6. IsNewest(last[w])'
    BY <1>3, <2>1, <2>5 DEF IsNewest
  <2> QED
    BY <1>3, <2>1, <2>4, <2>6 DEF SoloInv
<1>5. ASSUME NEW w \in Writer, Wake(w)
      PROVE  FALSE
  BY <1>1, <1>5 DEF Wake, AtWork
<1>6. ASSUME NEW w \in Writer, Rollback(w)
      PROVE  SoloInv' /\ UNCHANGED <<Newest, links>>
  <2>1. /\ UNCHANGED log /\ pc'[w] = "idle" /\ w \in AtWork
        /\ \A v \in Writer : v # w => pc'[v] = pc[v]
    BY <1>2, <1>6 DEF Rollback, AtWork
  <2>2. AtWork' = {}
    BY <1>1, <2>1 DEF AtWork
  <2> QED
    BY <1>3, <2>1, <2>2 DEF SoloInv
<1>7. ASSUME NEW w \in Writer, Insert(w)
      PROVE  SoloInv' /\ UNCHANGED <<Newest, links>>
  <2>1. /\ UNCHANGED <<log, last>> /\ pc[w] = "locked" /\ pc'[w] = "inserted"
        /\ \A v \in Writer : v # w => pc'[v] = pc[v]
    BY <1>2, <1>7 DEF Insert
  <2>2. AtWork' = {w} /\ w \in AtWork
    BY <1>1, <2>1 DEF AtWork
  <2>3. IsNewest(last[w])'
    BY <1>1, <2>1, <2>2 DEF IsNewest, Committed
  <2> QED
    BY <1>3, <2>1, <2>2, <2>3 DEF SoloInv
<1>8. ASSUME NEW w \in Writer, Commit(w)
      PROVE  /\ SoloInv'
             /\ \E id \in Id : /\ id > Newest
                              /\ links' = links \cup {<<Newest, id>>}
                              /\ Newest' = id
  <2>1. /\ Committed' = Committed \cup {own[w]} /\ own[w] \in Id
        /\ log'[own[w]].prev = last[w] /\ \A i \in Committed : log'[i] = log[i]
        /\ own[w] \notin Committed
    BY <1>8, CommitEffect
  <2>a. /\ w \in AtWork /\ pc'[w] = "idle" /\ pc[w] = "inserted"
        /\ \A v \in Writer : v # w => pc'[v] = pc[v]
    BY <1>2, <1>8 DEF Commit, AtWork
  <2>2. last[w] < own[w] /\ IsNewest(last[w])
    BY <1>1, <2>a DEF IInv, SessionInv
  <2>3. Newest = last[w]
    BY <1>2, <2>2, NewestIs
  <2>4. links' = links \cup {<<last[w], own[w]>>}
    BY <2>1 DEF links
  <2>5. Newest' = own[w]
    <3>1. \A j \in Committed \cup {own[w]} : j <= own[w]
      BY <1>2, <2>1, <2>2, AuditAssumption DEF IsNewest, Committed, Id
    <3>2. \A i \in 0..MaxRows : IsNewest(i)' <=> i = own[w]
      BY <2>1, <3>1, AuditAssumption DEF IsNewest, Id
    <3>3. own[w] \in 0..MaxRows
      BY <1>2
    <3>4. Newest' = CHOOSE i \in 0..MaxRows : IsNewest(i)'
      BY DEF Newest
    <3> QED
      BY <3>2, <3>3, <3>4
  <2>6. AtWork' = {}
    BY <1>1, <2>a DEF AtWork
  <2> QED
    BY <1>2, <2>1, <2>2, <2>3, <2>4, <2>5, <2>6, AuditAssumption DEF SoloInv, Id
<1>9. CASE Tick \/ UNCHANGED vars
  <2>1. UNCHANGED <<log, pc, last>>
    BY <1>9 DEF Tick, vars
  <2>2. AtWork' = AtWork
    BY <2>1 DEF AtWork
  <2> QED
    BY <1>1, <1>3, <2>1, <2>2 DEF SoloInv, IsNewest, Committed
<1> QED
  BY <1>4, <1>5, <1>6, <1>7, <1>8, <1>9 DEF Next, Write

\* Whatever is rolled back: as long as no two sessions have been at work at the
\* same time, the log is one chain, and the row a new row links to is the last.
THEOREM OneChainWithoutOverlap == Spec => IsOneChain
<1> DEFINE L == {<<log[i].prev, i>> : i \in Committed}
<1>1. Init => SoloInv /\ Chain!Init
  <2> SUFFICES ASSUME Init
               PROVE  SoloInv /\ Chain!Init
    OBVIOUS
  <2>1. Committed = {}
    BY DEF Init, Committed
  <2>2. IsNewest(0) /\ 0 \in 0..MaxRows
    BY <2>1, AuditAssumption DEF IsNewest
  <2>3. Newest = 0
    BY <2>2, NewestIs
  <2> QED
    BY <2>1, <2>3 DEF Init, SoloInv, AtWork, Chain!Init
<1>2. IInv /\ SoloInv /\ [Next]_vars => SoloInv' /\ [overlapped' \/ Chain!Next]_<<Newest, L>>
  <2> SUFFICES ASSUME IInv, SoloInv, [Next]_vars, ~overlapped'
               PROVE  SoloInv' /\ [Chain!Next]_<<Newest, L>>
    BY DEF SoloInv
  <2> QED
    BY SoloStep DEF Chain!Next, Chain!Append, links
<1> QED
  BY <1>1, <1>2, InitIInv, Step, PTL DEF Spec, IsOneChain
-----------------------------------------------------------------------------
(***************************************************************************)
(* The width of a fork.  Sessions that have read a row may still link to   *)
(* it; once one has, the row is no longer the newest and nobody joins them *)
(* again.  So the successors a row has, with those it may still get, never *)
(* outnumber the sessions.                                                 *)
(***************************************************************************)
Successors(p) == {i \in Committed : log[i].prev = p}
Readers(p) == {w \in Writer : pc[w] # "idle" /\ last[w] = p}

ForkInv ==
  \A p \in 0..MaxRows :
    Cardinality(Successors(p)) + Cardinality(Readers(p)) <= Cardinality(Writer)

LEMMA FiniteParts ==
  ASSUME IsFiniteSet(Writer), NEW p
  PROVE  /\ IsFiniteSet(Successors(p)) /\ Cardinality(Successors(p)) \in Nat
         /\ IsFiniteSet(Readers(p)) /\ Cardinality(Readers(p)) \in Nat
         /\ Cardinality(Readers(p)) <= Cardinality(Writer)
<1>1. Successors(p) \in SUBSET (1..MaxRows) /\ Readers(p) \in SUBSET Writer
  BY DEF Successors, Readers, Committed, Id
<1>2. IsFiniteSet(1..MaxRows)
  BY FS_Interval, AuditAssumption
<1>3. IsFiniteSet(Successors(p)) /\ IsFiniteSet(Readers(p))
  BY <1>1, <1>2, FS_Subset
<1> QED
  BY <1>1, <1>3, FS_Subset, FS_CardinalityType

\* Nothing is committed, and nobody has read a row he had not read before.
LEMMA NoNewReader ==
  ASSUME IsFiniteSet(Writer), ForkInv, UNCHANGED log,
         \A p \in 0..MaxRows : Readers(p)' \subseteq Readers(p)
  PROVE  ForkInv'
<1> SUFFICES ASSUME NEW p \in 0..MaxRows
             PROVE  Cardinality(Successors(p)') + Cardinality(Readers(p)')
                      <= Cardinality(Writer)
  BY DEF ForkInv
<1>1. Successors(p)' = Successors(p)
  BY DEF Successors, Committed
<1>2. /\ IsFiniteSet(Readers(p)') /\ Cardinality(Readers(p)') \in Nat
      /\ Cardinality(Readers(p)') <= Cardinality(Readers(p))
  <2>1. IsFiniteSet(Readers(p)) /\ Readers(p)' \in SUBSET Readers(p)
    BY FiniteParts
  <2> QED
    BY <2>1, FS_Subset, FS_CardinalityType
<1>3. Cardinality(Successors(p)) \in Nat /\ Cardinality(Readers(p)) \in Nat
  BY FiniteParts
<1>4. Cardinality(Writer) \in Nat
  BY FS_CardinalityType
<1> QED
  BY <1>1, <1>2, <1>3, <1>4 DEF ForkInv

\* A row that is read is the newest: it has no successor yet.
LEMMA SelectKeepsForkInv ==
  ASSUME IsFiniteSet(Writer), IInv, ForkInv, NEW w \in Writer, Select(w)
  PROVE  ForkInv'
<1> SUFFICES ASSUME NEW p \in 0..MaxRows
             PROVE  Cardinality(Successors(p)') + Cardinality(Readers(p)')
                      <= Cardinality(Writer)
  BY DEF ForkInv
<1>1. /\ pc[w] = "idle" /\ last'[w] = Newest
      /\ \A v \in Writer : v # w => pc'[v] = pc[v] /\ last'[v] = last[v]
  BY DEF Select, IInv, TypeOK
<1>2. Successors(p)' = Successors(p)
  BY DEF Select, Successors, Committed
<1>3. CASE p = Newest
  <2>1. Successors(p) = {}
    BY <1>3, NewestInLog, AuditAssumption
       DEF IInv, LinksBackwards, IsNewest, Successors, Committed, Id
  <2>2. Readers(p)' \in SUBSET Writer
    BY DEF Readers
  <2>3. /\ Cardinality(Successors(p)') = 0
        /\ Cardinality(Readers(p)') <= Cardinality(Writer)
    BY <1>2, <2>1, <2>2, FS_EmptySet, FS_Subset
  <2>4. Cardinality(Readers(p)') \in Nat /\ Cardinality(Writer) \in Nat
    BY <2>2, FS_Subset, FS_CardinalityType
  <2> QED
    BY <2>3, <2>4
<1>4. CASE p # Newest
  <2>1. Readers(p)' = Readers(p)
    BY <1>1, <1>4 DEF Readers
  <2> QED
    BY <1>2, <2>1 DEF ForkInv
<1> QED
  BY <1>3, <1>4

\* Who commits was counted as a reader and is now counted as a successor.
LEMMA CommitKeepsForkInv ==
  ASSUME IsFiniteSet(Writer), IInv, ForkInv, NEW w \in Writer, Commit(w)
  PROVE  ForkInv'
<1> SUFFICES ASSUME NEW p \in 0..MaxRows
             PROVE  Cardinality(Successors(p)') + Cardinality(Readers(p)')
                      <= Cardinality(Writer)
  BY DEF ForkInv
<1>1. /\ Committed' = Committed \cup {own[w]} /\ own[w] \notin Committed
      /\ log'[own[w]].prev = last[w] /\ \A i \in Committed : log'[i] = log[i]
  BY CommitEffect
<1>2. /\ last' = last /\ pc[w] # "idle" /\ pc'[w] = "idle"
      /\ \A v \in Writer : v # w => pc'[v] = pc[v]
  BY DEF Commit, IInv, TypeOK
<1>3. CASE p = last[w]
  <2>1. Successors(p)' = Successors(p) \cup {own[w]} /\ own[w] \notin Successors(p)
    BY <1>1, <1>3 DEF Successors
  <2>2. Readers(p)' = Readers(p) \ {w} /\ w \in Readers(p)
    BY <1>2, <1>3 DEF Readers
  <2>3. /\ Cardinality(Successors(p)') = Cardinality(Successors(p)) + 1
        /\ Cardinality(Readers(p)') = Cardinality(Readers(p)) - 1
    <3>1. IsFiniteSet(Successors(p)) /\ IsFiniteSet(Readers(p))
      BY FiniteParts
    <3>2. Cardinality(Successors(p) \cup {own[w]}) = Cardinality(Successors(p)) + 1
      BY <2>1, <3>1, FS_AddElement
    <3>3. Cardinality(Readers(p) \ {w}) = Cardinality(Readers(p)) - 1
      BY <2>2, <3>1, FS_RemoveElement
    <3> QED
      BY <2>1, <2>2, <3>2, <3>3
  <2>4. Cardinality(Successors(p)) \in Nat /\ Cardinality(Readers(p)) \in Nat
    BY FiniteParts
  <2>5. Cardinality(Writer) \in Nat
    BY FS_CardinalityType
  <2> QED
    BY <2>3, <2>4, <2>5 DEF ForkInv
<1>4. CASE p # last[w]
  <2>1. Successors(p)' = Successors(p)
    BY <1>1, <1>4 DEF Successors
  <2>2. Readers(p)' = Readers(p)
    BY <1>2, <1>4 DEF Readers
  <2> QED
    BY <2>1, <2>2 DEF ForkInv
<1> QED
  BY <1>3, <1>4

LEMMA ForkStep ==
  ASSUME IsFiniteSet(Writer), IInv, ForkInv, [Next]_vars
  PROVE  ForkInv'
<1>1. ASSUME NEW w \in Writer, Wake(w) \/ Insert(w) \/ Rollback(w)
      PROVE  ForkInv'
  <2>1. /\ UNCHANGED <<log, last>> /\ pc[w] # "idle"
        /\ \A v \in Writer : v # w => pc'[v] = pc[v]
    BY <1>1 DEF Wake, Insert, Rollback, IInv, TypeOK
  <2>2. \A p \in 0..MaxRows : Readers(p)' \subseteq Readers(p)
    BY <2>1 DEF Readers
  <2> QED
    BY <2>1, <2>2, NoNewReader
<1>2. CASE Tick \/ UNCHANGED vars
  <2>1. UNCHANGED <<log, last, pc>>
    BY <1>2 DEF Tick, vars
  <2>2. \A p \in 0..MaxRows : Readers(p)' \subseteq Readers(p)
    BY <2>1 DEF Readers
  <2> QED
    BY <2>1, <2>2, NoNewReader
<1> QED
  BY <1>1, <1>2, SelectKeepsForkInv, CommitKeepsForkInv DEF Next, Write

\* However many sessions write, and whatever is rolled back, links lead backwards
\* and no row has more successors than there are sessions.
THEOREM ForkBound == IsFiniteSet(Writer) => (Spec => []LinksSound)
<1> SUFFICES ASSUME IsFiniteSet(Writer)
             PROVE  Spec => []LinksSound
  OBVIOUS
<1>1. Init => ForkInv
  <2> SUFFICES ASSUME Init, NEW p \in 0..MaxRows
               PROVE  Cardinality(Successors(p)) + Cardinality(Readers(p))
                        <= Cardinality(Writer)
    BY DEF ForkInv
  <2>1. Successors(p) = {} /\ Readers(p) = {}
    BY DEF Init, Successors, Readers, Committed
  <2>2. Cardinality({}) = 0 /\ Cardinality(Writer) \in Nat
    BY FS_EmptySet, FS_CardinalityType
  <2> QED
    BY <2>1, <2>2
<1>2. IInv /\ ForkInv /\ [Next]_vars => ForkInv'
  BY ForkStep
<1>3. ForkInv => ForkWidth
  <2> SUFFICES ASSUME ForkInv, NEW p \in 0..MaxRows
               PROVE  Cardinality(Successors(p)) <= Cardinality(Writer)
    BY DEF ForkWidth, Successors
  <2>1. Cardinality(Successors(p)) \in Nat /\ Cardinality(Readers(p)) \in Nat
    BY FiniteParts
  <2>2. Cardinality(Writer) \in Nat
    BY FS_CardinalityType
  <2> QED
    BY <2>1, <2>2 DEF ForkInv
<1>4. IInv /\ ForkWidth => LinksSound
  BY DEF IInv, LinksSound
<1> QED
  BY <1>1, <1>2, <1>3, <1>4, InitIInv, Step, PTL DEF Spec
-----------------------------------------------------------------------------
(***************************************************************************)
(* No overlap yet, seen by /audit/verify: rows are linked to the row       *)
(* before them, and their timestamps are in the order of their ids.        *)
(***************************************************************************)
Linked ==
  \A j \in Committed : \A i \in Committed : i < j => i <= log[j].prev

TimesInOrder ==
  /\ \A i, j \in Committed : i < j => log[i].ts <= log[j].ts
  /\ \A i \in Committed : log[i].ts <= clock
  /\ \A w \in Writer : pc[w] = "inserted" =>
       /\ built[w] <= clock
       /\ \A i \in Committed : log[i].ts <= built[w]

VerifyInv == SoloInv /\ (~overlapped => Linked /\ TimesInOrder)

\* A gap between two rows of a window would be a row of the window as well.
LEMMA LinkedVerifies ==
  ASSUME IInv, VerifyInv
  PROVE  WindowsVerify
<1> SUFFICES ASSUME Linked, TimesInOrder
             PROVE  /\ WholeChainVerifies
                    /\ \A from, to \in Nat : Verifies(from, to)
  BY AuditAssumption DEF WindowsVerify, VerifyInv
<1>1. \A i \in Committed : i \in Nat /\ i # 0 /\ log[i].ts \in Nat
  BY AuditAssumption DEF Committed, IInv, TypeOK, Id, Row, Time
<1>2. \A j \in Committed : log[j].prev \in Committed \cup {0} /\ log[j].prev < j
  BY DEF IInv, LinksBackwards
<1>3. WholeChainVerifies
  BY <1>1, <1>2 DEF WholeChainVerifies, Linked
<1>4. ASSUME NEW from \in Nat, NEW to \in Nat,
             NEW i \in Window(from, to), NEW j \in Window(from, to), i < j,
             \A k \in Window(from, to) : ~(i < k /\ k < j)
      PROVE  log[j].prev = i
  <2> DEFINE p == log[j].prev
  <2>1. i \in Committed /\ j \in Committed
    BY DEF Window
  <2>2. i <= p /\ p \in Committed /\ p < j
    BY <1>1, <1>2, <1>4, <2>1 DEF Linked
  <2>3. log[i].ts <= log[p].ts /\ log[p].ts <= log[j].ts
    BY <1>1, <2>1, <2>2 DEF TimesInOrder
  <2>4. p \in Window(from, to)
    BY <1>1, <2>1, <2>2, <2>3 DEF Window
  <2>5. ~(i < p /\ p < j)
    BY <1>4, <2>4
  <2> QED
    BY <1>1, <2>1, <2>2, <2>5
<1> QED
  BY <1>3, <1>4 DEF Verifies

LEMMA VerifyStep ==
  ASSUME IInv, VerifyInv, [Next]_vars, ~overlapped'
  PROVE  Linked' /\ TimesInOrder'
<1>1. /\ ~overlapped /\ Linked /\ TimesInOrder
      /\ \A w \in AtWork : /\ pc[w] # "waiting" /\ IsNewest(last[w])
                          /\ \A v \in AtWork : v = w
  BY OverlapStays DEF IInv, VerifyInv, SoloInv
<1>2. /\ last \in [Writer -> 0..MaxRows] /\ own \in [Writer -> 0..MaxRows]
      /\ pc \in [Writer -> {"idle", "waiting", "locked", "inserted"}]
      /\ built \in [Writer -> Time] /\ clock \in Nat /\ Time \subseteq Nat
      /\ \A i \in Committed : log[i].ts \in Nat
  BY AuditAssumption DEF IInv, TypeOK, Committed, Row, Time
<1>3. ASSUME UNCHANGED log, clock' \in Nat, clock' >= clock,
             \A w \in Writer : pc'[w] = "inserted" =>
               \/ pc[w] = "inserted" /\ built'[w] = built[w]
               \/ built'[w] = clock
      PROVE  Linked' /\ TimesInOrder'
  <2>1. Committed' = Committed
    BY <1>3 DEF Committed
  <2>2. Linked'
    BY <1>1, <1>3, <2>1 DEF Linked
  <2>3. \A w \in Writer : built[w] \in Nat
    BY <1>2
  <2>4. TimesInOrder'
    <3>1. /\ \A i, j \in Committed' : i < j => log'[i].ts <= log'[j].ts
          /\ \A i \in Committed' : log'[i].ts <= clock'
      BY <1>1, <1>2, <1>3, <2>1 DEF TimesInOrder
    <3>2. ASSUME NEW w \in Writer, pc'[w] = "inserted"
          PROVE  built'[w] <= clock' /\ \A i \in Committed' : log'[i].ts <= built'[w]
      BY <1>1, <1>2, <1>3, <2>1, <2>3, <3>2 DEF TimesInOrder
    <3> QED
      BY <3>1, <3>2 DEF TimesInOrder
  <2> QED
    BY <2>2, <2>4
<1>4. ASSUME NEW w \in Writer, Select(w) \/ Wake(w) \/ Rollback(w)
      PROVE  Linked' /\ TimesInOrder'
  <2>1. /\ UNCHANGED <<log, clock, built>> /\ pc'[w] # "inserted"
        /\ \A v \in Writer : v # w => pc'[v] = pc[v]
    BY <1>2, <1>4 DEF Select, Wake, Rollback
  <2> QED
    BY <1>2, <1>3, <2>1
<1>5. ASSUME NEW w \in Writer, Insert(w)
      PROVE  Linked' /\ TimesInOrder'
  <2>1. /\ UNCHANGED <<log, clock>> /\ built'[w] = clock
        /\ \A v \in Writer : v # w => pc'[v] = pc[v] /\ built'[v] = built[v]
    BY <1>2, <1>5 DEF Insert
  <2> QED
    BY <1>2, <1>3, <2>1
<1>6. ASSUME NEW w \in Writer, Commit(w)
      PROVE  Linked' /\ TimesInOrder'
  <2>1. /\ Committed' = Committed \cup {own[w]} /\ own[w] \notin Committed
        /\ log'[own[w]].prev = last[w] /\ \A i \in Committed : log'[i] = log[i]
        /\ own[w] \in Id
    BY <1>6, CommitEffect
  <2>2. /\ log'[own[w]].ts = built[w] /\ UNCHANGED <<clock, built>>
        /\ pc[w] = "inserted" /\ pc'[w] = "idle" /\ w \in AtWork
        /\ \A v \in Writer : v # w => pc'[v] = pc[v]
    BY <1>2, <1>6, <2>1 DEF Commit, IInv, TypeOK, AtWork
  <2>3. IsNewest(last[w]) /\ last[w] < own[w]
    BY <1>1, <2>2 DEF IInv, SessionInv
  <2>4. \A i \in Committed : i <= last[w] /\ i < own[w]
    BY <1>2, <2>3, AuditAssumption DEF IsNewest, Committed, Id
  <2>5. built[w] \in Nat
    BY <1>2
  <2>6. Linked'
    BY <1>1, <2>1, <2>4, AuditAssumption DEF Linked, Committed, Id
  <2>7. TimesInOrder'
    <3>1. /\ built[w] <= clock
          /\ \A i \in Committed : log[i].ts <= built[w]
      BY <1>1, <2>2 DEF TimesInOrder
    <3>2. \A i, j \in Committed' : i < j => log'[i].ts <= log'[j].ts
      BY <1>1, <2>1, <2>2, <2>4, <3>1, AuditAssumption
         DEF TimesInOrder, Committed, Id
    <3>3. \A i \in Committed' : log'[i].ts <= clock'
      BY <1>1, <2>1, <2>2, <3>1 DEF TimesInOrder
    <3>4. \A v \in Writer : pc'[v] # "inserted"
      BY <1>1, <2>2 DEF AtWork
    <3> QED
      BY <3>2, <3>3, <3>4 DEF TimesInOrder
  <2> QED
    BY <2>6, <2>7
<1>7. CASE Tick
  BY <1>2, <1>3, <1>7 DEF Tick
<1>8. CASE UNCHANGED vars
  BY <1>2, <1>3, <1>8 DEF vars
<1> QED
  BY <1>4, <1>5, <1>6, <1>7, <1>8 DEF Next, Write

\* As long as no two sessions have been at work at the same time, and with a
\* clock that does not go back, every window of an untampered log and the log
\* as a whole verify, whatever is rolled back.
THEOREM SoundLogVerifies == Spec => []WindowsVerify
<1>1. Init => VerifyInv
  <2> SUFFICES ASSUME Init
               PROVE  VerifyInv
    OBVIOUS
  <2>1. Committed = {}
    BY DEF Init, Committed
  <2> QED
    BY <2>1 DEF Init, VerifyInv, SoloInv, AtWork, Linked, TimesInOrder
<1>2. IInv /\ VerifyInv /\ [Next]_vars => VerifyInv'
  <2> SUFFICES ASSUME IInv, VerifyInv, [Next]_vars
               PROVE  VerifyInv'
    OBVIOUS
  <2>1. SoloInv'
    BY SoloStep DEF VerifyInv, SoloInv
  <2> QED
    BY <2>1, VerifyStep DEF VerifyInv
<1> QED
  BY <1>1, <1>2, InitIInv, Step, LinkedVerifies, PTL DEF Spec
=============================================================================
