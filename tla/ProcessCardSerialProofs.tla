---------------------- MODULE ProcessCardSerialProofs -----------------------
(* Proofs about the requests of ProcessCard that do not overlap, for every  *)
(* number of users, types, statuses, groups and processes.                  *)
EXTENDS ProcessCardProofs

USE DEF tables

-----------------------------------------------------------------------------
(* The inductive invariant *)

\* What the handler holds is the row as it is, and nobody else holds one.
Fresh ==
    \A u \in User : req[u] # NoRequest =>
        /\ Exists(req[u].id)
        /\ req[u].row = process[req[u].id]
        /\ \A v \in User \ {u} : req[v] = NoRequest

\* The row of a process and the rows of the link tables with its id.
RowSound(p, G, E) ==
    IF p = NoProcess THEN G = {} /\ E = {}
    ELSE /\ p.groups = G
         /\ p.copied \/ p.executors = E

Sound == \A k \in Id : RowSound(process[k], groupRows[k], executorRows[k])

SerialInv == TypeOK /\ IdInv /\ Fresh /\ Sound /\ StatusIsNewest

-----------------------------------------------------------------------------
(* Fresh copies *)

\* A step opens the request, ends it, or is a creation, which reads nothing.
LEMMA RequestStep ==
    ASSUME TypeOK, NEW u \in User, Step(u)
    PROVE  \/ \E k \in Id, checked \in BOOLEAN : Open(u, k, checked)
           \/ Done(u)
           \/ UNCHANGED req /\ req[u] = NoRequest
<1>1. ASSUME NEW G \in SUBSET GroupRole, GroupsUpdate(u, G) \/ GroupsCommand(u, G)
      PROVE  Done(u)
  BY <1>1, SaveGroupsLemma DEF SaveGroups
<1>2. ASSUME \/ \E G \in SUBSET GroupRole, E \in SUBSET Executor : ExecutorsUpdate(u, G, E)
             \/ \E g \in GroupRole, E \in SUBSET Executor : ExecutorsCommand(u, g, E)
      PROVE  Done(u)
  BY <1>2, SaveExecutorsLemma DEF SaveExecutors
<1>3. ASSUME NEW t \in Type, NEW G \in SUBSET GroupRole, Create(u, t, G)
      PROVE  UNCHANGED req /\ req[u] = NoRequest
  BY <1>3 DEF Create
<1>4. ASSUME \/ Fail(u) \/ FinishCreate(u) \/ RowUpdate(u) \/ PriorityCommand(u) \/ Delete(u)
             \/ \E s \in Status : StatusUpdate(u, s)
             \/ \E t \in Type : TypeUpdate(u, t)
      PROVE  Done(u)
  BY <1>4 DEF Fail, FinishCreate, RowUpdate, PriorityCommand, Delete, StatusUpdate, TypeUpdate
<1> QED
  BY <1>1, <1>2, <1>3, <1>4 DEF Step

LEMMA FreshStep ==
    ASSUME TypeOK, NEW u \in User, Alone(u), Step(u)
    PROVE  Fresh'
<1>1. CASE \E k \in Id, checked \in BOOLEAN : Open(u, k, checked)
  <2>1. PICK k \in Id, checked \in BOOLEAN : Open(u, k, checked)
    BY <1>1
  <2>2. /\ process' = process /\ process[k] # NoProcess
        /\ req'[u].id = k /\ req'[u].row = process[k]
        /\ \A v \in User \ {u} : req'[v] = NoRequest
    <3> DEFINE r == [id |-> k, row |-> process[k], checked |-> checked, sees |-> Sees(u, k)]
    <3>1. process' = process /\ process[k] # NoProcess /\ req' = [req EXCEPT ![u] = r]
      BY <2>1 DEF Open, Exists
    <3>2. r.id = k /\ r.row = process[k]
      OBVIOUS
    <3> HIDE DEF r
    <3> QED
      BY <3>1, <3>2 DEF Alone, TypeOK
  <2> QED
    BY <2>2 DEF Fresh, Exists
<1>2. ASSUME \A v \in User : req'[v] = NoRequest
      PROVE  Fresh'
  BY <1>2 DEF Fresh
<1>3. CASE Done(u)
  BY <1>2, <1>3 DEF Done, Alone, TypeOK
<1>4. CASE UNCHANGED req /\ req[u] = NoRequest
  BY <1>2, <1>4 DEF Alone
<1> QED
  BY <1>1, <1>3, <1>4, RequestStep

-----------------------------------------------------------------------------
(* Columns and link tables *)

\* updateProcess writes no column that has a link table.
LEMMA SoundWritten ==
    ASSUME TypeOK, Sound, NEW k \in Id, NEW row \in Row,
           process' = Written(k, row), UNCHANGED <<groupRows, executorRows>>
    PROVE  Sound'
<1> SUFFICES ASSUME NEW j \in Id
             PROVE  RowSound(process'[j], groupRows[j], executorRows[j])
  BY DEF Sound
<1>1. RowSound(process[j], groupRows[j], executorRows[j])
  BY DEF Sound
<1>2. CASE j # k \/ ~Exists(k)
  <2>1. process'[j] = process[j]
    BY <1>2, WrittenLemma DEF Written
  <2> QED
    BY <1>1, <2>1
<1>3. CASE j = k /\ Exists(k)
  <2>1. process[k] \in Row /\ process[k] # NoProcess
    BY <1>3 DEF Exists, TypeOK
  <2>2. process'[k] = [row EXCEPT !.groups = process[k].groups,
                                  !.executors = process[k].executors,
                                  !.copied = process[k].copied]
    BY <1>3, WrittenLemma
  <2>3. /\ process'[k] \in Row
        /\ process'[k].groups = process[k].groups
        /\ process'[k].executors = process[k].executors
        /\ process'[k].copied = process[k].copied
    BY <2>1, <2>2 DEF Row
  <2> QED
    BY <1>1, <1>3, <2>1, <2>3, NullAssumption DEF RowSound
<1> QED
  BY <1>2, <1>3

\* An id that is not given out has no rows; a row with its link rows is put there.
LEMMA SoundInserted ==
    ASSUME TypeOK, IdInv, Sound, nextId <= MaxId,
           NEW k \in {nextId, -nextId}, NEW row \in Row,
           process' = [process EXCEPT ![k] = row],
           groupRows' = [groupRows EXCEPT ![k] = row.groups],
           UNCHANGED executorRows,
           row.copied \/ row.executors = {}
    PROVE  Sound'
<1>1. k \in Id /\ nextId \in nextId..MaxId
  <2>1. nextId \in 1..(MaxId + 1) /\ MaxId \in Nat
    BY BoundsAssumption DEF TypeOK
  <2>2. nextId \in Id /\ -nextId \in Id
    BY <2>1, IdLemma
  <2> QED
    BY <2>1, <2>2
<1>2. process[k] = NoProcess
  BY <1>1 DEF IdInv, Exists
<1>3. groupRows[k] = {} /\ executorRows[k] = {}
  BY <1>1, <1>2 DEF Sound, RowSound
<1> SUFFICES ASSUME NEW j \in Id
             PROVE  RowSound(process'[j], groupRows'[j], executorRows[j])
  BY DEF Sound
<1>4. CASE j = k
  <2>1. process'[k] = row /\ groupRows'[k] = row.groups /\ row # NoProcess
    BY <1>1, NullAssumption DEF TypeOK
  <2> QED
    BY <1>3, <1>4, <2>1 DEF RowSound
<1>5. CASE j # k
  BY <1>1, <1>5 DEF Sound, TypeOK
<1> QED
  BY <1>4, <1>5

LEMMA SoundFinish ==
    ASSUME TypeOK, Fresh, Sound, NEW u \in User, FinishCreate(u)
    PROVE  Sound'
<1> DEFINE k == req[u].id
<1>1. /\ k \in Id /\ -k \in Id /\ k # -k /\ -(-k) = k
      /\ process[k] # NoProcess /\ process[-k] = NoProcess
      /\ process' = [process EXCEPT ![-k] = process[k], ![k] = NoProcess]
      /\ groupRows' = [groupRows EXCEPT ![-k] = groupRows[-k] \cup groupRows[k], ![k] = {}]
      /\ executorRows' = [executorRows EXCEPT ![-k] = executorRows[-k] \cup executorRows[k],
                                              ![k] = {}]
  BY RequestLemma, IdLemma DEF FinishCreate, Fresh, Exists
<1> HIDE DEF k
<1>2. groupRows[-k] = {} /\ executorRows[-k] = {}
  BY <1>1 DEF Sound, RowSound
<1>3. /\ process'[k] = NoProcess /\ groupRows'[k] = {} /\ executorRows'[k] = {}
      /\ process'[-k] = process[k]
      /\ groupRows'[-k] = groupRows[k] /\ executorRows'[-k] = executorRows[k]
      /\ \A j \in Id : j # k /\ j # -k =>
            process'[j] = process[j] /\ groupRows'[j] = groupRows[j]
            /\ executorRows'[j] = executorRows[j]
  BY <1>1, <1>2 DEF TypeOK
<1> SUFFICES ASSUME NEW j \in Id
             PROVE  RowSound(process'[j], groupRows'[j], executorRows'[j])
  BY DEF Sound
<1>4. RowSound(process[k], groupRows[k], executorRows[k])
      /\ RowSound(process[j], groupRows[j], executorRows[j])
  BY <1>1 DEF Sound
<1>5. CASE j = k
  BY <1>3, <1>5 DEF RowSound
<1>6. CASE j = -k
  BY <1>3, <1>4, <1>6
<1>7. CASE j # k /\ j # -k
  BY <1>3, <1>4, <1>7
<1> QED
  BY <1>5, <1>6, <1>7

\* The groups are saved in both places, with the executors that lose theirs.
LEMMA SoundGroups ==
    ASSUME TypeOK, Fresh, Sound, NEW u \in User, req[u] # NoRequest,
           NEW G \in SUBSET GroupRole, SaveGroups(u, G)
    PROVE  Sound'
<1> DEFINE k == req[u].id
           p == process[k]
           kept == InRoles(p.executors, G)
           q == [p EXCEPT !.groups = G]
           column == [process EXCEPT ![k].groups = G]
<1>1. k \in Id /\ p \in Row /\ p # NoProcess /\ req[u].row = p /\ Exists(k)
  BY RequestLemma DEF Fresh, Exists, TypeOK
<1>2. kept \in SUBSET Executor
  BY <1>1, RowLemma
<1>3. /\ q \in Row /\ q # NoProcess
      /\ q.groups = G /\ q.executors = p.executors /\ q.copied = p.copied
      /\ [q EXCEPT !.executors = kept] \in Row
      /\ [q EXCEPT !.executors = kept] # NoProcess
      /\ [q EXCEPT !.executors = kept].groups = G
      /\ [q EXCEPT !.executors = kept].executors = kept
      /\ [q EXCEPT !.executors = kept].copied = p.copied
  BY <1>1, <1>2, NullAssumption DEF Row
<1>4. column \in [Id -> Row \cup {NoProcess}] /\ column[k] = q
      /\ \A j \in Id \ {k} : column[j] = process[j]
  BY <1>1, <1>3 DEF TypeOK
<1>5. groupRows'[k] = G /\ \A j \in Id \ {k} : groupRows'[j] = groupRows[j]
  BY <1>1 DEF SaveGroups, TypeOK
<1>6. \/ /\ kept = p.executors /\ process' = column /\ executorRows' = executorRows
      \/ /\ process' = ExecutorsColumn(column, k, kept)
         /\ executorRows' = [executorRows EXCEPT ![k] = kept]
  BY <1>1 DEF SaveGroups
<1>7. RowSound(p, groupRows[k], executorRows[k])
  BY <1>1 DEF Sound
<1> HIDE DEF k, p, kept, q, column
<1> SUFFICES ASSUME NEW j \in Id
             PROVE  RowSound(process'[j], groupRows'[j], executorRows'[j])
  BY DEF Sound
<1>9. RowSound(process[j], groupRows[j], executorRows[j])
  BY DEF Sound
<1>10. CASE kept = p.executors /\ process' = column /\ executorRows' = executorRows
  <2>1. CASE j # k
    BY <1>4, <1>5, <1>9, <1>10, <2>1
  <2>2. CASE j = k
    BY <1>1, <1>3, <1>4, <1>5, <1>7, <1>10, <2>2 DEF RowSound
  <2> QED
    BY <2>1, <2>2
<1>11. CASE /\ process' = ExecutorsColumn(column, k, kept)
            /\ executorRows' = [executorRows EXCEPT ![k] = kept]
  <2>1. /\ process'[k] = [q EXCEPT !.executors = kept]
        /\ \A i \in Id \ {k} : process'[i] = process[i]
        /\ executorRows'[k] = kept
        /\ \A i \in Id \ {k} : executorRows'[i] = executorRows[i]
    BY <1>1, <1>3, <1>4, <1>11 DEF ExecutorsColumn, TypeOK
  <2>2. CASE j # k
    BY <1>5, <1>9, <2>1, <2>2
  <2>3. CASE j = k
    BY <1>3, <1>5, <2>1, <2>3 DEF RowSound
  <2> QED
    BY <2>2, <2>3
<1> QED
  BY <1>6, <1>10, <1>11

\* The executors are saved in both places.
LEMMA SoundExecutors ==
    ASSUME TypeOK, Fresh, Sound, NEW u \in User, req[u] # NoRequest,
           NEW G \in SUBSET GroupRole, NEW E \in SUBSET Executor,
           SaveExecutors(u, G, E)
    PROVE  Sound'
<1> DEFINE k == req[u].id
           p == process[k]
           executors == (p.executors \ InRoles(p.executors, G)) \cup E
           q == [p EXCEPT !.executors = executors]
<1>1. k \in Id /\ p \in Row /\ p # NoProcess /\ req[u].row = p
  BY RequestLemma DEF Fresh, Exists, TypeOK
<1>2. executors \in SUBSET Executor
  BY <1>1, RowLemma
<1>3. /\ q \in Row /\ q # NoProcess
      /\ q.groups = p.groups /\ q.executors = executors /\ q.copied = p.copied
  BY <1>1, <1>2, NullAssumption DEF Row
<1>4. RowSound(p, groupRows[k], executorRows[k])
  BY <1>1 DEF Sound
<1>5. /\ process'[k] = q /\ executorRows'[k] = executors /\ groupRows' = groupRows
      /\ \A j \in Id \ {k} : process'[j] = process[j] /\ executorRows'[j] = executorRows[j]
  BY <1>1 DEF SaveExecutors, ExecutorsColumn, TypeOK
<1> HIDE DEF k, p, executors, q
<1> SUFFICES ASSUME NEW j \in Id
             PROVE  RowSound(process'[j], groupRows'[j], executorRows'[j])
  BY DEF Sound
<1>6. CASE j # k
  BY <1>5, <1>6 DEF Sound
<1>7. CASE j = k
  BY <1>1, <1>3, <1>4, <1>5, <1>7 DEF RowSound
<1> QED
  BY <1>6, <1>7

LEMMA SoundStep ==
    ASSUME TypeOK, IdInv, Fresh, Sound, NEW u \in User, Step(u)
    PROVE  Sound'
<1>1. ASSUME NEW t \in Type, NEW G \in SUBSET GroupRole, Create(u, t, G)
      PROVE  Sound'
  <2> DEFINE k == IF t \in WizardType THEN -nextId ELSE nextId
             row == [type |-> t, status |-> CreateStatus[t],
                     closed |-> CreateStatus[t] \in CloseStatus[t],
                     groups |-> G, executors |-> {}, statusType |-> t, copied |-> FALSE]
  <2>1. row \in Row /\ row.groups = G /\ row.executors = {}
    <3>1. CreateStatus[t] \in Status /\ (CreateStatus[t] \in CloseStatus[t]) \in BOOLEAN
      BY TypesAssumption
    <3> QED
      BY <3>1 DEF Row
  <2>2. /\ process' = [process EXCEPT ![k] = row]
        /\ groupRows' = [groupRows EXCEPT ![k] = G]
        /\ executorRows' = executorRows /\ nextId <= MaxId
    BY <1>1 DEF Create
  <2>3. k \in {nextId, -nextId}
    OBVIOUS
  <2> HIDE DEF k, row
  <2> QED
    BY <2>1, <2>2, <2>3, SoundInserted
<1>2. CASE PriorityCommand(u)
  <2>1. req[u].id \in Id /\ req[u].row \in Row
    BY <1>2, RequestLemma DEF PriorityCommand
  <2>2. CASE process' = Written(req[u].id, req[u].row)
    BY <1>2, <2>1, <2>2, SoundWritten DEF PriorityCommand
  <2>3. CASE ~req[u].sees
    <3> DEFINE row == [req[u].row EXCEPT !.closed = FALSE, !.groups = {}, !.copied = TRUE]
    <3>1. row \in Row /\ row.groups = {} /\ row.copied = TRUE
      BY <2>1 DEF Row
    <3>2. process' = [process EXCEPT ![nextId] = row] /\ nextId <= MaxId
          /\ UNCHANGED <<groupRows, executorRows>>
      BY <1>2, <2>3 DEF PriorityCommand
    <3>3. nextId \in nextId..MaxId /\ nextId \in Id
      BY <3>2, IdLemma, BoundsAssumption DEF TypeOK
    <3>4. groupRows[nextId] = {}
      BY <3>3 DEF IdInv, Exists, Sound, RowSound
    <3>5. groupRows' = [groupRows EXCEPT ![nextId] = row.groups]
      BY <3>1, <3>2, <3>3, <3>4 DEF TypeOK
    <3> HIDE DEF row
    <3> QED
      BY <3>1, <3>2, <3>5, SoundInserted
  <2> QED
    BY <1>2, <2>2, <2>3 DEF PriorityCommand
<1>3. CASE RowUpdate(u)
  BY <1>3, RequestLemma, SoundWritten DEF RowUpdate
<1>4. ASSUME NEW s \in Status, StatusUpdate(u, s)
      PROVE  Sound'
  BY <1>4, RequestLemma, RowLemma, SoundWritten DEF StatusUpdate
<1>5. ASSUME NEW t \in Type, TypeUpdate(u, t)
      PROVE  Sound'
  BY <1>5, RequestLemma, RowLemma, SoundWritten DEF TypeUpdate
<1>6. ASSUME NEW G \in SUBSET GroupRole, GroupsUpdate(u, G) \/ GroupsCommand(u, G)
      PROVE  Sound'
  BY <1>6, SaveGroupsLemma, SoundGroups
<1>7. ASSUME \/ \E G \in SUBSET GroupRole, E \in SUBSET Executor : ExecutorsUpdate(u, G, E)
             \/ \E g \in GroupRole, E \in SUBSET Executor : ExecutorsCommand(u, g, E)
      PROVE  Sound'
  BY <1>7, SaveExecutorsLemma, SoundExecutors
<1>8. CASE Delete(u)
  <2>1. req[u].id \in Id
    BY <1>8, RequestLemma DEF Delete
  <2> QED
    BY <1>8, <2>1 DEF Delete, Sound, RowSound, TypeOK
<1>9. ASSUME UNCHANGED tables
      PROVE  Sound'
  BY <1>9 DEF Sound
<1> QED
  BY <1>1, <1>2, <1>3, <1>4, <1>5, <1>6, <1>7, <1>8, <1>9, SoundFinish DEF Step, Open, Fail

-----------------------------------------------------------------------------
(* The status and its history *)

\* No status is changed and no row is inserted.
Kept ==
    \A k \in Id : Exists(k)' =>
        /\ Exists(k)
        /\ process'[k].status = process[k].status
        /\ process'[k].copied = process[k].copied

StatusStepOf(u) ==
    \/ UNCHANGED history /\ Kept
    \/ \E t \in Type, G \in SUBSET GroupRole : Create(u, t, G)
    \/ FinishCreate(u)
    \/ \E s \in Status : StatusUpdate(u, s)
    \/ PriorityCommand(u) /\ ~req[u].sees

LEMMA KeptWritten ==
    ASSUME TypeOK, NEW k \in Id, NEW row \in Row, process' = Written(k, row),
           row.status = process[k].status
    PROVE  Kept
<1> SUFFICES ASSUME NEW j \in Id, Exists(j)'
             PROVE  /\ Exists(j)
                    /\ process'[j].status = process[j].status
                    /\ process'[j].copied = process[j].copied
  BY DEF Kept
<1>1. CASE j # k \/ ~Exists(k)
  <2>1. process'[j] = process[j]
    BY <1>1, WrittenLemma DEF Written
  <2> QED
    BY <2>1 DEF Exists
<1>2. CASE j = k /\ Exists(k)
  <2>1. process'[k] = [row EXCEPT !.groups = process[k].groups,
                                  !.executors = process[k].executors,
                                  !.copied = process[k].copied]
    BY <1>2, WrittenLemma
  <2>2. process'[k].status = row.status /\ process'[k].copied = process[k].copied
    BY <2>1 DEF Row
  <2> QED
    BY <1>2, <2>2
<1> QED
  BY <1>1, <1>2

LEMMA KeptGroups ==
    ASSUME TypeOK, NEW u \in User, req[u] # NoRequest,
           NEW G \in SUBSET GroupRole, SaveGroups(u, G)
    PROVE  Kept
<1> DEFINE k == req[u].id
           kept == InRoles(req[u].row.executors, G)
           column == IF Exists(k) THEN [process EXCEPT ![k].groups = G] ELSE process
<1>1. k \in Id /\ process' \in {column, ExecutorsColumn(column, k, kept)}
  BY RequestLemma DEF SaveGroups
<1>2. \A row \in Row : \A H :
         /\ [row EXCEPT !.groups = G] \in Row
         /\ [row EXCEPT !.groups = G].status = row.status
         /\ [row EXCEPT !.groups = G].copied = row.copied
         /\ [row EXCEPT !.executors = H].status = row.status
         /\ [row EXCEPT !.executors = H].copied = row.copied
  BY DEF Row
<1> HIDE DEF k, kept
<1> SUFFICES ASSUME NEW j \in Id, process'[j] # NoProcess
             PROVE  /\ process[j] # NoProcess
                    /\ process'[j].status = process[j].status
                    /\ process'[j].copied = process[j].copied
  BY DEF Kept, Exists
<1>3. CASE j # k \/ process[k] = NoProcess
  <2>1. column[j] = process[j]
    BY <1>1, <1>3 DEF Exists, TypeOK
  <2>2. column[k] = NoProcess \/ j # k
    BY <1>3, <2>1
  <2>3. process'[j] = process[j]
    BY <1>1, <1>3, <2>1, <2>2 DEF ExecutorsColumn, Exists, TypeOK
  <2> QED
    BY <2>3
<1>4. CASE j = k /\ process[k] # NoProcess
  <2>1. process[k] \in Row
    BY <1>4 DEF TypeOK
  <2>2. column[k] = [process[k] EXCEPT !.groups = G] /\ column[k] \in Row
        /\ column = [process EXCEPT ![k] = column[k]]
    BY <1>1, <1>2, <1>4, <2>1 DEF Exists, TypeOK
  <2>3. \/ process'[k] = column[k]
        \/ process'[k] = [column[k] EXCEPT !.executors = kept]
    BY <1>1, <2>1, <2>2, NullAssumption DEF ExecutorsColumn, TypeOK
  <2>4. column[k].status = process[k].status /\ column[k].copied = process[k].copied
    BY <1>2, <2>1, <2>2
  <2> HIDE DEF column
  <2>5. CASE process'[k] = column[k]
    BY <1>4, <2>4, <2>5
  <2>6. CASE process'[k] = [column[k] EXCEPT !.executors = kept]
    <3>1. /\ [column[k] EXCEPT !.executors = kept].status = column[k].status
          /\ [column[k] EXCEPT !.executors = kept].copied = column[k].copied
      BY <1>2, <2>2
    <3> QED
      BY <1>4, <2>4, <2>6, <3>1
  <2> QED
    BY <2>3, <2>5, <2>6
<1> QED
  BY <1>3, <1>4

LEMMA KeptExecutors ==
    ASSUME TypeOK, NEW u \in User, req[u] # NoRequest,
           NEW G \in SUBSET GroupRole, NEW E \in SUBSET Executor, SaveExecutors(u, G, E)
    PROVE  Kept
<1>1. req[u].id \in Id
  BY RequestLemma
<1>2. \A k \in Id : process[k] # NoProcess => process[k] \in Row
  BY DEF TypeOK
<1>3. \A row \in Row : \A H :
         /\ [row EXCEPT !.executors = H].status = row.status
         /\ [row EXCEPT !.executors = H].copied = row.copied
  BY DEF Row
<1> QED
  BY <1>1, <1>2, <1>3 DEF SaveExecutors, ExecutorsColumn, Exists, Kept, TypeOK

LEMMA StatusStep ==
    ASSUME TypeOK, Fresh, NEW u \in User, Step(u)
    PROVE  StatusStepOf(u)
<1>1. CASE PriorityCommand(u)
  <2>1. req[u].id \in Id /\ req[u].row \in Row /\ req[u].row = process[req[u].id]
    BY <1>1, RequestLemma DEF PriorityCommand, Fresh
  <2>2. CASE process' = Written(req[u].id, req[u].row)
    BY <1>1, <2>1, <2>2, KeptWritten DEF PriorityCommand, StatusStepOf
  <2> QED
    BY <1>1, <2>2 DEF PriorityCommand, StatusStepOf
<1>2. CASE RowUpdate(u)
  <2>1. req[u].id \in Id /\ req[u].row \in Row /\ req[u].row = process[req[u].id]
    BY <1>2, RequestLemma DEF RowUpdate, Fresh
  <2> QED
    BY <1>2, <2>1, KeptWritten DEF RowUpdate, StatusStepOf
<1>3. ASSUME NEW t \in Type, TypeUpdate(u, t)
      PROVE  StatusStepOf(u)
  <2>1. req[u].id \in Id /\ req[u].row \in Row /\ req[u].row = process[req[u].id]
    BY <1>3, RequestLemma DEF TypeUpdate, Fresh
  <2>2. [req[u].row EXCEPT !.type = t] \in Row
        /\ [req[u].row EXCEPT !.type = t].status = req[u].row.status
    BY <2>1 DEF Row
  <2>3. process' = Written(req[u].id, [req[u].row EXCEPT !.type = t]) /\ UNCHANGED history
    BY <1>3 DEF TypeUpdate
  <2>4. Kept
    BY <2>1, <2>2, <2>3, KeptWritten
  <2> QED
    BY <2>3, <2>4 DEF StatusStepOf
<1>4. ASSUME NEW G \in SUBSET GroupRole, GroupsUpdate(u, G) \/ GroupsCommand(u, G)
      PROVE  StatusStepOf(u)
  BY <1>4, SaveGroupsLemma, KeptGroups DEF SaveGroups, StatusStepOf
<1>5. ASSUME \/ \E G \in SUBSET GroupRole, E \in SUBSET Executor : ExecutorsUpdate(u, G, E)
             \/ \E g \in GroupRole, E \in SUBSET Executor : ExecutorsCommand(u, g, E)
      PROVE  StatusStepOf(u)
  BY <1>5, SaveExecutorsLemma, KeptExecutors DEF SaveExecutors, StatusStepOf
<1>6. CASE Delete(u)
  <2>1. req[u].id \in Id
    BY <1>6, RequestLemma DEF Delete
  <2> QED
    BY <1>6, <2>1 DEF Delete, Exists, Kept, StatusStepOf, TypeOK
<1>7. ASSUME UNCHANGED tables
      PROVE  StatusStepOf(u)
  BY <1>7 DEF Exists, Kept, StatusStepOf
<1> QED
  BY <1>1, <1>2, <1>3, <1>4, <1>5, <1>6, <1>7 DEF Step, Open, Fail, StatusStepOf

LEMMA NewestAdded ==
    ASSUME NEW rows \in Seq(HistoryRow), NEW s \in Status
    PROVE  Newest(HistoryAdded(rows, s), s)
<1>1. /\ HistoryAdded(rows, s) \in Seq(HistoryRow)
      /\ Len(HistoryAdded(rows, s)) = Len(rows) + 1
      /\ HistoryAdded(rows, s)[Len(rows) + 1] = [status |-> s, last |-> TRUE]
  BY HistoryAddedLemma
<1>2. Len(rows) \in Nat
  OBVIOUS
<1>3. HistoryAdded(rows, s) # <<>>
  BY <1>1, <1>2
<1> QED
  BY <1>1, <1>3 DEF Newest

LEMMA NewestStep ==
    ASSUME TypeOK, TypeOK', IdInv, IdInv', Fresh, StatusIsNewest, NEW u \in User, Step(u)
    PROVE  StatusIsNewest'
<1> SUFFICES ASSUME NEW k \in Id, process'[k] # NoProcess, ~process'[k].copied
             PROVE  \/ Newest(history'[k], process'[k].status)
                    \/ Newest(history'[-k], process'[k].status)
  BY DEF StatusIsNewest, Exists
<1>0. -k \in Id /\ k # -k /\ -(-k) = k
  BY IdLemma
<1>1. CASE UNCHANGED history /\ Kept
  BY <1>1 DEF Kept, Exists, StatusIsNewest
<1>2. ASSUME NEW t \in Type, NEW G \in SUBSET GroupRole, Create(u, t, G)
      PROVE  \/ Newest(history'[k], process'[k].status)
             \/ Newest(history'[-k], process'[k].status)
  <2> DEFINE n == IF t \in WizardType THEN -nextId ELSE nextId
             row == [type |-> t, status |-> CreateStatus[t],
                     closed |-> CreateStatus[t] \in CloseStatus[t],
                     groups |-> G, executors |-> {}, statusType |-> t, copied |-> FALSE]
             added == HistoryAdded(history[nextId], CreateStatus[t])
  <2>1. /\ nextId \in nextId..MaxId /\ nextId \in Id /\ -nextId \in Id
        /\ n \in {nextId, -nextId} /\ -(-nextId) = nextId /\ nextId # -nextId
    BY <1>2, IdLemma, BoundsAssumption DEF Create, TypeOK
  <2>2. /\ process' = [process EXCEPT ![n] = row]
        /\ history' = [history EXCEPT ![nextId] = added]
    BY <1>2 DEF Create
  <2>3. Newest(added, CreateStatus[t]) /\ row.status = CreateStatus[t]
    BY <2>1, NewestAdded, TypesAssumption DEF TypeOK
  <2>4. process[nextId] = NoProcess /\ process[-nextId] = NoProcess
    BY <2>1 DEF IdInv, Exists
  <2> HIDE DEF n, row, added
  <2>5. CASE k = n
    <3>1. process'[k].status = CreateStatus[t] /\ history'[nextId] = added
      BY <2>1, <2>2, <2>3, <2>5 DEF TypeOK
    <3> QED
      BY <1>0, <2>1, <2>3, <2>5, <3>1
  <2>6. CASE k # n
    <3>1. process'[k] = process[k]
      BY <2>1, <2>2, <2>6 DEF TypeOK
    <3>2. k # nextId /\ k # -nextId
      BY <2>4, <3>1
    <3>3. -k # nextId
      BY <1>0, <3>2
    <3>4. history'[k] = history[k] /\ history'[-k] = history[-k]
      BY <1>0, <2>2, <3>2, <3>3 DEF TypeOK
    <3> QED
      BY <3>1, <3>4 DEF StatusIsNewest, Exists
  <2> QED
    BY <2>5, <2>6
<1>3. CASE FinishCreate(u)
  <2> DEFINE n == req[u].id
  <2>1. /\ n \in Id /\ -n \in Id /\ n # -n /\ -(-n) = n
        /\ process[n] # NoProcess
        /\ process' = [process EXCEPT ![-n] = process[n], ![n] = NoProcess]
        /\ history' = history
    BY <1>3, RequestLemma, IdLemma DEF FinishCreate, Fresh, Exists
  <2> HIDE DEF n
  <2>2. process'[n] = NoProcess /\ process'[-n] = process[n]
        /\ \A j \in Id : j # n /\ j # -n => process'[j] = process[j]
    BY <2>1 DEF TypeOK
  <2>3. CASE k = -n
    BY <2>1, <2>2, <2>3 DEF StatusIsNewest, Exists
  <2>4. CASE k # -n
    BY <2>1, <2>2, <2>4 DEF StatusIsNewest, Exists
  <2> QED
    BY <2>3, <2>4
<1>4. ASSUME NEW s \in Status, StatusUpdate(u, s)
      PROVE  \/ Newest(history'[k], process'[k].status)
             \/ Newest(history'[-k], process'[k].status)
  <2> DEFINE n == req[u].id
             row == StatusSet(req[u].row, s)
             added == HistoryAdded(history[n], s)
  <2>1. /\ n \in Id /\ req[u].row \in Row /\ row \in Row
        /\ process[n] # NoProcess
        /\ process' = Written(n, row)
        /\ history' = [history EXCEPT ![n] = added]
        /\ nextId' = nextId
    BY <1>4, RequestLemma, RowLemma DEF StatusUpdate, Fresh, Exists
  <2>2. Newest(added, s)
    BY <2>1, NewestAdded DEF TypeOK
  <2>3. row.status = s
    BY <2>1 DEF StatusSet, Row
  <2> HIDE DEF n, row, added
  <2>4. CASE k = n
    <3>1. process'[k] = [row EXCEPT !.groups = process[k].groups,
                                    !.executors = process[k].executors,
                                    !.copied = process[k].copied]
      BY <2>1, <2>4, WrittenLemma DEF Exists
    <3>2. process'[k].status = s
      BY <2>1, <2>3, <3>1 DEF Row
    <3>3. history'[k] = added
      BY <2>1, <2>4 DEF TypeOK
    <3> QED
      BY <2>2, <3>2, <3>3
  <2>5. CASE k # n
    <3>1. process'[k] = process[k]
      <4>1. \A j \in Id : j # n => Written(n, row)[j] = process[j]
        BY <2>1, WrittenLemma
      <4> QED
        BY <2>1, <2>5, <4>1
    <3>2. k # -n
      <4>1. ~(process[k] # NoProcess /\ process[-k] # NoProcess)
        BY <1>0, BoundsAssumption DEF IdInv, OneSign, Exists, Id
      <4> QED
        BY <1>0, <2>1, <3>1, <4>1, IdLemma
    <3>3. -k # n
      BY <1>0, <2>1, <3>2, IdLemma
    <3>4. history'[k] = history[k] /\ history'[-k] = history[-k]
      BY <1>0, <2>1, <2>5, <3>3 DEF TypeOK
    <3> QED
      BY <3>1, <3>4 DEF StatusIsNewest, Exists
  <2> QED
    BY <2>4, <2>5
<1>5. CASE PriorityCommand(u) /\ ~req[u].sees
  <2> DEFINE row == [req[u].row EXCEPT !.closed = FALSE, !.groups = {}, !.copied = TRUE]
  <2>1. /\ process' = [process EXCEPT ![nextId] = row]
        /\ history' = history /\ nextId <= MaxId
    BY <1>5 DEF PriorityCommand
  <2>2. row.copied = TRUE
    BY <1>5, RequestLemma DEF PriorityCommand, Row
  <2>3. nextId \in Id
    BY <2>1, IdLemma DEF TypeOK
  <2> HIDE DEF row
  <2>4. k # nextId /\ process'[k] = process[k]
    BY <2>1, <2>2, <2>3 DEF TypeOK
  <2> QED
    BY <2>1, <2>4 DEF StatusIsNewest, Exists
<1> QED
  BY <1>1, <1>2, <1>3, <1>4, <1>5, StatusStep DEF StatusStepOf

\* The status of one process in a step.
Moved(k) ==
    Exists(k) /\ Exists(k)' =>
        \/ process'[k].status = process[k].status
        \/ <<process[k].status, process'[k].status>> \in Enabled[process[k].type]

LEMMA MovedStep ==
    ASSUME TypeOK, IdInv, Fresh, NEW u \in User, Step(u), NEW k \in Id
    PROVE  Moved(k)
<1> SUFFICES ASSUME process[k] # NoProcess, process'[k] # NoProcess
             PROVE  \/ process'[k].status = process[k].status
                    \/ <<process[k].status, process'[k].status>> \in Enabled[process[k].type]
  BY DEF Moved, Exists
<1>1. CASE UNCHANGED history /\ Kept
  BY <1>1 DEF Kept, Exists
<1>2. ASSUME nextId <= MaxId, NEW n \in {nextId, -nextId}, NEW row,
             process' = [process EXCEPT ![n] = row]
      PROVE  process'[k] = process[k]
  <2>1. /\ nextId \in nextId..MaxId /\ nextId \in Id /\ -nextId \in Id
    <3>1. nextId \in 1..(MaxId + 1) /\ MaxId \in Nat
      BY BoundsAssumption DEF TypeOK
    <3> QED
      BY <1>2, <3>1, IdLemma
  <2>2. process[n] = NoProcess
    BY <1>2, <2>1 DEF IdInv, Exists
  <2> QED
    BY <1>2, <2>2 DEF TypeOK
<1>3. ASSUME NEW t \in Type, NEW G \in SUBSET GroupRole, Create(u, t, G)
      PROVE  process'[k] = process[k]
  BY <1>2, <1>3 DEF Create
<1>4. CASE PriorityCommand(u) /\ ~req[u].sees
  BY <1>2, <1>4 DEF PriorityCommand
<1>5. CASE FinishCreate(u)
  <2> DEFINE n == req[u].id
  <2>1. /\ n \in Id /\ -n \in Id /\ n # -n
        /\ process[-n] = NoProcess
        /\ process' = [process EXCEPT ![-n] = process[n], ![n] = NoProcess]
    BY <1>5, RequestLemma, IdLemma DEF FinishCreate, Fresh, Exists
  <2> HIDE DEF n
  <2> QED
    BY <2>1 DEF TypeOK
<1>6. ASSUME NEW s \in Status, StatusUpdate(u, s)
      PROVE  \/ process'[k].status = process[k].status
             \/ <<process[k].status, process'[k].status>> \in Enabled[process[k].type]
  <2> DEFINE n == req[u].id
             row == StatusSet(req[u].row, s)
  <2>1. /\ n \in Id /\ req[u].row = process[n] /\ row \in Row
        /\ process' = Written(n, row)
        /\ <<process[n].status, s>> \in Enabled[process[n].type]
        /\ row.status = s
    <3>1. req[u] # NoRequest
      BY <1>6 DEF StatusUpdate
    <3>2. n \in Id /\ req[u].row \in Row /\ req[u].row = process[n]
      BY <3>1, RequestLemma DEF Fresh
    <3>3. row \in Row /\ row.status = s
      BY <3>2, RowLemma DEF StatusSet, Row
    <3> QED
      BY <1>6, <3>2, <3>3 DEF StatusUpdate
  <2> HIDE DEF n, row
  <2>2. CASE k = n
    <3>1. process'[k] = [row EXCEPT !.groups = process[k].groups,
                                    !.executors = process[k].executors,
                                    !.copied = process[k].copied]
      BY <2>1, <2>2, WrittenLemma DEF Exists
    <3>2. process'[k].status = s
      BY <2>1, <3>1 DEF Row
    <3> QED
      BY <2>1, <2>2, <3>2
  <2>3. CASE k # n
    <3>1. \A j \in Id : j # n => Written(n, row)[j] = process[j]
      BY <2>1, WrittenLemma
    <3> QED
      BY <2>1, <2>3, <3>1
  <2> QED
    BY <2>2, <2>3
<1> QED
  BY <1>1, <1>3, <1>4, <1>5, <1>6, StatusStep DEF StatusStepOf

-----------------------------------------------------------------------------
(* Theorems *)

LEMMA SerialStep ==
    ASSUME SerialInv, [SerialNext]_vars
    PROVE  /\ SerialInv'
           /\ [\A k \in Id : Moved(k)]_vars
<1>1. ASSUME NEW u \in User, Alone(u), Step(u)
      PROVE  SerialInv' /\ \A k \in Id : Moved(k)
  <2>1. TypeOK'
    BY <1>1, TypeStep DEF SerialInv
  <2>2. IdInv'
    BY <1>1, IdStep, IdPreserved DEF SerialInv
  <2>3. Fresh'
    BY <1>1, FreshStep DEF SerialInv
  <2>4. Sound'
    BY <1>1, SoundStep DEF SerialInv
  <2>5. StatusIsNewest'
    BY <1>1, <2>1, <2>2, NewestStep DEF SerialInv
  <2>6. \A k \in Id : Moved(k)
    BY <1>1, MovedStep DEF SerialInv
  <2> QED
    BY <2>1, <2>2, <2>3, <2>4, <2>5, <2>6 DEF SerialInv
<1>2. CASE UNCHANGED vars
  BY <1>2 DEF vars, SerialInv, TypeOK, IdInv, OneSign, Fresh, Sound, StatusIsNewest, Exists
<1> QED
  BY <1>1, <1>2 DEF SerialNext

LEMMA SerialInit == Init => SerialInv
<1> SUFFICES ASSUME Init
             PROVE  SerialInv
  OBVIOUS
<1>1. TypeOK
  BY TypeInit
<1>2. IdInv
  BY IdLemma, BoundsAssumption DEF Init, IdInv, OneSign, Exists, Id
<1>3. Fresh /\ Sound /\ StatusIsNewest
  BY DEF Init, Fresh, Sound, RowSound, StatusIsNewest, Exists
<1> QED
  BY <1>1, <1>2, <1>3 DEF SerialInv

LEMMA SerialInvariant == SerialSpec => []SerialInv
  BY SerialInit, SerialStep, PTL DEF SerialSpec

\* Of requests that do not overlap: the text columns of a process list the groups
\* and executors that its link tables list.
THEOREM ColumnsRepeatTables == SerialSpec => []ColumnsMatchTables
<1>1. SerialInv => ColumnsMatchTables
  BY DEF SerialInv, Sound, RowSound, ColumnsMatchTables, Exists
<1> QED
  BY <1>1, SerialInvariant, PTL

\* Of requests that do not overlap: what is deleted or gets another id leaves no
\* rows in the link tables.
THEOREM NothingOrphaned == SerialSpec => []NoOrphanRows
<1>1. SerialInv => NoOrphanRows
  BY DEF SerialInv, Sound, RowSound, NoOrphanRows, Exists
<1> QED
  BY <1>1, SerialInvariant, PTL

\* Of requests that do not overlap: the status of a process is the newest in
\* the history, under the one id or the other.
THEOREM HistoryAgrees == SerialSpec => []StatusIsNewest
  BY SerialInvariant, PTL DEF SerialInv

\* Of requests that do not overlap: a status changes only as the type allows.
THEOREM MovesAreEnabled == SerialSpec => StatusMovesEnabled
<1>1. SerialInv /\ [SerialNext]_vars => [\A k \in Id : Moved(k)]_vars
  BY SerialStep
<1>2. [\A k \in Id : Moved(k)]_vars =>
      [\A k \in Id : Exists(k) /\ Exists(k)' =>
          \/ process'[k].status = process[k].status
          \/ <<process[k].status, process'[k].status>> \in Enabled[process[k].type]]_vars
  BY DEF Moved
<1> QED
  BY <1>1, <1>2, SerialInvariant, PTL DEF SerialSpec, StatusMovesEnabled

-----------------------------------------------------------------------------
(* The requests implement the atomic card *)

\* The number of the process with an id.
NumberOf(j) == IF j > 0 THEN j ELSE -j

\* The card of a process is its row, under whichever sign.
LEMMA CardLemma ==
    ASSUME TypeOK, IdInv, NEW j \in Id, Exists(j)
    PROVE  /\ NumberOf(j) \in 1..MaxId
           /\ ~Exists(-j)
           /\ Card[NumberOf(j)] = process[j]
           /\ process[j] \in Row /\ process[j] # NoProcess
<1>1. /\ j \in Int /\ -j \in Id /\ -(-j) = j
      /\ (j \in 1..MaxId) \/ (-j \in 1..MaxId /\ ~(j > 0))
  BY BoundsAssumption DEF Id
<1>2. ~Exists(-j)
  BY <1>1 DEF IdInv, OneSign
<1>3. NumberOf(j) \in 1..MaxId /\ Card[NumberOf(j)] = process[j]
  <2>1. CASE j \in 1..MaxId
    BY <2>1 DEF NumberOf, Card, Exists
  <2>2. CASE -j \in 1..MaxId /\ ~(j > 0)
    BY <1>1, <1>2, <2>2 DEF NumberOf, Card, Exists
  <2> QED
    BY <1>1, <2>1, <2>2
<1> QED
  BY <1>2, <1>3 DEF TypeOK, Exists

\* What a row that is written makes of the cards.
LEMMA CardWritten ==
    ASSUME TypeOK, IdInv, NEW j \in Id, ~Exists(-j), NEW p,
           process' = [process EXCEPT ![j] = p]
    PROVE  /\ Card' = [Card EXCEPT ![NumberOf(j)] = p]
           /\ p # NoProcess => Finished' = IF j > 0 THEN Finished \cup {j} ELSE Finished
           /\ p = NoProcess => Finished' = Finished \ {NumberOf(j)}
<1>1. /\ j \in Int /\ -j \in Id /\ -(-j) = j /\ j # -j
      /\ (j \in 1..MaxId) \/ (-j \in 1..MaxId /\ ~(j > 0) /\ j \notin 1..MaxId)
      /\ \A k \in 1..MaxId : k \in Id /\ -k \in Id /\ k \in Int /\ k > 0
  BY BoundsAssumption DEF Id
<1>2. process'[j] = p /\ \A i \in Id \ {j} : process'[i] = process[i]
  BY DEF TypeOK
<1>3. ASSUME NEW k \in 1..MaxId, k # NumberOf(j)
      PROVE  Card'[k] = Card[k] /\ (k \in Finished' <=> k \in Finished)
  <2>1. k \in Id \ {j} /\ -k \in Id \ {j}
    BY <1>1, <1>3 DEF NumberOf
  <2> QED
    BY <1>2, <2>1 DEF Card, Finished, Exists
<1>4. CASE j \in 1..MaxId
  <2>1. NumberOf(j) = j /\ j > 0
    BY <1>1, <1>4 DEF NumberOf
  <2>2. Card'[j] = p
    BY <1>1, <1>2, <1>4 DEF Card, Exists
  <2>3. j \in Finished' <=> p # NoProcess
    BY <1>2, <1>4 DEF Finished, Exists
  <2>4. Card' = [Card EXCEPT ![j] = p]
    BY <1>3, <1>4, <2>1, <2>2 DEF Card, Exists
  <2> QED
    BY <1>3, <1>4, <2>1, <2>3, <2>4 DEF Finished, Exists
<1>5. CASE -j \in 1..MaxId /\ ~(j > 0) /\ j \notin 1..MaxId
  <2>1. NumberOf(j) = -j
    BY <1>5 DEF NumberOf
  <2>2. process'[-j] = NoProcess /\ process[-j] = NoProcess
    BY <1>1, <1>2 DEF Exists
  <2>3. Card'[-j] = p
    BY <1>1, <1>2, <1>5, <2>2 DEF Card, Exists
  <2>4. -j \notin Finished' /\ -j \notin Finished
    BY <2>2 DEF Finished, Exists
  <2>5. Card' = [Card EXCEPT ![-j] = p]
    BY <1>3, <1>5, <2>1, <2>3 DEF Card, Exists
  <2>6. Finished' = Finished
    BY <1>3, <2>1, <2>4 DEF Finished, Exists
  <2> QED
    BY <1>5, <2>1, <2>4, <2>5, <2>6
<1> QED
  BY <1>1, <1>4, <1>5

\* A row of a process is replaced by another.
LEMMA CardPut ==
    ASSUME TypeOK, IdInv, NEW j \in Id, Exists(j), NEW p \in Row,
           process' = [process EXCEPT ![j] = p], UNCHANGED nextId
    PROVE  /\ Atomic!Put(NumberOf(j), p)
           /\ Atomic!Exists(NumberOf(j))
           /\ Atomic!Exists(NumberOf(j))'
           /\ Card'[NumberOf(j)] = p
<1>1. /\ NumberOf(j) \in 1..MaxId /\ ~Exists(-j)
      /\ Card[NumberOf(j)] = process[j] /\ process[j] # NoProcess
  BY CardLemma
<1>2. p # NoProcess
  BY NullAssumption
<1>3. /\ Card' = [Card EXCEPT ![NumberOf(j)] = p]
      /\ Finished' = IF j > 0 THEN Finished \cup {j} ELSE Finished
  BY <1>1, <1>2, CardWritten
<1>4. j > 0 => j \in Finished
  BY <1>1 DEF NumberOf, Finished, Exists
<1>5. Card'[NumberOf(j)] = p
  BY <1>1, <1>3 DEF Card, Exists
<1> QED
  BY <1>1, <1>2, <1>3, <1>4, <1>5 DEF Atomic!Put, Atomic!Exists

\* A card that is put where one was is put by a step, or is the same.
LEMMA PutLemma ==
    ASSUME NEW k \in 1..MaxId,
           \/ Atomic!SetStatus(k) \/ Atomic!SetType(k)
           \/ Atomic!SetGroups(k) \/ Atomic!SetExecutors(k)
    PROVE  [Atomic!Next]_(Atomic!vars)
<1>1. PICK c : Atomic!Put(k, c)
  BY DEF Atomic!SetStatus, Atomic!SetType, Atomic!SetGroups, Atomic!SetExecutors
<1>2. CASE Card'[k] = Card[k]
  <2>1. Card' = [Card EXCEPT ![k] = c] /\ UNCHANGED <<Finished, 1..(nextId - 1)>>
    BY <1>1 DEF Atomic!Put
  <2>2. Card' = Card
    BY <1>2, <2>1 DEF Card, Exists
  <2> QED
    BY <2>1, <2>2 DEF Atomic!vars
<1>3. CASE Card'[k] # Card[k]
  BY <1>3 DEF Atomic!Next, Atomic!Change
<1> QED
  BY <1>2, <1>3

\* The groups that a handler saves are allowed, or the process had them.
LEMMA SavedGroupsAllowed ==
    ASSUME TypeOK, NEW u \in User, NEW G \in SUBSET GroupRole,
           GroupsUpdate(u, G) \/ GroupsCommand(u, G)
    PROVE  /\ req[u] # NoRequest
           /\ \E H \in SUBSET GroupRole :
                 /\ SaveGroups(u, H)
                 /\ AllowedGroups[req[u].row.type] # {} =>
                       H \ req[u].row.groups \subseteq AllowedGroups[req[u].row.type]
<1>1. CASE GroupsUpdate(u, G)
  BY <1>1 DEF GroupsUpdate
<1>2. CASE GroupsCommand(u, G)
  <2> DEFINE allowed == AllowedGroups[req[u].row.type]
             added == IF allowed = {} THEN G ELSE G \cap allowed
             H == req[u].row.groups \cup added
  <2>1. req[u] # NoRequest /\ req[u].row.groups \in SUBSET GroupRole
    BY <1>2, RequestLemma, RowLemma DEF GroupsCommand
  <2>2. /\ H \in SUBSET GroupRole /\ {} \in SUBSET GroupRole
        /\ allowed # {} => H \ req[u].row.groups \subseteq allowed
    BY <2>1
  <2>3. SaveGroups(u, H) \/ SaveGroups(u, {})
    BY <1>2 DEF GroupsCommand
  <2> HIDE DEF H
  <2> QED
    BY <2>1, <2>2, <2>3
<1> QED
  BY <1>1, <1>2

\* An id that is given out for the first time.
LEMMA AtomicNew ==
    ASSUME TypeOK, IdInv, nextId <= MaxId, nextId' = nextId + 1,
           NEW j \in {nextId, -nextId}, NEW p \in Row, process' = [process EXCEPT ![j] = p]
    PROVE  /\ nextId \in 1..MaxId
           /\ nextId \notin 1..(nextId - 1)
           /\ Atomic!PutNew(nextId, p)
           /\ Finished' = IF j = nextId THEN Finished \cup {nextId} ELSE Finished
           /\ Card'[nextId] # Card[nextId]
<1>1. /\ nextId \in 1..MaxId /\ nextId \in nextId..MaxId /\ nextId \notin 1..(nextId - 1)
      /\ nextId \in Id /\ -nextId \in Id /\ -(-nextId) = nextId
      /\ ~(-nextId > 0) /\ nextId > 0 /\ -nextId # nextId
      /\ 1..(nextId' - 1) = 1..(nextId - 1) \cup {nextId}
  <2>1. nextId \in 1..(MaxId + 1) /\ MaxId \in Nat
    BY BoundsAssumption DEF TypeOK
  <2> QED
    BY <2>1, IdLemma
<1>2. ~Exists(nextId) /\ ~Exists(-nextId)
  BY <1>1 DEF IdInv
<1>3. NumberOf(j) = nextId /\ j \in Id /\ ~Exists(-j) /\ (j > 0 <=> j = nextId)
  BY <1>1, <1>2 DEF NumberOf
<1>4. p # NoProcess
  BY NullAssumption
<1>5. /\ Card' = [Card EXCEPT ![nextId] = p]
      /\ Finished' = IF j > 0 THEN Finished \cup {j} ELSE Finished
  BY <1>3, <1>4, CardWritten
<1>6. Card[nextId] = NoProcess /\ Card'[nextId] = p
  BY <1>1, <1>2, <1>5 DEF Card, Exists
<1> QED
  BY <1>1, <1>3, <1>4, <1>5, <1>6 DEF Atomic!PutNew

\* Creation, of the process of a wizard or another.
LEMMA AtomicCreate ==
    ASSUME TypeOK, IdInv, NEW u \in User, NEW t \in Type, NEW G \in SUBSET GroupRole,
           Create(u, t, G)
    PROVE  Atomic!Next
<1> DEFINE j == IF t \in WizardType THEN -nextId ELSE nextId
           p == [type |-> t, status |-> CreateStatus[t],
                 closed |-> CreateStatus[t] \in CloseStatus[t],
                 groups |-> G, executors |-> {}, statusType |-> t, copied |-> FALSE]
<1>1. p \in Row
  <2>1. CreateStatus[t] \in Status /\ (CreateStatus[t] \in CloseStatus[t]) \in BOOLEAN
    BY TypesAssumption
  <2> QED
    BY <2>1 DEF Row
<1>2. /\ nextId <= MaxId /\ nextId' = nextId + 1 /\ j \in {nextId, -nextId}
      /\ process' = [process EXCEPT ![j] = p]
  BY DEF Create
<1>3. /\ nextId \in 1..MaxId /\ nextId \notin 1..(nextId - 1)
      /\ Atomic!PutNew(nextId, p)
      /\ Finished' = IF j = nextId THEN Finished \cup {nextId} ELSE Finished
      /\ Card'[nextId] # Card[nextId]
  <2> HIDE DEF j, p
  <2> QED
    BY <1>1, <1>2, AtomicNew
<1>4. j = nextId <=> t \notin WizardType
  BY <1>3
<1>5. Atomic!Create(nextId)
  BY <1>3, <1>4 DEF Atomic!Create
<1> QED
  BY <1>3, <1>5 DEF Atomic!Next, Atomic!Change

\* The change of a priority of a process that its user does not see.
LEMMA AtomicCopy ==
    ASSUME TypeOK, IdInv, Fresh, NEW u \in User, PriorityCommand(u), ~req[u].sees
    PROVE  Atomic!Next
<1> DEFINE j == req[u].id
           q == process[j]
           p == [q EXCEPT !.closed = FALSE, !.groups = {}, !.copied = TRUE]
<1>1. j \in Id /\ Exists(j) /\ req[u].row = q
  BY RequestLemma DEF PriorityCommand, Fresh
<1>2. NumberOf(j) \in 1..MaxId /\ Card[NumberOf(j)] = q /\ q \in Row /\ q # NoProcess
  BY <1>1, CardLemma
<1>3. p \in Row
  BY <1>2 DEF Row
<1>4. /\ nextId <= MaxId /\ nextId' = nextId + 1
      /\ process' = [process EXCEPT ![nextId] = p]
  BY <1>1 DEF PriorityCommand
<1>5. /\ nextId \in 1..MaxId /\ nextId \notin 1..(nextId - 1)
      /\ Atomic!PutNew(nextId, p)
      /\ Finished' = Finished \cup {nextId}
      /\ Card'[nextId] # Card[nextId]
  <2> HIDE DEF p
  <2> QED
    BY <1>3, <1>4, AtomicNew
<1>6. Atomic!Copy(nextId)
  BY <1>2, <1>5 DEF Atomic!Copy, Atomic!Exists
<1> QED
  BY <1>5, <1>6 DEF Atomic!Next, Atomic!Change

\* The end of a wizard, and a return to it, change the sign of the id and nothing
\* of the card.
LEMMA AtomicFinish ==
    ASSUME TypeOK, IdInv, Fresh, NEW u \in User, FinishCreate(u)
    PROVE  Atomic!Next
<1> DEFINE j == req[u].id
           k == NumberOf(j)
<1>1. /\ j \in Id /\ -j \in Id /\ -(-j) = j /\ j # -j /\ j \in Int /\ Exists(j)
      /\ process' = [process EXCEPT ![-j] = process[j], ![j] = NoProcess]
      /\ UNCHANGED nextId
  BY RequestLemma, IdLemma, BoundsAssumption DEF FinishCreate, Fresh, Exists, Id
<1> HIDE DEF j
<1>2. /\ k \in 1..MaxId /\ k \in {j, -j}
      /\ Card[k] = process[j] /\ process[j] # NoProcess
  BY <1>1, CardLemma DEF NumberOf
<1>3. /\ process'[-j] = process[j] /\ process'[j] = NoProcess
      /\ \A i \in Id \ {j, -j} : process'[i] = process[i]
  BY <1>1 DEF TypeOK
<1> HIDE DEF k
<1>4. \A n \in 1..MaxId : n # k => n \in Id \ {j, -j} /\ -n \in Id \ {j, -j}
  BY <1>1, <1>2, IdLemma, BoundsAssumption DEF Id
<1>5. Card' = Card
  <2>1. Card'[k] = process[j]
    BY <1>1, <1>2, <1>3 DEF Card, Exists
  <2>2. \A n \in 1..MaxId : n # k => Card'[n] = Card[n]
    BY <1>3, <1>4 DEF Card, Exists
  <2> QED
    BY <1>2, <2>1, <2>2 DEF Card, Exists
<1>6. Finished' \in {Finished \cup {k}, Finished \ {k}}
  <2>1. \A n \in 1..MaxId : n # k => (n \in Finished' <=> n \in Finished)
    BY <1>3, <1>4 DEF Finished, Exists
  <2> QED
    BY <1>2, <2>1 DEF Finished
<1>7. Atomic!Finish(k)
  BY <1>1, <1>2, <1>5, <1>6 DEF Atomic!Finish, Atomic!Exists
<1> QED
  BY <1>2, <1>7 DEF Atomic!Next

\* Status and type: the row that is written is the one that was read but for what
\* the handler is about.
LEMMA AtomicWritten ==
    ASSUME TypeOK, IdInv, Fresh, NEW u \in User, req[u] # NoRequest, UNCHANGED nextId
    PROVE  /\ process' = Written(req[u].id, req[u].row) => process' = process
           /\ \A s \in Status :
                 /\ process' = Written(req[u].id, StatusSet(req[u].row, s))
                 /\ <<req[u].row.status, s>> \in Enabled[req[u].row.type]
                 => [Atomic!Next]_(Atomic!vars)
           /\ \A t \in Type :
                 process' = Written(req[u].id, [req[u].row EXCEPT !.type = t])
                 => [Atomic!Next]_(Atomic!vars)
<1> DEFINE j == req[u].id
           p == process[j]
           k == NumberOf(j)
<1>1. j \in Id /\ Exists(j) /\ req[u].row = p
  BY RequestLemma DEF Fresh
<1>2. k \in 1..MaxId /\ Card[k] = p /\ p \in Row /\ p # NoProcess
  BY <1>1, CardLemma
<1>3. ASSUME NEW q \in Row, q.groups = p.groups, q.executors = p.executors, q.copied = p.copied
      PROVE  Written(j, q) = [process EXCEPT ![j] = q]
  <2>1. [q EXCEPT !.groups = p.groups, !.executors = p.executors, !.copied = p.copied] = q
    BY <1>2, <1>3 DEF Row
  <2> QED
    BY <1>1, <2>1 DEF Written
<1>4. Written(j, p) = process
  <2>1. Written(j, p) = [process EXCEPT ![j] = p]
    BY <1>2, <1>3
  <2> QED
    BY <1>1, <2>1 DEF TypeOK
<1>5. ASSUME NEW s \in Status, process' = Written(j, StatusSet(p, s)),
             <<p.status, s>> \in Enabled[p.type]
      PROVE  Atomic!SetStatus(k)
  <2>1. /\ StatusSet(p, s) \in Row
        /\ StatusSet(p, s).groups = p.groups
        /\ StatusSet(p, s).executors = p.executors
        /\ StatusSet(p, s).copied = p.copied
    BY <1>2, RowLemma DEF StatusSet, Row
  <2>2. process' = [process EXCEPT ![j] = StatusSet(p, s)]
    BY <1>3, <1>5, <2>1
  <2>3. Atomic!Put(k, StatusSet(p, s)) /\ Atomic!Exists(k)
    BY <1>1, <2>1, <2>2, CardPut
  <2> QED
    BY <1>2, <1>5, <2>3 DEF Atomic!SetStatus, StatusSet
<1>6. ASSUME NEW t \in Type, process' = Written(j, [p EXCEPT !.type = t])
      PROVE  Atomic!SetType(k)
  <2> DEFINE q == [p EXCEPT !.type = t]
  <2>1. /\ q \in Row /\ q.groups = p.groups
        /\ q.executors = p.executors /\ q.copied = p.copied
    BY <1>2 DEF Row
  <2>2. process' = [process EXCEPT ![j] = q]
    BY <1>3, <1>6, <2>1
  <2>3. Atomic!Put(k, q) /\ Atomic!Exists(k)
    BY <1>1, <2>1, <2>2, CardPut
  <2> QED
    BY <1>2, <2>3 DEF Atomic!SetType
<1> HIDE DEF j, p, k
<1>7. \A s \in Status :
         process' = Written(j, StatusSet(p, s)) /\ <<p.status, s>> \in Enabled[p.type]
         => [Atomic!Next]_(Atomic!vars)
  BY <1>2, <1>5, PutLemma
<1>8. \A t \in Type : process' = Written(j, [p EXCEPT !.type = t]) => [Atomic!Next]_(Atomic!vars)
  BY <1>2, <1>6, PutLemma
<1> QED
  BY <1>1, <1>4, <1>7, <1>8 DEF j

LEMMA AtomicGroups ==
    ASSUME TypeOK, IdInv, Fresh, NEW u \in User, req[u] # NoRequest,
           NEW G \in SUBSET GroupRole, SaveGroups(u, G),
           AllowedGroups[req[u].row.type] # {} =>
              G \ req[u].row.groups \subseteq AllowedGroups[req[u].row.type]
    PROVE  [Atomic!Next]_(Atomic!vars)
<1>1. PICK j \in Id : j = req[u].id /\ Exists(j) /\ req[u].row = process[j]
  BY RequestLemma DEF Fresh
<1> DEFINE p == process[j]
           k == NumberOf(j)
           kept == InRoles(p.executors, G)
           q == [p EXCEPT !.groups = G, !.executors = kept]
           column == [process EXCEPT ![j].groups = G]
<1>2. k \in 1..MaxId /\ Card[k] = p /\ p \in Row /\ p # NoProcess
  BY <1>1, CardLemma
<1>3. kept \in SUBSET Executor
  BY <1>2, RowLemma
<1>4. /\ q \in Row /\ [p EXCEPT !.groups = G] # NoProcess
      /\ kept = p.executors => [p EXCEPT !.groups = G] = q
      /\ [[p EXCEPT !.groups = G] EXCEPT !.executors = kept] = q
  BY <1>2, <1>3, NullAssumption DEF Row
<1>5. \/ kept = p.executors /\ process' = column
      \/ process' = ExecutorsColumn(column, j, kept)
  BY <1>1 DEF SaveGroups
<1>6. column = [process EXCEPT ![j] = [p EXCEPT !.groups = G]]
  OBVIOUS
<1>7. process' = [process EXCEPT ![j] = q]
  <2> HIDE DEF kept, q, column
  <2>1. column[j] = [p EXCEPT !.groups = G] /\ column[j] # NoProcess
    BY <1>1, <1>4, <1>6 DEF TypeOK
  <2>2. CASE kept = p.executors /\ process' = column
    BY <1>4, <1>6, <2>2
  <2>3. CASE process' = ExecutorsColumn(column, j, kept)
    <3>1. process' = [column EXCEPT ![j].executors = kept]
      BY <2>1, <2>3 DEF ExecutorsColumn
    <3>2. process' = [column EXCEPT ![j] = q]
      BY <1>4, <2>1, <3>1
    <3> QED
      BY <1>1, <1>6, <3>2 DEF TypeOK
  <2> QED
    BY <1>5, <2>2, <2>3
<1>8. UNCHANGED nextId
  BY DEF SaveGroups
<1>9. /\ Atomic!Put(k, q) /\ Atomic!Exists(k) /\ Atomic!Exists(k)'
      /\ Card'[k] = q /\ q.groups = G
  <2>1. q.groups = G
    BY <1>2, <1>3 DEF Row
  <2> HIDE DEF q, p
  <2> QED
    BY <1>1, <1>4, <1>7, <1>8, <2>1, CardPut
<1>10. kept = {e \in p.executors : e.role \in G}
  BY DEF InRoles
<1>11. Atomic!SetGroups(k)
  BY <1>1, <1>2, <1>9, <1>10 DEF Atomic!SetGroups
<1> QED
  BY <1>2, <1>11, PutLemma

LEMMA AtomicExecutors ==
    ASSUME TypeOK, IdInv, Fresh, NEW u \in User, req[u] # NoRequest,
           NEW G \in SUBSET GroupRole, NEW E \in SUBSET Executor,
           SaveExecutors(u, G, E)
    PROVE  [Atomic!Next]_(Atomic!vars)
<1>1. PICK j \in Id : j = req[u].id /\ Exists(j) /\ req[u].row = process[j]
  BY RequestLemma DEF Fresh
<1> DEFINE p == process[j]
           k == NumberOf(j)
           executors == (p.executors \ InRoles(p.executors, G)) \cup E
           q == [p EXCEPT !.executors = executors]
<1>2. k \in 1..MaxId /\ Card[k] = p /\ p \in Row /\ p # NoProcess
  BY <1>1, CardLemma
<1>3. executors \in SUBSET Executor
  BY <1>2, RowLemma
<1>4. q \in Row /\ q.executors = executors
  BY <1>2, <1>3 DEF Row
<1>5. /\ process' = [process EXCEPT ![j] = q]
      /\ UNCHANGED nextId
  BY <1>1, <1>2 DEF SaveExecutors, ExecutorsColumn
<1> HIDE DEF executors
<1>6. /\ Atomic!Put(k, q) /\ Atomic!Exists(k) /\ Atomic!Exists(k)'
      /\ Card'[k].executors = executors
  <2> HIDE DEF q
  <2> QED
    BY <1>1, <1>4, <1>5, CardPut
<1>7. Atomic!SetExecutors(k)
  BY <1>2, <1>6 DEF Atomic!SetExecutors
<1> QED
  BY <1>2, <1>7, PutLemma

LEMMA AtomicDelete ==
    ASSUME TypeOK, IdInv, Fresh, NEW u \in User, Delete(u)
    PROVE  Atomic!Next
<1> DEFINE j == req[u].id
<1>1. /\ j \in Id /\ Exists(j) /\ process' = [process EXCEPT ![j] = NoProcess]
      /\ UNCHANGED nextId
  BY RequestLemma DEF Delete, Fresh
<1> HIDE DEF j
<1>2. /\ NumberOf(j) \in 1..MaxId /\ ~Exists(-j)
      /\ Card[NumberOf(j)] # NoProcess
  BY <1>1, CardLemma
<1>3. /\ Card' = [Card EXCEPT ![NumberOf(j)] = NoProcess]
      /\ Finished' = Finished \ {NumberOf(j)}
  BY <1>1, <1>2, CardWritten
<1>4. Card'[NumberOf(j)] = NoProcess
  BY <1>2, <1>3 DEF Card, Exists
<1>5. Atomic!Delete(NumberOf(j))
  BY <1>1, <1>2, <1>3 DEF Atomic!Delete, Atomic!Exists
<1> QED
  BY <1>2, <1>4, <1>5 DEF Atomic!Next, Atomic!Change

LEMMA AtomicStep ==
    ASSUME TypeOK, IdInv, Fresh, NEW u \in User, Step(u)
    PROVE  [Atomic!Next]_(Atomic!vars)
<1>1. ASSUME process' = process, nextId' = nextId
      PROVE  [Atomic!Next]_(Atomic!vars)
  BY <1>1 DEF Atomic!vars, Card, Finished, Exists
<1>2. ASSUME NEW t \in Type, NEW G \in SUBSET GroupRole, Create(u, t, G)
      PROVE  [Atomic!Next]_(Atomic!vars)
  BY <1>2, AtomicCreate
<1>3. CASE (\E k \in Id, checked \in BOOLEAN : Open(u, k, checked)) \/ Fail(u)
  BY <1>1, <1>3 DEF Open, Fail
<1>4. CASE FinishCreate(u)
  BY <1>4, AtomicFinish
<1>5. ASSUME NEW s \in Status, StatusUpdate(u, s)
      PROVE  [Atomic!Next]_(Atomic!vars)
  BY <1>5, AtomicWritten DEF StatusUpdate
<1>6. CASE RowUpdate(u)
  BY <1>1, <1>6, AtomicWritten DEF RowUpdate
<1>7. CASE PriorityCommand(u) /\ req[u].sees
  BY <1>1, <1>7, AtomicWritten DEF PriorityCommand
<1>8. CASE PriorityCommand(u) /\ ~req[u].sees
  BY <1>8, AtomicCopy
<1>9. ASSUME NEW t \in Type, TypeUpdate(u, t)
      PROVE  [Atomic!Next]_(Atomic!vars)
  BY <1>9, AtomicWritten DEF TypeUpdate
<1>10. ASSUME NEW G \in SUBSET GroupRole, GroupsUpdate(u, G) \/ GroupsCommand(u, G)
       PROVE  [Atomic!Next]_(Atomic!vars)
  BY <1>10, SavedGroupsAllowed, AtomicGroups
<1>11. ASSUME \/ \E G \in SUBSET GroupRole, E \in SUBSET Executor : ExecutorsUpdate(u, G, E)
              \/ \E g \in GroupRole, E \in SUBSET Executor : ExecutorsCommand(u, g, E)
       PROVE  [Atomic!Next]_(Atomic!vars)
  BY <1>11, SaveExecutorsLemma, AtomicExecutors
<1>12. CASE Delete(u)
  BY <1>12, AtomicDelete
<1> QED
  BY <1>2, <1>3, <1>4, <1>5, <1>6, <1>7, <1>8, <1>9, <1>10, <1>11, <1>12 DEF Step

\* Of requests that do not overlap: whatever copies they read and whatever rows,
\* columns and link tables they write, each of them changes the card of one
\* process in one step, as the atomic card allows, or nothing.
THEOREM CardImplementsAtomic == SerialSpec => ImplementsCard
<1>1. Init => Atomic!Init
  <2> SUFFICES ASSUME Init
               PROVE  Atomic!Init
    OBVIOUS
  <2>1. \A k \in Id : process[k] = NoProcess
    BY DEF Init
  <2>2. Card = [k \in 1..MaxId |-> NoProcess]
    BY <2>1, IdLemma DEF Card, Exists
  <2>3. Finished = {} /\ 1..(nextId - 1) = {}
    BY <2>1, IdLemma DEF Finished, Exists, Init
  <2> QED
    BY <2>2, <2>3 DEF Atomic!Init
<1>2. SerialInv /\ [SerialNext]_vars => [Atomic!Next]_(Atomic!vars)
  <2> SUFFICES ASSUME SerialInv, [SerialNext]_vars
               PROVE  [Atomic!Next]_(Atomic!vars)
    OBVIOUS
  <2>1. CASE UNCHANGED vars
    BY <2>1 DEF vars, Atomic!vars, Card, Finished, Exists
  <2> QED
    BY <2>1, AtomicStep DEF SerialNext, SerialInv
<1> QED
  BY <1>1, <1>2, SerialInvariant, PTL DEF SerialSpec, ImplementsCard, Atomic!Spec

=============================================================================
