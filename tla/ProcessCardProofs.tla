------------------------- MODULE ProcessCardProofs -------------------------
(* Proofs about ProcessCard, for every number of users, types, statuses,    *)
(* groups and processes.                                                    *)
EXTENDS ProcessCard, SequenceTheorems, TLAPS

USE DEF tables

-----------------------------------------------------------------------------
(* Lemmas about the helpers *)

\* The ids of table process and its negated ids.
LEMMA IdLemma ==
    /\ 0 \notin Id /\ Id \subseteq Int
    /\ \A k \in Id : -k \in Id /\ -k # k /\ -(-k) = k
    /\ \A n \in 1..(MaxId + 1) : n <= MaxId => n \in Id /\ -n \in Id
    /\ \A k \in 1..MaxId : k \in Id /\ -k \in Id
  BY BoundsAssumption DEF Id

\* What changeStatus makes of a status history.
LEMMA HistoryAddedLemma ==
    ASSUME NEW rows \in Seq(HistoryRow), NEW s \in Status
    PROVE  /\ HistoryAdded(rows, s) \in Seq(HistoryRow)
           /\ Len(HistoryAdded(rows, s)) = Len(rows) + 1
           /\ DOMAIN rows = 1..Len(rows)
           /\ DOMAIN HistoryAdded(rows, s) = 1..(Len(rows) + 1)
           /\ HistoryAdded(rows, s)[Len(rows) + 1] = [status |-> s, last |-> TRUE]
           /\ \A i \in 1..Len(rows) :
                 /\ HistoryAdded(rows, s)[i].status = rows[i].status
                 /\ HistoryAdded(rows, s)[i].last = (rows[i].last /\ rows[i].status # s)
<1> DEFINE old == [i \in DOMAIN rows |->
                      IF rows[i].status = s THEN [rows[i] EXCEPT !.last = FALSE]
                                            ELSE rows[i]]
<1>1. DOMAIN rows = 1..Len(rows) /\ Len(rows) \in Nat
  OBVIOUS
<1>2. \A i \in 1..Len(rows) : rows[i] \in HistoryRow
  OBVIOUS
<1>3. \A i \in 1..Len(rows) :
         /\ old[i] \in HistoryRow
         /\ old[i].status = rows[i].status
         /\ old[i].last = (rows[i].last /\ rows[i].status # s)
  BY <1>1, <1>2 DEF HistoryRow
<1>4. old \in Seq(HistoryRow) /\ Len(old) = Len(rows)
  <2>1. old \in [1..Len(rows) -> HistoryRow]
    BY <1>1, <1>3
  <2> HIDE DEF old
  <2>2. old \in Seq(HistoryRow)
    BY <1>1, <2>1, SeqDef
  <2> QED
    BY <1>1, <2>1, <2>2, LenProperties
<1>5. [status |-> s, last |-> TRUE] \in HistoryRow
  BY DEF HistoryRow
<1>6. HistoryAdded(rows, s) = Append(old, [status |-> s, last |-> TRUE])
  BY DEF HistoryAdded
<1> HIDE DEF old
<1>7. /\ HistoryAdded(rows, s) \in Seq(HistoryRow)
      /\ Len(HistoryAdded(rows, s)) = Len(rows) + 1
      /\ HistoryAdded(rows, s)[Len(rows) + 1] = [status |-> s, last |-> TRUE]
      /\ \A i \in 1..Len(rows) : HistoryAdded(rows, s)[i] = old[i]
  BY <1>1, <1>4, <1>5, <1>6
<1>8. DOMAIN HistoryAdded(rows, s) = 1..(Len(rows) + 1)
  BY <1>7
<1> QED
  BY <1>1, <1>3, <1>7, <1>8

\* The rows the handlers write are rows.
LEMMA RowLemma ==
    ASSUME NEW row \in Row
    PROVE  /\ \A s \in Status : StatusSet(row, s) \in Row
           /\ \A t \in Type : [row EXCEPT !.type = t] \in Row
           /\ \A G \in SUBSET GroupRole : [row EXCEPT !.groups = G] \in Row
           /\ \A E \in SUBSET Executor : [row EXCEPT !.executors = E] \in Row
           /\ \A G : InRoles(row.executors, G) \in SUBSET Executor
           /\ row # NoProcess
           /\ row.groups \in SUBSET GroupRole /\ row.executors \in SUBSET Executor
<1>1. \A s \in Status : StatusSet(row, s) \in Row
  <2> SUFFICES ASSUME NEW s \in Status PROVE StatusSet(row, s) \in Row
    OBVIOUS
  <2>1. (s \in CloseStatus[row.type]) \in BOOLEAN
    OBVIOUS
  <2> QED
    BY <2>1 DEF Row, StatusSet
<1>2. /\ \A t \in Type : [row EXCEPT !.type = t] \in Row
      /\ \A G \in SUBSET GroupRole : [row EXCEPT !.groups = G] \in Row
      /\ \A E \in SUBSET Executor : [row EXCEPT !.executors = E] \in Row
  BY DEF Row
<1>3. /\ \A G : InRoles(row.executors, G) \in SUBSET Executor
      /\ row # NoProcess
      /\ row.groups \in SUBSET GroupRole /\ row.executors \in SUBSET Executor
  BY NullAssumption DEF Row, InRoles
<1> QED
  BY <1>1, <1>2, <1>3

\* updateProcess leaves everything but the one row as it is, and the row's
\* groups, executors and copied flag too.
LEMMA WrittenLemma ==
    ASSUME TypeOK, NEW k \in Id, NEW row \in Row
    PROVE  /\ Written(k, row) \in [Id -> Row \cup {NoProcess}]
           /\ \A j \in Id : j # k => Written(k, row)[j] = process[j]
           /\ ~Exists(k) => Written(k, row)[k] = NoProcess
           /\ Exists(k) =>
                 Written(k, row)[k] = [row EXCEPT !.groups = process[k].groups,
                                                  !.executors = process[k].executors,
                                                  !.copied = process[k].copied]
  BY NullAssumption DEF TypeOK, Written, Exists, Row

\* A request holds an existing id and a row.
LEMMA RequestLemma ==
    ASSUME TypeOK, NEW u \in User, req[u] # NoRequest
    PROVE  req[u].id \in Id /\ req[u].row \in Row /\ req[u].checked \in BOOLEAN
  BY DEF TypeOK, Request

\* GroupsUpdate and the commands on groups end in SaveGroups.
LEMMA SaveGroupsLemma ==
    ASSUME TypeOK, NEW u \in User, NEW G \in SUBSET GroupRole,
           GroupsUpdate(u, G) \/ GroupsCommand(u, G)
    PROVE  req[u] # NoRequest /\ \E H \in SUBSET GroupRole : SaveGroups(u, H)
<1>1. CASE GroupsUpdate(u, G)
  BY <1>1 DEF GroupsUpdate
<1>2. CASE GroupsCommand(u, G)
  <2>1. req[u] # NoRequest /\ req[u].row.groups \in SUBSET GroupRole
    BY <1>2, RequestLemma, RowLemma DEF GroupsCommand
  <2>2. AllowedGroups[req[u].row.type] \in SUBSET GroupRole
    BY <2>1, RequestLemma, TypesAssumption DEF Row
  <2>3. (G \cap AllowedGroups[req[u].row.type]) \in SUBSET GroupRole
    OBVIOUS
  <2> QED
    BY <1>2, <2>1, <2>2, <2>3 DEF GroupsCommand
<1> QED
  BY <1>1, <1>2

\* ExecutorsUpdate and the commands on executors end in SaveExecutors.
LEMMA SaveExecutorsLemma ==
    ASSUME TypeOK, NEW u \in User,
           \/ \E G \in SUBSET GroupRole, E \in SUBSET Executor : ExecutorsUpdate(u, G, E)
           \/ \E g \in GroupRole, E \in SUBSET Executor : ExecutorsCommand(u, g, E)
    PROVE  /\ req[u] # NoRequest
           /\ \E G \in SUBSET GroupRole, E \in SUBSET Executor : SaveExecutors(u, G, E)
<1>1. CASE \E G \in SUBSET GroupRole, E \in SUBSET Executor : ExecutorsUpdate(u, G, E)
  BY <1>1 DEF ExecutorsUpdate
<1>2. ASSUME NEW g \in GroupRole, NEW E \in SUBSET Executor, ExecutorsCommand(u, g, E)
      PROVE  /\ req[u] # NoRequest
             /\ \E G \in SUBSET GroupRole, F \in SUBSET Executor : SaveExecutors(u, G, F)
  <2>1. /\ req[u] # NoRequest
        /\ req[u].row.groups \in SUBSET GroupRole
        /\ InRoles(req[u].row.executors, {g}) \in SUBSET Executor
    BY <1>2, RequestLemma, RowLemma DEF ExecutorsCommand
  <2>2. {g} \in SUBSET GroupRole /\ {} \in SUBSET Executor
        /\ (InRoles(req[u].row.executors, {g}) \cup E) \in SUBSET Executor
    BY <2>1
  <2> QED
    BY <1>2, <2>1, <2>2 DEF ExecutorsCommand
<1> QED
  BY <1>1, <1>2

-----------------------------------------------------------------------------
(* Types *)

LEMMA TypeInit == Init => TypeOK
  BY BoundsAssumption, EmptySeq DEF Init, TypeOK

LEMMA TypeStep ==
    ASSUME TypeOK, NEW u \in User, Step(u)
    PROVE  TypeOK'
<1> USE DEF TypeOK
<1>1. ASSUME NEW t \in Type, NEW G \in SUBSET GroupRole, Create(u, t, G)
      PROVE  TypeOK'
  <2> DEFINE k == IF t \in WizardType THEN -nextId ELSE nextId
             row == [type |-> t, status |-> CreateStatus[t],
                     closed |-> CreateStatus[t] \in CloseStatus[t],
                     groups |-> G, executors |-> {}, statusType |-> t, copied |-> FALSE]
  <2>1. k \in Id /\ nextId \in Id /\ nextId + 1 \in 1..(MaxId + 1)
    BY <1>1, IdLemma, BoundsAssumption DEF Create
  <2>2. CreateStatus[t] \in Status
    BY TypesAssumption
  <2>3. row \in Row
    <3>1. (CreateStatus[t] \in CloseStatus[t]) \in BOOLEAN
      OBVIOUS
    <3> QED
      BY <2>2, <3>1 DEF Row
  <2>4. HistoryAdded(history[nextId], CreateStatus[t]) \in Seq(HistoryRow)
    BY <2>1, <2>2, HistoryAddedLemma
  <2>5. /\ process' = [process EXCEPT ![k] = row]
        /\ groupRows' = [groupRows EXCEPT ![k] = G]
        /\ history' = [history EXCEPT ![nextId] =
                           HistoryAdded(history[nextId], CreateStatus[t])]
        /\ nextId' = nextId + 1
        /\ UNCHANGED <<executorRows, req>>
    BY <1>1 DEF Create
  <2> HIDE DEF k, row
  <2> QED
    BY <2>1, <2>3, <2>4, <2>5
<1>2. ASSUME NEW k \in Id, NEW checked \in BOOLEAN, Open(u, k, checked)
      PROVE  TypeOK'
  <2>1. process[k] \in Row
    BY <1>2 DEF Open, Exists
  <2>2. Sees(u, k) \in BOOLEAN
    BY DEF Sees
  <2> QED
    BY <1>2, <2>1, <2>2 DEF Open, Request
<1>3. CASE Fail(u)
  BY <1>3 DEF Fail, Done
<1>4. CASE FinishCreate(u)
  <2>1. req[u].id \in Id /\ -req[u].id \in Id
    BY <1>4, RequestLemma, IdLemma DEF FinishCreate
  <2> QED
    BY <1>4, <2>1 DEF FinishCreate, Done
<1>5. ASSUME NEW s \in Status, StatusUpdate(u, s)
      PROVE  TypeOK'
  <2>1. req[u].id \in Id /\ StatusSet(req[u].row, s) \in Row
    BY <1>5, RequestLemma, RowLemma DEF StatusUpdate
  <2>2. HistoryAdded(history[req[u].id], s) \in Seq(HistoryRow)
    BY <2>1, HistoryAddedLemma
  <2> QED
    BY <1>5, <2>1, <2>2, WrittenLemma DEF StatusUpdate, Done
<1>6. CASE RowUpdate(u)
  BY <1>6, RequestLemma, WrittenLemma DEF RowUpdate, Done
<1>7. CASE PriorityCommand(u)
  <2>1. req[u].id \in Id /\ req[u].row \in Row
    BY <1>7, RequestLemma DEF PriorityCommand
  <2>2. CASE req[u].sees
    <3>1. /\ process' = Written(req[u].id, req[u].row)
          /\ Done(u)
          /\ UNCHANGED <<groupRows, executorRows, history, nextId>>
      BY <1>7, <2>2 DEF PriorityCommand
    <3> QED
      BY <2>1, <3>1, WrittenLemma DEF Done
  <2>3. CASE ~req[u].sees
    <3>1. [req[u].row EXCEPT !.closed = FALSE, !.groups = {}, !.copied = TRUE] \in Row
      BY <2>1 DEF Row
    <3>2. nextId \in Id /\ nextId + 1 \in 1..(MaxId + 1)
      BY <1>7, <2>3, IdLemma, BoundsAssumption DEF PriorityCommand
    <3> QED
      BY <1>7, <2>3, <3>1, <3>2 DEF PriorityCommand, Done
  <2> QED
    BY <2>2, <2>3
<1>8. ASSUME NEW t \in Type, TypeUpdate(u, t)
      PROVE  TypeOK'
  BY <1>8, RequestLemma, RowLemma, WrittenLemma DEF TypeUpdate, Done
<1>9. ASSUME NEW G \in SUBSET GroupRole, GroupsUpdate(u, G) \/ GroupsCommand(u, G)
      PROVE  TypeOK'
  <2>1. PICK H \in SUBSET GroupRole : SaveGroups(u, H)
    BY <1>9, SaveGroupsLemma
  <2>2. req[u].id \in Id /\ InRoles(req[u].row.executors, H) \in SUBSET Executor
    BY <1>9, SaveGroupsLemma, RequestLemma, RowLemma
  <2>3. \A k \in Id : Exists(k) => /\ process[k] \in Row
                                   /\ [process[k] EXCEPT !.groups = H] \in Row
    BY RowLemma DEF Exists
  <2>4. \A row \in Row : [row EXCEPT !.executors = InRoles(req[u].row.executors, H)] \in Row
    BY <2>2, RowLemma
  <2>5. process' \in [Id -> Row \cup {NoProcess}]
    BY <2>1, <2>2, <2>3, <2>4 DEF SaveGroups, ExecutorsColumn, Exists
  <2> QED
    BY <2>1, <2>2, <2>5 DEF SaveGroups, Done
<1>10. ASSUME NEW G \in SUBSET GroupRole, NEW E \in SUBSET Executor, req[u] # NoRequest,
              SaveExecutors(u, G, E)
       PROVE  TypeOK'
  <2> DEFINE executors == (req[u].row.executors \ InRoles(req[u].row.executors, G)) \cup E
  <2>1. req[u].id \in Id /\ executors \in SUBSET Executor
    BY <1>10, RequestLemma, RowLemma DEF SaveExecutors
  <2>2. \A row \in Row : [row EXCEPT !.executors = executors] \in Row
    BY <2>1, RowLemma
  <2> QED
    BY <1>10, <2>1, <2>2 DEF SaveExecutors, ExecutorsColumn, Done
<1>11. CASE Delete(u)
  BY <1>11, RequestLemma DEF Delete, Done
<1> QED
  BY <1>1, <1>2, <1>3, <1>4, <1>5, <1>6, <1>7, <1>8, <1>9, <1>10, <1>11,
     SaveExecutorsLemma DEF Step

\* Whatever requests overlap, every table and every request keeps its type.
THEOREM TypeCorrect == Spec => []TypeOK
<1>1. ASSUME TypeOK, [Next]_vars
      PROVE  TypeOK'
  <2>1. CASE Next
    BY <1>1, <2>1, TypeStep DEF Next
  <2>2. CASE UNCHANGED vars
    BY <1>1, <2>2 DEF TypeOK, vars
  <2> QED
    BY <1>1, <2>1, <2>2
<1> QED
  BY <1>1, TypeInit, PTL DEF Spec

-----------------------------------------------------------------------------
(* The history *)

LEMMA LastMarkedLemma ==
    ASSUME NEW rows \in Seq(HistoryRow), NEW s \in Status, LastMarked(rows)
    PROVE  LastMarked(HistoryAdded(rows, s))
<1> DEFINE n == Len(rows)
           added == HistoryAdded(rows, s)
<1>0. /\ added \in Seq(HistoryRow)
      /\ Len(added) = n + 1
      /\ DOMAIN rows = 1..n
      /\ DOMAIN added = 1..(n + 1)
      /\ added[n + 1] = [status |-> s, last |-> TRUE]
      /\ \A i \in 1..n : /\ added[i].status = rows[i].status
                       /\ added[i].last = (rows[i].last /\ rows[i].status # s)
  BY HistoryAddedLemma
<1>1. n \in Nat /\ DOMAIN rows = 1..n /\ DOMAIN added = 1..(n + 1)
  BY <1>0
<1>2. added[n + 1].status = s /\ added[n + 1].last = TRUE
  BY <1>0
<1>3. \A i \in 1..n : /\ added[i].status = rows[i].status
                      /\ added[i].last = (rows[i].last /\ rows[i].status # s)
  BY <1>0
<1>4. \A i \in 1..n : rows[i].last <=> \A j \in 1..n : rows[j].status = rows[i].status => j <= i
  BY <1>1 DEF LastMarked
<1> HIDE DEF n, added
<1>5. ASSUME NEW i \in 1..(n + 1)
      PROVE  added[i].last <=> \A j \in 1..(n + 1) : added[j].status = added[i].status => j <= i
  <2>1. CASE i = n + 1
    BY <1>1, <1>2, <2>1
  <2>2. CASE i # n + 1
    <3>1. i \in 1..n /\ ~(n + 1 <= i)
      BY <1>1, <2>2
    <3>2. CASE rows[i].status = s
      <4>1. ~added[i].last
        BY <1>3, <3>1, <3>2
      <4>2. n + 1 \in 1..(n + 1) /\ added[n + 1].status = added[i].status
        BY <1>1, <1>2, <1>3, <3>1, <3>2
      <4> QED
        BY <3>1, <4>1, <4>2
    <3>3. CASE rows[i].status # s
      <4>1. \A j \in 1..(n + 1) : added[j].status = added[i].status => j \in 1..n
        BY <1>1, <1>2, <1>3, <3>1, <3>3
      <4>2. added[i].last <=> rows[i].last
        BY <1>3, <3>1, <3>3
      <4>3. (\A j \in 1..n : rows[j].status = rows[i].status => j <= i)
              <=> (\A j \in 1..(n + 1) : added[j].status = added[i].status => j <= i)
        <5>1. \A j \in 1..n : j \in 1..(n + 1) /\ added[j].status = rows[j].status
          BY <1>1, <1>3
        <5> QED
          BY <3>1, <4>1, <5>1
      <4> QED
        BY <1>4, <3>1, <4>2, <4>3
    <3> QED
      BY <3>2, <3>3
  <2> QED
    BY <2>1, <2>2
<1> QED
  BY <1>1, <1>5 DEF LastMarked, n, added

\* A step leaves the histories alone or adds one row to one of them.
LEMMA HistoryStep ==
    ASSUME TypeOK, NEW u \in User, Step(u)
    PROVE  \/ UNCHANGED history
           \/ \E k \in Id, s \in Status :
                 history' = [history EXCEPT ![k] = HistoryAdded(history[k], s)]
<1>1. ASSUME NEW t \in Type, NEW G \in SUBSET GroupRole, Create(u, t, G)
      PROVE  \E k \in Id, s \in Status :
                history' = [history EXCEPT ![k] = HistoryAdded(history[k], s)]
  <2>1. nextId \in Id /\ CreateStatus[t] \in Status
    BY <1>1, IdLemma, TypesAssumption DEF Create, TypeOK
  <2>2. history' = [history EXCEPT ![nextId] =
                        HistoryAdded(history[nextId], CreateStatus[t])]
    BY <1>1 DEF Create
  <2> QED
    BY <2>1, <2>2
<1>2. ASSUME NEW s \in Status, StatusUpdate(u, s)
      PROVE  \E k \in Id : history' = [history EXCEPT ![k] = HistoryAdded(history[k], s)]
  BY <1>2, RequestLemma DEF StatusUpdate
<1>3. ASSUME NEW G \in SUBSET GroupRole, GroupsUpdate(u, G) \/ GroupsCommand(u, G)
      PROVE  UNCHANGED history
  BY <1>3, SaveGroupsLemma DEF SaveGroups
<1>4. ASSUME NEW G \in SUBSET GroupRole, NEW E \in SUBSET Executor, SaveExecutors(u, G, E)
      PROVE  UNCHANGED history
  BY <1>4 DEF SaveExecutors
<1> QED
  BY <1>1, <1>2, <1>3, <1>4, SaveExecutorsLemma
     DEF Step, tables, Open, Fail, FinishCreate, RowUpdate, PriorityCommand, TypeUpdate, Delete

\* The newest row of a status, and only that, carries the flag "last", in
\* whatever order requests change the status.
THEOREM LastIsNewest == Spec => []LastMarksNewest
<1>1. Init => LastMarksNewest
  BY DEF Init, LastMarksNewest, LastMarked
<1>2. ASSUME TypeOK, LastMarksNewest, [Next]_vars
      PROVE  LastMarksNewest'
  <2>1. CASE UNCHANGED history
    BY <1>2, <2>1 DEF LastMarksNewest
  <2>2. ASSUME NEW k \in Id, NEW s \in Status,
               history' = [history EXCEPT ![k] = HistoryAdded(history[k], s)]
        PROVE  LastMarksNewest'
    BY <1>2, <2>2, LastMarkedLemma DEF LastMarksNewest, TypeOK
  <2>3. CASE UNCHANGED vars
    BY <2>1, <2>3 DEF vars
  <2> QED
    BY <1>2, <2>1, <2>2, <2>3, HistoryStep DEF Next
<1> QED
  BY <1>1, <1>2, TypeCorrect, PTL DEF Spec

-----------------------------------------------------------------------------
(* Ids *)

\* No row and no request has an id that was not given out yet; and the process
\* a request is about, under whichever sign it is now, is copied by
\* updateProcess exactly if the request's copy of it says so.
IdInv ==
    /\ \A n \in nextId..MaxId :
          /\ ~Exists(n) /\ ~Exists(-n)
          /\ \A u \in User : req[u] # NoRequest => req[u].id # n /\ req[u].id # -n
    /\ OneSign
    /\ \A u \in User : req[u] # NoRequest =>
          \A j \in {req[u].id, -req[u].id} :
             Exists(j) => process[j].copied = req[u].row.copied

\* A step inserts one row under a new id, opens a request, moves a row
\* to the negated id, or leaves no row where there was none.
IdStepOf(u) ==
    \/ /\ nextId <= MaxId
       /\ nextId' = nextId + 1
       /\ \E k \in {nextId, -nextId}, row \in Row : process' = [process EXCEPT ![k] = row]
       /\ req' = req \/ Done(u)
    \/ UNCHANGED nextId /\ \E k \in Id, checked \in BOOLEAN : Open(u, k, checked)
    \/ UNCHANGED nextId /\ FinishCreate(u)
    \/ /\ UNCHANGED nextId
       /\ \A k \in Id : Exists(k)' => Exists(k) /\ process'[k].copied = process[k].copied
       /\ Done(u)

LEMMA IdStep ==
    ASSUME TypeOK, NEW u \in User, Step(u)
    PROVE  IdStepOf(u)
<1>0. ASSUME req[u] # NoRequest, NEW row \in Row, process' = Written(req[u].id, row)
      PROVE  \A k \in Id : Exists(k)' => Exists(k) /\ process'[k].copied = process[k].copied
  <2>1. req[u].id \in Id
    BY <1>0, RequestLemma
  <2>2. \A k \in Id : process[k] # NoProcess => process[k] \in Row
    BY DEF TypeOK
  <2> SUFFICES ASSUME NEW k \in Id, Exists(k)'
               PROVE  Exists(k) /\ process'[k].copied = process[k].copied
    OBVIOUS
  <2>4. CASE k # req[u].id
    <3>1. process'[k] = process[k]
      BY <1>0, <2>1, <2>4 DEF Written, Exists, TypeOK
    <3> QED
      BY <2>2, <3>1 DEF Exists
  <2>5. CASE k = req[u].id
    <3>1. Exists(k)
      BY <1>0, <2>1, <2>5, WrittenLemma DEF Exists
    <3>2. process[k] \in Row
      BY <2>2, <3>1 DEF Exists
    <3>3. process'[k] = [row EXCEPT !.groups = process[k].groups,
                                    !.executors = process[k].executors,
                                    !.copied = process[k].copied]
      BY <1>0, <2>1, <2>5, <3>1, WrittenLemma
    <3>4. process'[k].copied = process[k].copied
      BY <3>2, <3>3 DEF Row
    <3> QED
      BY <3>1, <3>4
  <2> QED
    BY <2>4, <2>5
<1>1. ASSUME NEW t \in Type, NEW G \in SUBSET GroupRole, Create(u, t, G)
      PROVE  IdStepOf(u)
  <2> DEFINE k == IF t \in WizardType THEN -nextId ELSE nextId
  <2>1. process'[k] \in Row /\ process' = [process EXCEPT ![k] = process'[k]]
    <3>1. TypeOK'
      BY <1>1, TypeStep DEF Step
    <3>2. k \in Id
      BY <1>1, IdLemma DEF Create, TypeOK
    <3>3. process'[k] # NoProcess
      <4>1. CreateStatus[t] \in Status /\ (CreateStatus[t] \in CloseStatus[t]) \in BOOLEAN
        BY TypesAssumption
      <4>2. [type |-> t, status |-> CreateStatus[t],
             closed |-> CreateStatus[t] \in CloseStatus[t],
             groups |-> G, executors |-> {}, statusType |-> t, copied |-> FALSE] \in Row
        BY <4>1 DEF Row
      <4> QED
        BY <1>1, <3>2, <4>2, NullAssumption DEF Create, TypeOK
    <3> QED
      BY <1>1, <3>1, <3>2, <3>3 DEF Create, TypeOK
  <2> QED
    BY <1>1, <2>1 DEF Create, IdStepOf
<1>2. CASE RowUpdate(u)
  BY <1>0, <1>2, RequestLemma DEF RowUpdate, IdStepOf
<1>3. ASSUME NEW s \in Status, StatusUpdate(u, s)
      PROVE  IdStepOf(u)
  BY <1>0, <1>3, RequestLemma, RowLemma DEF StatusUpdate, IdStepOf
<1>4. ASSUME NEW t \in Type, TypeUpdate(u, t)
      PROVE  IdStepOf(u)
  BY <1>0, <1>4, RequestLemma, RowLemma DEF TypeUpdate, IdStepOf
<1>5. CASE PriorityCommand(u)
  <2>1. CASE req[u].sees
    <3>1. process' = Written(req[u].id, req[u].row) /\ UNCHANGED nextId /\ Done(u)
          /\ req[u] # NoRequest
      BY <1>5, <2>1 DEF PriorityCommand
    <3> QED
      BY <1>0, <3>1, RequestLemma DEF IdStepOf
  <2>2. CASE ~req[u].sees
    <3>1. [req[u].row EXCEPT !.closed = FALSE, !.groups = {}, !.copied = TRUE] \in Row
      BY <1>5, RequestLemma DEF PriorityCommand, Row
    <3> QED
      BY <1>5, <2>2, <3>1 DEF PriorityCommand, IdStepOf
  <2> QED
    BY <2>1, <2>2
<1>6. ASSUME NEW G \in SUBSET GroupRole, GroupsUpdate(u, G) \/ GroupsCommand(u, G)
      PROVE  IdStepOf(u)
  <2>1. PICK H \in SUBSET GroupRole : SaveGroups(u, H)
    BY <1>6, SaveGroupsLemma
  <2>2. req[u].id \in Id
    BY <1>6, SaveGroupsLemma, RequestLemma
  <2>3. \A k \in Id : process[k] # NoProcess => process[k] \in Row
    BY DEF TypeOK
  <2>4. ASSUME NEW k \in Id, Exists(k)'
        PROVE  Exists(k) /\ process'[k].copied = process[k].copied
    <3> DEFINE column == IF Exists(req[u].id) THEN [process EXCEPT ![req[u].id].groups = H]
                                              ELSE process
               kept == InRoles(req[u].row.executors, H)
    <3>1. process' = column \/ process' = ExecutorsColumn(column, req[u].id, kept)
      BY <2>1 DEF SaveGroups
    <3>2. CASE k # req[u].id
      BY <2>2, <2>4, <3>1, <3>2 DEF ExecutorsColumn, Exists, TypeOK
    <3>3. CASE k = req[u].id
      <4>1. Exists(k)
        BY <2>2, <2>4, <3>1, <3>3 DEF ExecutorsColumn, Exists, TypeOK
      <4>2. process[k] \in Row /\ column[k] = [process[k] EXCEPT !.groups = H]
        BY <2>2, <2>3, <3>3, <4>1 DEF Exists, TypeOK
      <4>3. \/ process'[k] = column[k]
            \/ process'[k] = [column[k] EXCEPT !.executors = kept]
        BY <2>2, <3>1, <3>3, <4>1 DEF ExecutorsColumn, Exists, TypeOK
      <4>4. column[k] \in Row /\ column[k].copied = process[k].copied
        BY <4>2 DEF Row
      <4>5. process'[k].copied = column[k].copied
        BY <4>3, <4>4 DEF Row
      <4> QED
        BY <4>1, <4>4, <4>5
    <3> QED
      BY <3>2, <3>3
  <2> QED
    BY <2>1, <2>4 DEF SaveGroups, IdStepOf
<1>7. ASSUME NEW G \in SUBSET GroupRole, NEW E \in SUBSET Executor, req[u] # NoRequest,
             SaveExecutors(u, G, E)
      PROVE  IdStepOf(u)
  <2>1. req[u].id \in Id
    BY <1>7, RequestLemma
  <2>2. \A k \in Id : process[k] # NoProcess => process[k] \in Row
    BY DEF TypeOK
  <2>3. \A r \in Row : \A Y : [r EXCEPT !.executors = Y].copied = r.copied
    BY DEF Row
  <2> QED
    BY <1>7, <2>1, <2>2, <2>3 DEF SaveExecutors, ExecutorsColumn, Exists, IdStepOf, TypeOK
<1>8. CASE Delete(u)
  BY <1>8, RequestLemma DEF Delete, Exists, IdStepOf, TypeOK
<1>9. CASE Fail(u)
  BY <1>9 DEF Fail, Exists, IdStepOf
<1> QED
  <2>1. ASSUME NEW k \in Id, NEW checked \in BOOLEAN, Open(u, k, checked)
        PROVE  IdStepOf(u)
    BY <2>1 DEF Open, IdStepOf
  <2>2. CASE FinishCreate(u)
    BY <2>2 DEF FinishCreate, IdStepOf
  <2> QED
    BY <1>1, <1>2, <1>3, <1>4, <1>5, <1>6, <1>7, <1>8, <1>9, <2>1, <2>2,
       SaveExecutorsLemma DEF Step

LEMMA IdPreserved ==
    ASSUME TypeOK, IdInv, NEW u \in User, IdStepOf(u)
    PROVE  IdInv'
<1> USE DEF Exists
<1>0. /\ \A k \in Id : -k \in Id /\ -(-k) = k /\ k # -k /\ k \in Int /\ (k > 0 \/ -k > 0)
      /\ \A n \in 1..MaxId : n \in Id /\ -n \in Id
      /\ nextId \in 1..(MaxId + 1) /\ MaxId \in Nat
      /\ \A k \in Id : k \in 1..MaxId \/ -k \in 1..MaxId
      /\ \A v \in User : req[v] # NoRequest => req[v].id \in Id
  BY IdLemma, BoundsAssumption, RequestLemma DEF Id, TypeOK
<1>1. ASSUME nextId <= MaxId, nextId' = nextId + 1, NEW k \in {nextId, -nextId},
             NEW row \in Row, process' = [process EXCEPT ![k] = row],
             req' = req \/ Done(u)
      PROVE  IdInv'
  <2>1. \A j \in Id : j # k => process'[j] = process[j]
    BY <1>1 DEF TypeOK
  <2>2. \A v \in User : req'[v] # NoRequest => req'[v] = req[v] /\ req[v] # NoRequest
    BY <1>1 DEF Done, TypeOK
  <2>3. nextId \in nextId..MaxId /\ nextId \in 1..MaxId
    BY <1>0, <1>1
  <2>4. ~Exists(nextId) /\ ~Exists(-nextId)
    BY <2>3 DEF IdInv
  <2>5. \A v \in User : req'[v] # NoRequest => req'[v].id # k /\ req'[v].id # -k
    BY <1>0, <1>1, <2>2, <2>3 DEF IdInv
  <2>6. (\A n \in nextId..MaxId :
            /\ ~Exists(n) /\ ~Exists(-n)
            /\ \A v \in User : req[v] # NoRequest => req[v].id # n /\ req[v].id # -n)'
    <3> SUFFICES ASSUME NEW n \in (nextId + 1)..MaxId
                 PROVE  /\ process'[n] = NoProcess /\ process'[-n] = NoProcess
                        /\ \A v \in User : req'[v] # NoRequest
                                => req'[v].id # n /\ req'[v].id # -n
      BY <1>1
    <3>1. n \in nextId..MaxId /\ n \in 1..MaxId /\ n # k /\ -n # k
      BY <1>0, <1>1
    <3> QED
      BY <1>0, <2>1, <2>2, <3>1 DEF IdInv
  <2>7. OneSign'
    <3> SUFFICES ASSUME NEW n \in 1..MaxId
                 PROVE  ~(process'[n] # NoProcess /\ process'[-n] # NoProcess)
      BY DEF OneSign
    <3>1. CASE n = nextId
      BY <1>0, <1>1, <2>1, <2>4, <3>1
    <3>2. CASE n # nextId
      <4>1. n # k /\ -n # k
        BY <1>0, <1>1, <3>2
      <4> QED
        BY <1>0, <2>1, <4>1 DEF IdInv, OneSign
    <3> QED
      BY <3>1, <3>2
  <2>8. (\A v \in User : req[v] # NoRequest =>
            \A j \in {req[v].id, -req[v].id} :
               Exists(j) => process[j].copied = req[v].row.copied)'
    <3> SUFFICES ASSUME NEW v \in User, req'[v] # NoRequest
                 PROVE  \A j \in {req'[v].id, -req'[v].id} :
                           process'[j] # NoProcess => process'[j].copied = req'[v].row.copied
      OBVIOUS
    <3>1. req'[v] = req[v] /\ req[v].id \in Id /\ req[v].id # k /\ -req[v].id # k
      BY <1>0, <1>1, <2>2, <2>5
    <3>2. process'[req[v].id] = process[req[v].id] /\ process'[-req[v].id] = process[-req[v].id]
      BY <1>0, <2>1, <3>1
    <3> QED
      BY <2>2, <3>1, <3>2 DEF IdInv
  <2> QED
    BY <2>6, <2>7, <2>8 DEF IdInv
<1>2. ASSUME UNCHANGED nextId, NEW k \in Id, NEW checked \in BOOLEAN, Open(u, k, checked)
      PROVE  IdInv'
  <2>1. process' = process /\ process[k] # NoProcess
    BY <1>2 DEF Open
  <2>2. /\ req'[u].id = k /\ req'[u].row = process[k]
        /\ \A v \in User : v # u => req'[v] = req[v]
    BY <1>2 DEF Open, TypeOK
  <2>3. \A n \in nextId..MaxId : k # n /\ k # -n
    BY <1>0, <2>1 DEF IdInv
  <2>4. process[-k] = NoProcess
    BY <1>0, <2>1 DEF IdInv, OneSign
  <2>5. (\A n \in nextId..MaxId :
            /\ ~Exists(n) /\ ~Exists(-n)
            /\ \A v \in User : req[v] # NoRequest => req[v].id # n /\ req[v].id # -n)'
    BY <1>2, <2>1, <2>2, <2>3 DEF IdInv
  <2>6. (\A v \in User : req[v] # NoRequest =>
            \A j \in {req[v].id, -req[v].id} :
               Exists(j) => process[j].copied = req[v].row.copied)'
    BY <2>1, <2>2, <2>4 DEF IdInv
  <2> QED
    BY <2>1, <2>5, <2>6 DEF IdInv, OneSign
<1>3. ASSUME UNCHANGED nextId, FinishCreate(u)
      PROVE  IdInv'
  <2> DEFINE k == req[u].id
  <2>1. /\ k \in Id /\ -k \in Id /\ -(-k) = k /\ k # -k
        /\ \/ process' = process
           \/ /\ process[k] # NoProcess /\ process[-k] = NoProcess
              /\ process' = [process EXCEPT ![-k] = process[k], ![k] = NoProcess]
    BY <1>0, <1>3 DEF FinishCreate
  <2>2. \A v \in User : req'[v] # NoRequest => req'[v] = req[v] /\ req[v] # NoRequest
    BY <1>3 DEF FinishCreate, Done, TypeOK
  <2>3. CASE process' = process
    <3>1. OneSign'
      BY <2>3 DEF IdInv, OneSign
    <3>2. (\A n \in nextId..MaxId :
            /\ ~Exists(n) /\ ~Exists(-n)
            /\ \A v \in User : req[v] # NoRequest => req[v].id # n /\ req[v].id # -n)'
      BY <1>3, <2>2, <2>3 DEF IdInv
    <3>3. (\A v \in User : req[v] # NoRequest =>
            \A j \in {req[v].id, -req[v].id} :
               Exists(j) => process[j].copied = req[v].row.copied)'
      BY <2>2, <2>3 DEF IdInv
    <3> QED
      BY <3>1, <3>2, <3>3 DEF IdInv
  <2>4. CASE /\ process[k] # NoProcess /\ process[-k] = NoProcess
             /\ process' = [process EXCEPT ![-k] = process[k], ![k] = NoProcess]
    <3>1. /\ process'[k] = NoProcess
          /\ \A j \in Id : j # k /\ j # -k => process'[j] = process[j]
      BY <2>1, <2>4 DEF TypeOK
    <3>2. \A n \in nextId..MaxId : n # k /\ n # -k /\ -n # k /\ -n # -k
      BY <1>0, <2>1, <2>4 DEF IdInv
    <3>3. (\A n \in nextId..MaxId :
            /\ ~Exists(n) /\ ~Exists(-n)
            /\ \A v \in User : req[v] # NoRequest => req[v].id # n /\ req[v].id # -n)'
      <4> SUFFICES ASSUME NEW n \in nextId..MaxId
                   PROVE  /\ process'[n] = NoProcess /\ process'[-n] = NoProcess
                          /\ \A v \in User : req'[v] # NoRequest
                                  => req'[v].id # n /\ req'[v].id # -n
        BY <1>3
      <4>1. n \in 1..MaxId /\ n \in Id /\ -n \in Id
        BY <1>0
      <4> QED
        BY <2>2, <3>1, <3>2, <4>1 DEF IdInv
    <3>4. OneSign'
      <4> SUFFICES ASSUME NEW n \in 1..MaxId
                   PROVE  ~(process'[n] # NoProcess /\ process'[-n] # NoProcess)
        BY DEF OneSign
      <4>1. CASE n = -k \/ n = k
        BY <1>0, <2>1, <3>1, <4>1
      <4>2. CASE n # -k /\ n # k
        <5>1. n # k /\ -n # k /\ -n # -k
          BY <1>0, <2>1, <4>2
        <5> QED
          BY <1>0, <3>1, <4>2, <5>1 DEF IdInv, OneSign
      <4> QED
        BY <4>1, <4>2
    <3>5. (\A v \in User : req[v] # NoRequest =>
            \A j \in {req[v].id, -req[v].id} :
               Exists(j) => process[j].copied = req[v].row.copied)'
      <4> SUFFICES ASSUME NEW v \in User, req'[v] # NoRequest,
                          NEW j \in {req'[v].id, -req'[v].id}, process'[j] # NoProcess
                   PROVE  process'[j].copied = req'[v].row.copied
        OBVIOUS
      <4>1. /\ req'[v] = req[v] /\ req[v] # NoRequest /\ req[v].id \in Id
            /\ j \in {req[v].id, -req[v].id} /\ j \in Id /\ -j \in {req[v].id, -req[v].id}
        BY <1>0, <2>2
      <4>2. j # k
        BY <3>1
      <4>3. CASE j = -k
        <5>1. process'[j] = process[k]
          BY <2>1, <2>4, <4>2, <4>3 DEF TypeOK
        <5>2. k \in {req[v].id, -req[v].id}
          BY <2>1, <4>1, <4>3
        <5> QED
          BY <2>4, <4>1, <5>1, <5>2 DEF IdInv
      <4>4. CASE j # -k
        <5>1. process'[j] = process[j]
          BY <3>1, <4>1, <4>2, <4>4
        <5> QED
          BY <4>1, <5>1 DEF IdInv
      <4> QED
        BY <4>3, <4>4
    <3> QED
      BY <3>3, <3>4, <3>5 DEF IdInv
  <2> QED
    BY <2>1, <2>3, <2>4
<1>4. ASSUME UNCHANGED nextId, Done(u),
             \A k \in Id : Exists(k)' => Exists(k) /\ process'[k].copied = process[k].copied
      PROVE  IdInv'
  <2>1. \A v \in User : req'[v] # NoRequest => req'[v] = req[v] /\ req[v] # NoRequest
    BY <1>4 DEF Done, TypeOK
  <2>2. (\A n \in nextId..MaxId :
            /\ ~Exists(n) /\ ~Exists(-n)
            /\ \A v \in User : req[v] # NoRequest => req[v].id # n /\ req[v].id # -n)'
    <3> SUFFICES ASSUME NEW n \in nextId..MaxId
                 PROVE  /\ process'[n] = NoProcess /\ process'[-n] = NoProcess
                        /\ \A v \in User : req'[v] # NoRequest
                                => req'[v].id # n /\ req'[v].id # -n
      BY <1>4
    <3>1. n \in Id /\ -n \in Id
      BY <1>0
    <3> QED
      BY <1>4, <2>1, <3>1 DEF IdInv
  <2>3. OneSign'
    BY <1>0, <1>4 DEF IdInv, OneSign
  <2>4. (\A v \in User : req[v] # NoRequest =>
            \A j \in {req[v].id, -req[v].id} :
               Exists(j) => process[j].copied = req[v].row.copied)'
    BY <1>0, <1>4, <2>1 DEF IdInv
  <2> QED
    BY <2>2, <2>3, <2>4 DEF IdInv
<1> QED
  BY <1>1, <1>2, <1>3, <1>4 DEF IdStepOf

LEMMA IdInvariant == Spec => [](TypeOK /\ IdInv)
<1>1. Init => IdInv
  BY IdLemma, BoundsAssumption DEF Init, IdInv, OneSign, Exists, Id
<1>2. ASSUME TypeOK, IdInv, [Next]_vars
      PROVE  IdInv'
  <2>1. CASE Next
    BY <1>2, <2>1, IdStep, IdPreserved DEF Next
  <2>2. CASE UNCHANGED vars
    BY <1>2, <2>2 DEF vars, IdInv, OneSign, Exists
  <2> QED
    BY <1>2, <2>1, <2>2
<1> QED
  BY <1>1, <1>2, TypeCorrect, PTL DEF Spec

\* The temporary and the finished form of a process never exist at once.
THEOREM NeverTwoSigns == Spec => []OneSign
  BY IdInvariant, PTL DEF IdInv

\* No step of any request brings a deleted process back under either sign.
THEOREM DeletedForGood == Spec => DeletedStaysDeleted
<1>1. ASSUME TypeOK, IdInv, [Next]_vars
      PROVE  [\A k \in 1..MaxId :
                 k < nextId /\ ~Exists(k) /\ ~Exists(-k) => ~Exists(k)' /\ ~Exists(-k)']_vars
  <2>1. SUFFICES ASSUME NEW u \in User, Step(u), NEW n \in 1..MaxId,
                        n < nextId, process[n] = NoProcess, process[-n] = NoProcess
                 PROVE  process'[n] = NoProcess /\ process'[-n] = NoProcess
    BY <1>1 DEF Next, Exists
  <2>2. n \in Id /\ -n \in Id /\ nextId \in Nat /\ n # nextId /\ -n # nextId /\ n # -nextId
        /\ -n # -nextId
    BY <1>1, <2>1, IdLemma, BoundsAssumption DEF TypeOK
  <2>3. CASE \E k \in {nextId, -nextId}, row \in Row : process' = [process EXCEPT ![k] = row]
    BY <1>1, <2>1, <2>2, <2>3 DEF TypeOK
  <2>4. CASE \E k \in Id, checked \in BOOLEAN : Open(u, k, checked)
    BY <2>1, <2>4 DEF Open
  <2>5. CASE FinishCreate(u)
    <3> DEFINE k == req[u].id
    <3>1. /\ k \in Id /\ -(-k) = k /\ k \in Int /\ -k \in Id
          /\ \/ process' = process
             \/ /\ process[k] # NoProcess
                /\ process' = [process EXCEPT ![-k] = process[k], ![k] = NoProcess]
      BY <1>1, <2>5, RequestLemma, IdLemma DEF FinishCreate, Exists
    <3> HIDE DEF k
    <3>2. CASE process' = process
      BY <2>1, <3>2
    <3>3. CASE process[k] # NoProcess
      <4>1. k # n /\ k # -n /\ -k # n /\ -k # -n
        BY <2>1, <2>2, <3>1, <3>3
      <4> QED
        BY <1>1, <2>1, <2>2, <3>1, <4>1 DEF TypeOK
    <3> QED
      BY <3>1, <3>2, <3>3
  <2>6. CASE \A k \in Id : Exists(k)' => Exists(k) /\ process'[k].copied = process[k].copied
    BY <2>1, <2>2, <2>6 DEF Exists
  <2> QED
    BY <1>1, <2>1, <2>3, <2>4, <2>5, <2>6, IdStep DEF IdStepOf
<1> QED
  BY <1>1, IdInvariant, PTL DEF Spec, DeletedStaysDeleted

-----------------------------------------------------------------------------
(* Close times *)

\* What holds of the rows holds of the copies the requests work on.
CloseInv ==
    /\ CloseMatchesStatus
    /\ \A u \in User : req[u] # NoRequest => ClosedByStatus(req[u].row)

LEMMA ClosedRowLemma ==
    ASSUME NEW row \in Row
    PROVE  /\ \A s \in Status : ClosedByStatus(StatusSet(row, s)) /\ StatusSet(row, s).copied = row.copied
           /\ ClosedByStatus(row) =>
                 /\ \A t \in Type : ClosedByStatus([row EXCEPT !.type = t])
                 /\ \A G : ClosedByStatus([row EXCEPT !.groups = G])
                 /\ \A E : ClosedByStatus([row EXCEPT !.executors = E])
                 /\ \A G, E : ClosedByStatus([[row EXCEPT !.groups = G] EXCEPT !.executors = E])
                 /\ \A G, E, c : c = row.copied =>
                       ClosedByStatus([row EXCEPT !.groups = G, !.executors = E, !.copied = c])
  BY DEF Row, ClosedByStatus, StatusSet

\* An UPDATE of the row from an object that is closed by its status.
LEMMA ClosedWritten ==
    ASSUME TypeOK, IdInv, CloseInv, NEW u \in User, req[u] # NoRequest,
           NEW row \in Row, ClosedByStatus(row), row.copied = req[u].row.copied,
           process' = Written(req[u].id, row)
    PROVE  CloseMatchesStatus'
<1> SUFFICES ASSUME NEW k \in Id, process'[k] # NoProcess
             PROVE  ClosedByStatus(process'[k])
  BY DEF CloseMatchesStatus, Exists, ClosedByStatus
<1>1. req[u].id \in Id
  BY RequestLemma
<1>2. CASE k # req[u].id
  <2>1. process'[k] = process[k]
    BY <1>1, <1>2 DEF Written, TypeOK
  <2> QED
    BY <2>1 DEF CloseInv, CloseMatchesStatus, Exists
<1>3. CASE k = req[u].id
  <2>1. Exists(k)
    BY <1>1, <1>3 DEF Written, Exists
  <2>2. process[k].copied = row.copied
    BY <1>3, <2>1 DEF IdInv
  <2>3. process'[k] = [row EXCEPT !.groups = process[k].groups,
                                  !.executors = process[k].executors,
                                  !.copied = process[k].copied]
    BY <1>1, <1>3, <2>1 DEF Written, TypeOK
  <2> QED
    BY <2>2, <2>3 DEF Row, ClosedByStatus
<1> QED
  BY <1>2, <1>3

LEMMA CloseStep ==
    ASSUME TypeOK, IdInv, CloseInv, NEW u \in User, Step(u)
    PROVE  CloseInv'
<1>1. (\A v \in User : req[v] # NoRequest => ClosedByStatus(req[v].row))'
  <2>1. ASSUME NEW v \in User, req'[v] # NoRequest
        PROVE  \/ req[v] # NoRequest /\ req'[v] = req[v]
               \/ \E k \in Id : process[k] # NoProcess /\ req'[v].row = process[k]
    <3>1. CASE req' = req \/ Done(u)
      BY <2>1, <3>1 DEF Done, TypeOK
    <3>2. CASE \E k \in Id, checked \in BOOLEAN : Open(u, k, checked)
      BY <2>1, <3>2 DEF Open, Exists, TypeOK
    <3>3. CASE FinishCreate(u)
      BY <3>1, <3>3 DEF FinishCreate
    <3> QED
      BY <3>1, <3>2, <3>3, IdStep DEF IdStepOf
  <2> QED
    BY <2>1 DEF CloseInv, CloseMatchesStatus, Exists, ClosedByStatus
<1>2. ASSUME NEW t \in Type, NEW G \in SUBSET GroupRole, Create(u, t, G)
      PROVE  CloseMatchesStatus'
  <2> DEFINE k == IF t \in WizardType THEN -nextId ELSE nextId
             row == [type |-> t, status |-> CreateStatus[t],
                     closed |-> CreateStatus[t] \in CloseStatus[t],
                     groups |-> G, executors |-> {}, statusType |-> t, copied |-> FALSE]
  <2>1. ClosedByStatus(row)
    BY DEF ClosedByStatus
  <2>2. process' = [process EXCEPT ![k] = row]
    BY <1>2 DEF Create
  <2> HIDE DEF k, row
  <2> QED
    BY <2>1, <2>2 DEF CloseInv, CloseMatchesStatus, Exists, TypeOK, ClosedByStatus
<1>3. UNCHANGED process => CloseMatchesStatus'
  BY DEF CloseInv, CloseMatchesStatus, Exists, ClosedByStatus
<1>4. ASSUME FinishCreate(u) PROVE CloseMatchesStatus'
  <2>1. \A k \in Id : process'[k] = NoProcess \/ \E j \in Id : process'[k] = process[j]
    BY <1>4, RequestLemma, IdLemma DEF FinishCreate, TypeOK
  <2> QED
    BY <2>1 DEF CloseInv, CloseMatchesStatus, Exists, ClosedByStatus
<1>5. ASSUME NEW s \in Status, StatusUpdate(u, s)
      PROVE  CloseMatchesStatus'
  BY <1>5, RequestLemma, RowLemma, ClosedRowLemma, ClosedWritten DEF StatusUpdate
<1>6. ASSUME RowUpdate(u) PROVE CloseMatchesStatus'
  BY <1>6, RequestLemma, ClosedWritten DEF RowUpdate, CloseInv
<1>7. ASSUME NEW t \in Type, TypeUpdate(u, t)
      PROVE  CloseMatchesStatus'
  <2>1. req[u] # NoRequest /\ req[u].row \in Row /\ ClosedByStatus(req[u].row)
    BY <1>7, RequestLemma DEF TypeUpdate, CloseInv
  <2>2. [req[u].row EXCEPT !.type = t].copied = req[u].row.copied
    BY <2>1 DEF Row
  <2>3. ClosedByStatus([req[u].row EXCEPT !.type = t])
    BY <2>1 DEF Row, ClosedByStatus
  <2> QED
    BY <1>7, <2>1, <2>2, <2>3, RowLemma, ClosedWritten DEF TypeUpdate
<1>8. ASSUME PriorityCommand(u) PROVE CloseMatchesStatus'
  <2>1. CASE req[u].sees
    <3>1. process' = Written(req[u].id, req[u].row) /\ req[u] # NoRequest
      BY <1>8, <2>1 DEF PriorityCommand
    <3> QED
      BY <3>1, RequestLemma, ClosedWritten DEF CloseInv
  <2>2. CASE ~req[u].sees
    <3> DEFINE row == [req[u].row EXCEPT !.closed = FALSE, !.groups = {}, !.copied = TRUE]
    <3>1. row.copied = TRUE
      BY <1>8, RequestLemma DEF PriorityCommand, Row
    <3>2. process' = [process EXCEPT ![nextId] = row]
      BY <1>8, <2>2 DEF PriorityCommand
    <3> HIDE DEF row
    <3> QED
      BY <3>1, <3>2 DEF CloseInv, CloseMatchesStatus, Exists, TypeOK, ClosedByStatus
  <2> QED
    BY <2>1, <2>2
<1>9. ASSUME NEW G \in SUBSET GroupRole, GroupsUpdate(u, G) \/ GroupsCommand(u, G)
      PROVE  CloseMatchesStatus'
  <2>1. PICK H \in SUBSET GroupRole : SaveGroups(u, H)
    BY <1>9, SaveGroupsLemma
  <2> DEFINE column == IF Exists(req[u].id) THEN [process EXCEPT ![req[u].id].groups = H]
                                            ELSE process
             kept == InRoles(req[u].row.executors, H)
  <2>2. process' = column \/ process' = ExecutorsColumn(column, req[u].id, kept)
    BY <2>1 DEF SaveGroups
  <2> SUFFICES ASSUME NEW k \in Id, process'[k] # NoProcess
               PROVE  ClosedByStatus(process'[k])
    BY DEF CloseMatchesStatus, Exists, ClosedByStatus
  <2>3. req[u].id \in Id
    BY <1>9, SaveGroupsLemma, RequestLemma
  <2>4. \/ process'[k] = process[k]
        \/ /\ process[k] # NoProcess
           /\ \/ process'[k] = [process[k] EXCEPT !.groups = H]
              \/ process'[k] = [[process[k] EXCEPT !.groups = H] EXCEPT !.executors = kept]
    <3>1. CASE k # req[u].id
      BY <2>2, <2>3, <3>1 DEF ExecutorsColumn, Exists, TypeOK
    <3>2. CASE k = req[u].id /\ process[k] = NoProcess
      BY <2>2, <2>3, <3>2 DEF ExecutorsColumn, Exists
    <3>3. CASE k = req[u].id /\ process[k] # NoProcess
      <4>1. column[k] = [process[k] EXCEPT !.groups = H]
        BY <2>3, <3>3 DEF Exists, TypeOK
      <4>2. process'[k] = column[k] \/ process'[k] = [column[k] EXCEPT !.executors = kept]
        BY <2>2, <2>3, <3>3 DEF ExecutorsColumn, Exists, TypeOK
      <4> QED
        BY <3>3, <4>1, <4>2
    <3> QED
      BY <3>1, <3>2, <3>3
  <2>5. process[k] # NoProcess /\ process[k] \in Row /\ ClosedByStatus(process[k])
    BY <2>4 DEF CloseInv, CloseMatchesStatus, Exists, TypeOK
  <2> HIDE DEF kept
  <2>6. /\ ClosedByStatus([process[k] EXCEPT !.groups = H])
        /\ ClosedByStatus([[process[k] EXCEPT !.groups = H] EXCEPT !.executors = kept])
    BY <2>5 DEF Row, ClosedByStatus
  <2> QED
    BY <2>4, <2>5, <2>6
<1>10. ASSUME NEW G \in SUBSET GroupRole, NEW E \in SUBSET Executor, req[u] # NoRequest,
              SaveExecutors(u, G, E)
       PROVE  CloseMatchesStatus'
  <2> DEFINE executors == (req[u].row.executors \ InRoles(req[u].row.executors, G)) \cup E
  <2> SUFFICES ASSUME NEW k \in Id, process'[k] # NoProcess
               PROVE  ClosedByStatus(process'[k])
    BY DEF CloseMatchesStatus, Exists, ClosedByStatus
  <2>1. \/ process'[k] = process[k]
        \/ process[k] # NoProcess /\ process'[k] = [process[k] EXCEPT !.executors = executors]
    BY <1>10, RequestLemma DEF SaveExecutors, ExecutorsColumn, TypeOK
  <2>2. process[k] # NoProcess /\ process[k] \in Row /\ ClosedByStatus(process[k])
    BY <2>1 DEF CloseInv, CloseMatchesStatus, Exists, TypeOK
  <2> HIDE DEF executors
  <2> QED
    BY <2>1, <2>2, ClosedRowLemma
<1>11. ASSUME Delete(u) PROVE CloseMatchesStatus'
  BY <1>11 DEF Delete, CloseInv, CloseMatchesStatus, Exists, TypeOK, ClosedByStatus
<1> QED
  <2>1. Fail(u) \/ (\E k \in Id, checked \in BOOLEAN : Open(u, k, checked)) => UNCHANGED process
    BY DEF Fail, Open
  <2> QED
    BY <1>1, <1>2, <1>3, <1>4, <1>5, <1>6, <1>7, <1>8, <1>9, <1>10, <1>11, <2>1,
       SaveExecutorsLemma DEF Step, CloseInv

\* A process is closed exactly if its status closes it, even when requests
\* overwrite each other's status.
THEOREM ClosedTruly == Spec => []CloseMatchesStatus
<1>1. Init => CloseInv
  BY DEF Init, CloseInv, CloseMatchesStatus, Exists
<1>2. ASSUME TypeOK, IdInv, CloseInv, [Next]_vars
      PROVE  CloseInv'
  <2>1. CASE Next
    BY <1>2, <2>1, CloseStep DEF Next
  <2>2. CASE UNCHANGED vars
    BY <1>2, <2>2 DEF vars, CloseInv, CloseMatchesStatus, Exists, ClosedByStatus
  <2> QED
    BY <1>2, <2>1, <2>2
<1>3. CloseInv => CloseMatchesStatus
  BY DEF CloseInv
<1> QED
  BY <1>1, <1>2, <1>3, IdInvariant, PTL DEF Spec

-----------------------------------------------------------------------------
(* Columns and tables *)

RowWithin(row, G, E) ==
    /\ row.groups \subseteq G
    /\ row.copied \/ row.executors \subseteq E

\* updateProcess disturbs neither the columns nor the tables.
LEMMA ColumnsWritten ==
    ASSUME TypeOK, ColumnsWithinRows, NEW k \in Id, NEW row \in Row,
           process' = Written(k, row), UNCHANGED <<groupRows, executorRows>>
    PROVE  ColumnsWithinRows'
<1>0. \A j \in Id : j # k => process'[j] = process[j]
  BY DEF Written, TypeOK
<1>1. ASSUME NEW j \in Id, process'[j] # NoProcess
      PROVE  /\ process[j] # NoProcess
             /\ process'[j].groups = process[j].groups
             /\ process'[j].executors = process[j].executors
             /\ process'[j].copied = process[j].copied
  <2>1. CASE j # k
    BY <1>0, <1>1, <2>1
  <2>2. CASE j = k
    <3>1. Exists(k)
      BY <1>1, <2>2, WrittenLemma
    <3>2. process'[k] = [row EXCEPT !.groups = process[k].groups,
                                    !.executors = process[k].executors,
                                    !.copied = process[k].copied]
      BY <3>1, WrittenLemma
    <3> QED
      BY <2>2, <3>1, <3>2 DEF Exists, Row
  <2> QED
    BY <2>1, <2>2
<1> QED
  BY <1>1 DEF ColumnsWithinRows, Exists

LEMMA ColumnsStep ==
    ASSUME TypeOK, ColumnsWithinRows, NEW u \in User, Step(u)
    PROVE  ColumnsWithinRows'
<1>0. \A k \in Id : process[k] # NoProcess => RowWithin(process[k], groupRows[k], executorRows[k])
  BY DEF ColumnsWithinRows, Exists, RowWithin
<1>q. ASSUME \A k \in Id : process'[k] # NoProcess =>
                RowWithin(process'[k], groupRows'[k], executorRows'[k])
      PROVE  ColumnsWithinRows'
  BY <1>q DEF ColumnsWithinRows, Exists, RowWithin
<1>1. ASSUME NEW t \in Type, NEW G \in SUBSET GroupRole, Create(u, t, G)
      PROVE  ColumnsWithinRows'
  <2> DEFINE k == IF t \in WizardType THEN -nextId ELSE nextId
             row == [type |-> t, status |-> CreateStatus[t],
                     closed |-> CreateStatus[t] \in CloseStatus[t],
                     groups |-> G, executors |-> {}, statusType |-> t, copied |-> FALSE]
  <2>1. /\ process' = [process EXCEPT ![k] = row]
        /\ groupRows' = [groupRows EXCEPT ![k] = G]
        /\ UNCHANGED executorRows
    BY <1>1 DEF Create
  <2>2. \A E : RowWithin(row, G, E)
    BY DEF RowWithin
  <2> HIDE DEF k, row
  <2> QED
    BY <1>0, <1>q, <2>1, <2>2 DEF TypeOK
<1>2. CASE UNCHANGED <<process, groupRows, executorRows>>
  BY <1>2 DEF ColumnsWithinRows, Exists
<1>3. ASSUME FinishCreate(u) PROVE ColumnsWithinRows'
  <2> DEFINE k == req[u].id
  <2>1. k \in Id /\ -k \in Id /\ -k # k /\ -(-k) = k
    BY <1>3, RequestLemma, IdLemma DEF FinishCreate
  <2>2. /\ groupRows' = [groupRows EXCEPT ![-k] = groupRows[-k] \cup groupRows[k], ![k] = {}]
        /\ executorRows' = [executorRows EXCEPT ![-k] = executorRows[-k] \cup executorRows[k],
                                                ![k] = {}]
        /\ process' = IF Exists(k)
                      THEN [process EXCEPT ![-k] = process[k], ![k] = NoProcess]
                      ELSE process
    BY <1>3 DEF FinishCreate
  <2>3. /\ groupRows'[-k] = groupRows[-k] \cup groupRows[k]
        /\ executorRows'[-k] = executorRows[-k] \cup executorRows[k]
        /\ \A j \in Id : j # k /\ j # -k => /\ process'[j] = process[j]
                                            /\ groupRows'[j] = groupRows[j]
                                            /\ executorRows'[j] = executorRows[j]
        /\ process'[k] = NoProcess
        /\ Exists(k) => process'[-k] = process[k]
        /\ ~Exists(k) => process'[-k] = process[-k]
    BY <2>1, <2>2 DEF TypeOK, Exists
  <2> HIDE DEF k
  <2>4. process'[-k] # NoProcess => RowWithin(process'[-k], groupRows'[-k], executorRows'[-k])
    BY <1>0, <2>1, <2>3 DEF Exists, RowWithin
  <2> QED
    BY <1>0, <1>q, <2>3, <2>4
<1>4. ASSUME \/ \E s \in Status : StatusUpdate(u, s)
             \/ RowUpdate(u)
             \/ PriorityCommand(u) /\ req[u].sees
             \/ \E t \in Type : TypeUpdate(u, t)
      PROVE  ColumnsWithinRows'
  <2>1. \E row \in Row : process' = Written(req[u].id, row)
    BY <1>4, RequestLemma, RowLemma DEF StatusUpdate, RowUpdate, PriorityCommand, TypeUpdate
  <2>2. req[u].id \in Id /\ UNCHANGED <<groupRows, executorRows>>
    BY <1>4, RequestLemma DEF StatusUpdate, RowUpdate, PriorityCommand, TypeUpdate
  <2> QED
    BY <2>1, <2>2, ColumnsWritten
<1>5. ASSUME PriorityCommand(u), ~req[u].sees PROVE ColumnsWithinRows'
  <2> DEFINE row == [req[u].row EXCEPT !.closed = FALSE, !.groups = {}, !.copied = TRUE]
  <2>1. row.copied = TRUE /\ row.groups = {}
    BY <1>5, RequestLemma DEF PriorityCommand, Row
  <2>2. process' = [process EXCEPT ![nextId] = row] /\ UNCHANGED <<groupRows, executorRows>>
    BY <1>5 DEF PriorityCommand
  <2>3. \A G, E : RowWithin(row, G, E)
    BY <2>1 DEF RowWithin
  <2> HIDE DEF row
  <2> QED
    BY <1>0, <1>q, <2>2, <2>3 DEF TypeOK
<1>6. ASSUME NEW G \in SUBSET GroupRole, GroupsUpdate(u, G) \/ GroupsCommand(u, G)
      PROVE  ColumnsWithinRows'
  <2>1. PICK H \in SUBSET GroupRole : SaveGroups(u, H)
    BY <1>6, SaveGroupsLemma
  <2> DEFINE k == req[u].id
             kept == InRoles(req[u].row.executors, H)
             column == IF Exists(k) THEN [process EXCEPT ![k].groups = H] ELSE process
  <2>2. k \in Id
    BY <1>6, SaveGroupsLemma, RequestLemma
  <2>3. groupRows' = [groupRows EXCEPT ![k] = H]
    BY <2>1 DEF SaveGroups
  <2>4. \/ process' = column /\ UNCHANGED executorRows
        \/ /\ process' = ExecutorsColumn(column, k, kept)
           /\ executorRows' = [executorRows EXCEPT ![k] = kept]
    BY <2>1 DEF SaveGroups
  <2> HIDE DEF kept
  <2>5. /\ \A j \in Id : j # k => column[j] = process[j]
        /\ column[k] = NoProcess <=> process[k] = NoProcess
        /\ process[k] # NoProcess => /\ column[k].groups = H
                                     /\ column[k].executors = process[k].executors
                                     /\ column[k].copied = process[k].copied
                                     /\ column[k] \in Row
        /\ column \in [Id -> Row \cup {NoProcess}]
    <3>1. \A row \in Row : /\ [row EXCEPT !.groups = H].groups = H
                           /\ [row EXCEPT !.groups = H].executors = row.executors
                           /\ [row EXCEPT !.groups = H].copied = row.copied
                           /\ [row EXCEPT !.groups = H] \in Row
                           /\ [row EXCEPT !.groups = H] # NoProcess
      BY RowLemma DEF Row
    <3>2. CASE Exists(k)
      <4>1. process[k] \in Row
        BY <2>2, <3>2 DEF TypeOK, Exists
      <4>2. column = [process EXCEPT ![k] = [process[k] EXCEPT !.groups = H]]
        BY <3>2
      <4> QED
        BY <2>2, <3>1, <3>2, <4>1, <4>2 DEF TypeOK, Exists
    <3>3. CASE ~Exists(k)
      BY <2>2, <3>3 DEF TypeOK, Exists
    <3> QED
      BY <3>2, <3>3
  <2> HIDE DEF k, column
  <2>6. CASE process' = column /\ UNCHANGED executorRows
    <3>1. process'[k] # NoProcess => RowWithin(process'[k], groupRows'[k], executorRows'[k])
      BY <1>0, <2>2, <2>3, <2>5, <2>6 DEF TypeOK, RowWithin
    <3> QED
      BY <1>0, <1>q, <2>2, <2>3, <2>5, <2>6, <3>1 DEF TypeOK
  <2>7. CASE /\ process' = ExecutorsColumn(column, k, kept)
             /\ executorRows' = [executorRows EXCEPT ![k] = kept]
    <3>1. /\ \A j \in Id : j # k => process'[j] = process[j]
          /\ process'[k] # NoProcess => /\ column[k] # NoProcess
                                        /\ process'[k] = [column[k] EXCEPT !.executors = kept]
      BY <2>2, <2>5, <2>7 DEF ExecutorsColumn
    <3>2. process'[k] # NoProcess => /\ process'[k].groups = H
                                     /\ process'[k].executors = kept
      BY <2>5, <3>1 DEF Row
    <3>3. process'[k] # NoProcess => RowWithin(process'[k], groupRows'[k], executorRows'[k])
      BY <2>2, <2>3, <2>7, <3>2 DEF TypeOK, RowWithin
    <3> QED
      BY <1>0, <1>q, <2>2, <2>3, <2>7, <3>1, <3>3 DEF TypeOK
  <2> QED
    BY <2>4, <2>6, <2>7
<1>7. ASSUME NEW G \in SUBSET GroupRole, NEW E \in SUBSET Executor, req[u] # NoRequest,
             SaveExecutors(u, G, E)
      PROVE  ColumnsWithinRows'
  <2> DEFINE k == req[u].id
             executors == (req[u].row.executors \ InRoles(req[u].row.executors, G)) \cup E
  <2>1. k \in Id
    BY <1>7, RequestLemma
  <2>2. /\ process' = ExecutorsColumn(process, k, executors)
        /\ executorRows' = [executorRows EXCEPT ![k] = executors]
        /\ UNCHANGED groupRows
    BY <1>7 DEF SaveExecutors
  <2> HIDE DEF k, executors
  <2>3. /\ \A j \in Id : j # k => process'[j] = process[j]
        /\ process'[k] # NoProcess => /\ process[k] # NoProcess
                                      /\ process'[k] = [process[k] EXCEPT !.executors = executors]
    BY <2>1, <2>2 DEF ExecutorsColumn, TypeOK
  <2>4. process'[k] # NoProcess => /\ process'[k].groups = process[k].groups
                                   /\ process'[k].executors = executors
    <3>1. process[k] # NoProcess => process[k] \in Row
      BY <2>1 DEF TypeOK
    <3> QED
      BY <2>3, <3>1 DEF Row
  <2>5. process'[k] # NoProcess => RowWithin(process'[k], groupRows'[k], executorRows'[k])
    BY <1>0, <2>1, <2>2, <2>3, <2>4 DEF TypeOK, RowWithin
  <2> QED
    BY <1>0, <1>q, <2>1, <2>2, <2>3, <2>5 DEF TypeOK
<1>8. ASSUME Delete(u) PROVE ColumnsWithinRows'
  BY <1>0, <1>8, <1>q, RequestLemma DEF Delete, TypeOK
<1>9. ASSUME \/ Fail(u) \/ \E k \in Id, checked \in BOOLEAN : Open(u, k, checked)
      PROVE  UNCHANGED <<process, groupRows, executorRows>>
  BY <1>9 DEF Fail, Open
<1> QED
  BY <1>1, <1>2, <1>3, <1>4, <1>5, <1>6, <1>7, <1>8, <1>9, SaveExecutorsLemma DEF Step

\* However requests overlap, every group and executor in the columns of a row
\* is in the link tables too: each handler writes both within one step, and
\* updateProcess writes neither.
THEOREM ColumnsCovered == Spec => []ColumnsWithinRows
<1>1. Init => ColumnsWithinRows
  BY DEF Init, ColumnsWithinRows, Exists
<1>2. ASSUME TypeOK, ColumnsWithinRows, [Next]_vars
      PROVE  ColumnsWithinRows'
  <2>1. CASE Next
    BY <1>2, <2>1, ColumnsStep DEF Next
  <2>2. CASE UNCHANGED vars
    BY <1>2, <2>2 DEF vars, ColumnsWithinRows, Exists
  <2> QED
    BY <1>2, <2>1, <2>2
<1> QED
  BY <1>1, <1>2, TypeCorrect, PTL DEF Spec

=============================================================================
