---------------------------- MODULE ProcessCard ----------------------------
(***************************************************************************)
(* The process card: the row of table "process", its link tables           *)
(* "process_group" and "process_executor" and the status history           *)
(* "process_status", as the HTTP handlers of ProcessAction and the         *)
(* commands of ProcessCommandExecutor change them through ProcessDAO and   *)
(* StatusChangeDAO.                                                        *)
(*                                                                         *)
(* A request is one database transaction, committed by BaseAction after    *)
(* the handler.  Its first query, getProcess, fixes the InnoDB snapshot:   *)
(* action Open.  What the handler then decides it decides on that copy;    *)
(* its writes go to the rows as they are now, under row locks held until   *)
(* the commit: one action per handler.  An exception of any check,         *)
(* permission or event listener rolls the transaction back: Fail.          *)
(***************************************************************************)
EXTENDS Integers, Sequences, FiniteSets

CONSTANTS
    User,          \* users, each working in one request at a time
    Type,          \* process types
    Status,        \* process statuses
    GroupRole,     \* pairs of a user group and its role in a process
    NoProcess,     \* no row of table process
    NoRequest,     \* the user has no request in progress
    CreateStatus,  \* [Type -> Status], createStatus of the type
    CloseStatus,   \* [Type -> SUBSET Status], close.status of the type
    Enabled,       \* [Type -> SUBSET (Status \X Status)], allowed transitions
    TypeGroups,    \* [Type -> SUBSET GroupRole], groups of a new process
    AllowedGroups, \* [Type -> SUBSET GroupRole], {} allows every group
    WizardType,    \* the types with steps of a create wizard
    Limit,         \* [Type -> SUBSET [members : SUBSET User, maxCount : Nat]]
    Isolation,     \* [User -> {"none", "executor", "group"}]
    UserGroups,    \* [User -> SUBSET GroupRole], the roles of his groups
    Named,         \* bound: the users whom requests name as executors
    MaxId,         \* bound: processes ever inserted
    MaxHistory     \* bound: rows of table process_status when a status changes

ASSUME TypesAssumption ==
    /\ CreateStatus \in [Type -> Status]
    /\ CloseStatus \in [Type -> SUBSET Status]
    /\ Enabled \in [Type -> SUBSET (Status \X Status)]
    /\ TypeGroups \in [Type -> SUBSET GroupRole]
    /\ AllowedGroups \in [Type -> SUBSET GroupRole]
    /\ WizardType \subseteq Type
    /\ \A t \in Type : \A rule \in Limit[t] :
          rule.members \subseteq User /\ rule.maxCount \in Nat

ASSUME UsersAssumption ==
    /\ Isolation \in [User -> {"none", "executor", "group"}]
    /\ UserGroups \in [User -> SUBSET GroupRole]
    /\ Named \subseteq User

ASSUME BoundsAssumption == MaxId \in Nat /\ MaxHistory \in Nat

VARIABLES
    process,       \* table process: [Id -> row or NoProcess]
    groupRows,     \* table process_group: [Id -> its rows]
    executorRows,  \* table process_executor: [Id -> its rows]
    history,       \* table process_status: [Id -> its rows in order of dt]
    nextId,        \* AUTO_INCREMENT of table process
    req            \* [User -> the request he is in]

vars == <<process, groupRows, executorRows, history, nextId, req>>
tables == <<process, groupRows, executorRows, history, nextId>>

\* A wizard hides an unfinished process under the negated id.
Id == {k \in -MaxId..MaxId : k # 0}

Executor == [user : Named, role : GroupRole]

\* The columns of a row.  "groups" and "executors" repeat the link tables.
\* Two auxiliary fields the code does not store: "statusType", the type the
\* process had when its status was last set, and "copied", TRUE in a row that
\* updateProcess inserted because the user could not see the process.
Row == [type : Type, status : Status, closed : BOOLEAN,
        groups : SUBSET GroupRole, executors : SUBSET Executor,
        statusType : Type, copied : BOOLEAN]

HistoryRow == [status : Status, last : BOOLEAN]

\* "row" is the Process object the handler got, "checked" that it asked with
\* the isolation of its user, "sees" that the user's isolation admits it.
Request == [id : Id, row : Row, checked : BOOLEAN, sees : BOOLEAN]

ASSUME NullAssumption == NoProcess \notin Row /\ NoRequest \notin Request

TypeOK ==
    /\ process \in [Id -> Row \cup {NoProcess}]
    /\ groupRows \in [Id -> SUBSET GroupRole]
    /\ executorRows \in [Id -> SUBSET Executor]
    /\ history \in [Id -> Seq(HistoryRow)]
    /\ nextId \in 1..(MaxId + 1)
    /\ req \in [User -> Request \cup {NoRequest}]

Init ==
    /\ process = [k \in Id |-> NoProcess]
    /\ groupRows = [k \in Id |-> {}]
    /\ executorRows = [k \in Id |-> {}]
    /\ history = [k \in Id |-> <<>>]
    /\ nextId = 1
    /\ req = [u \in User |-> NoRequest]

-----------------------------------------------------------------------------
(* Helpers *)

Exists(k) == process[k] # NoProcess

\* The isolation join of ProcessDAO.
Sees(u, k) ==
    \/ Isolation[u] = "none"
    \/ Isolation[u] = "executor" /\ \E e \in executorRows[k] : e.user = u
    \/ Isolation[u] = "group" /\ groupRows[k] \cap UserGroups[u] # {}

HistoryRows == Cardinality(UNION {{k} \X DOMAIN history[k] : k \in Id})

WrittenAsUpsert(k, row) == [process EXCEPT ![k] = row]

\* The UPDATE of updateProcess writes every scalar column from the Process
\* object; it finds no row when the process is gone.
Written(k, row) ==
    IF Exists(k)
    THEN [process EXCEPT ![k] = [row EXCEPT !.groups = process[k].groups,
                                            !.executors = process[k].executors,
                                            !.copied = process[k].copied]]
    ELSE process

StatusSetNeverReopens(row, s) ==
    [row EXCEPT !.status = s,
                !.closed = row.closed \/ s \in CloseStatus[row.type],
                !.statusType = row.type]

\* The Process object after changeStatus.
StatusSet(row, s) ==
    [row EXCEPT !.status = s,
                !.closed = s \in CloseStatus[row.type],
                !.statusType = row.type]

HistoryAddedKeepsLast(rows, s) == Append(rows, [status |-> s, last |-> TRUE])

HistoryAddedFirst(rows, s) == <<[status |-> s, last |-> TRUE]>> \o rows

\* The history after changeStatus: the flag "last" marks the newest row of
\* each status.
HistoryAdded(rows, s) ==
    Append([i \in DOMAIN rows |->
               IF rows[i].status = s THEN [rows[i] EXCEPT !.last = FALSE]
                                     ELSE rows[i]],
           [status |-> s, last |-> TRUE])

ExecutorsColumnOfUsers(proc, k, E) ==
    IF proc[k] = NoProcess THEN proc
    ELSE [proc EXCEPT ![k].executors = {e.user : e \in E}]

\* updateColumn of updateProcessExecutors, if the row is still there.
ExecutorsColumn(proc, k, E) ==
    IF proc[k] = NoProcess THEN proc ELSE [proc EXCEPT ![k].executors = E]

\* checkExecutorRestriction looks at the executors the process has before
\* the update.
WithinLimit(row) ==
    \A rule \in Limit[row.type] :
        Cardinality({e.user : e \in row.executors} \cap rule.members) <= rule.maxCount

InRoles(E, G) == {e \in E : e.role \in G}

Done(u) == req' = [req EXCEPT ![u] = NoRequest]

-----------------------------------------------------------------------------
(* Creation *)

\* processCreate: INSERT, changeStatus to the type's create status, the
\* groups, and, for a type with a wizard, processIdInvert, which leaves the
\* history under the positive id.
Create(u, t, G) ==
    LET k == IF t \in WizardType THEN -nextId ELSE nextId
    IN  /\ req[u] = NoRequest
        /\ nextId <= MaxId
        /\ G = TypeGroups[t] \/ \E g \in GroupRole : G = {g}
        /\ process' = [process EXCEPT ![k] =
               [type |-> t, status |-> CreateStatus[t],
                closed |-> CreateStatus[t] \in CloseStatus[t],
                groups |-> G, executors |-> {},
                statusType |-> t, copied |-> FALSE]]
        /\ groupRows' = [groupRows EXCEPT ![k] = G]
        /\ history' = [history EXCEPT ![nextId] =
                           HistoryAdded(history[nextId], CreateStatus[t])]
        /\ nextId' = nextId + 1
        /\ UNCHANGED <<executorRows, req>>

FinishCreateByCopy(u) ==
    LET k == req[u].id
    IN  /\ req[u] # NoRequest
        /\ Exists(k) /\ ~Exists(-k)
        /\ process' = [process EXCEPT ![-k] = process[k]]
        /\ groupRows' = [groupRows EXCEPT ![-k] = groupRows[k]]
        /\ executorRows' = [executorRows EXCEPT ![-k] = executorRows[k]]
        /\ Done(u)
        /\ UNCHANGED <<history, nextId>>

FinishCreateWithoutExecutors(u) ==
    LET k == req[u].id
    IN  /\ req[u] # NoRequest
        /\ Exists(k) /\ ~Exists(-k)
        /\ process' = [process EXCEPT ![-k] = process[k], ![k] = NoProcess]
        /\ groupRows' = [groupRows EXCEPT ![-k] = groupRows[k], ![k] = {}]
        /\ Done(u)
        /\ UNCHANGED <<executorRows, history, nextId>>

\* processFinishCreateTmp: processIdInvert, whatever sign the id has, so that
\* sent again it makes a finished process temporary.  An UPDATE fails on a
\* duplicate key when the other id is taken.  There is no such key on
\* process_executor, and process_status is not touched.
FinishCreate(u) ==
    LET k == req[u].id
    IN  /\ req[u] # NoRequest
        /\ ~req[u].checked
        /\ Exists(k) => ~Exists(-k)
        /\ groupRows[k] \cap groupRows[-k] = {}
        /\ process' = IF Exists(k)
                      THEN [process EXCEPT ![-k] = process[k], ![k] = NoProcess]
                      ELSE process
        /\ groupRows' = [groupRows EXCEPT ![-k] = groupRows[-k] \cup groupRows[k],
                                          ![k] = {}]
        /\ executorRows' = [executorRows EXCEPT
                               ![-k] = executorRows[-k] \cup executorRows[k],
                               ![k] = {}]
        /\ Done(u)
        /\ UNCHANGED <<history, nextId>>

-----------------------------------------------------------------------------
(* Requests about one process *)

\* getProcess of ProcessAction, with or without the isolation of the user.
Open(u, k, checked) ==
    /\ req[u] = NoRequest
    /\ Exists(k)
    /\ checked => Sees(u, k)
    /\ req' = [req EXCEPT ![u] = [id |-> k, row |-> process[k],
                                  checked |-> checked, sees |-> Sees(u, k)]]
    /\ UNCHANGED tables

\* The handler throws: no commit, the connection is recycled.
Fail(u) ==
    /\ req[u] # NoRequest
    /\ Done(u)
    /\ UNCHANGED tables

StatusUpdateUnchecked(u, s) ==
    LET r == req[u]
    IN  /\ r # NoRequest
        /\ ~r.checked
        /\ HistoryRows < MaxHistory
        /\ process' = Written(r.id, StatusSet(r.row, s))
        /\ history' = [history EXCEPT ![r.id] = HistoryAdded(history[r.id], s)]
        /\ Done(u)
        /\ UNCHANGED <<groupRows, executorRows, nextId>>

\* processStatusUpdate and the command setStatus.
StatusUpdate(u, s) ==
    LET r == req[u]
    IN  /\ r # NoRequest
        /\ ~r.checked
        /\ <<r.row.status, s>> \in Enabled[r.row.type]
        /\ HistoryRows < MaxHistory
        /\ process' = Written(r.id, StatusSet(r.row, s))
        /\ history' = [history EXCEPT ![r.id] = HistoryAdded(history[r.id], s)]
        /\ Done(u)
        /\ UNCHANGED <<groupRows, executorRows, nextId>>

\* processPriorityUpdate, processDescriptionUpdate and processDescriptionAdd
\* write the whole row for the sake of one column.
RowUpdate(u) ==
    /\ req[u] # NoRequest
    /\ req[u].checked
    /\ process' = Written(req[u].id, req[u].row)
    /\ Done(u)
    /\ UNCHANGED <<groupRows, executorRows, history, nextId>>

\* The commands increasePriority and decreasePriority get the process without
\* the isolation of the user and write it with it.  updateProcess takes a
\* process the user does not see for a new one and inserts it: without
\* groups, link rows or close time, but with the text of its executors.
PriorityCommand(u) ==
    LET r == req[u]
    IN  /\ r # NoRequest
        /\ ~r.checked
        /\ \/ /\ r.sees
              /\ process' = Written(r.id, r.row)
              /\ UNCHANGED nextId
           \/ /\ ~r.sees
              /\ nextId <= MaxId
              /\ process' = [process EXCEPT ![nextId] =
                     [r.row EXCEPT !.closed = FALSE, !.groups = {}, !.copied = TRUE]]
              /\ nextId' = nextId + 1
        /\ Done(u)
        /\ UNCHANGED <<groupRows, executorRows, history>>

\* processTypeUpdate: status and close time stay those of the old type.
TypeUpdate(u, t) ==
    /\ req[u] # NoRequest
    /\ req[u].checked
    /\ process' = Written(req[u].id, [req[u].row EXCEPT !.type = t])
    /\ Done(u)
    /\ UNCHANGED <<groupRows, executorRows, history, nextId>>

SaveGroupsKeepsExecutors(u, G) ==
    LET r == req[u]
    IN  /\ groupRows' = [groupRows EXCEPT ![r.id] = G]
        /\ process' = IF Exists(r.id) THEN [process EXCEPT ![r.id].groups = G] ELSE process
        /\ Done(u)
        /\ UNCHANGED <<executorRows, history, nextId>>

SaveGroupsKeepsRows(u, G) ==
    LET r == req[u]
        kept == InRoles(r.row.executors, G)
        column == IF Exists(r.id) THEN [process EXCEPT ![r.id].groups = G] ELSE process
    IN  /\ groupRows' = [groupRows EXCEPT ![r.id] = @ \cup G]
        /\ process' = ExecutorsColumn(column, r.id, kept)
        /\ executorRows' = [executorRows EXCEPT ![r.id] = kept]
        /\ Done(u)
        /\ UNCHANGED <<history, nextId>>

\* processGroupsUpdate: the column, if the row is still there, and the link
\* table; executors of the removed group-roles go with them.
SaveGroups(u, G) ==
    LET r == req[u]
        kept == InRoles(r.row.executors, G)
        column == IF Exists(r.id) THEN [process EXCEPT ![r.id].groups = G] ELSE process
    IN  /\ groupRows' = [groupRows EXCEPT ![r.id] = G]
        /\ \/ /\ kept = r.row.executors
              /\ process' = column
              /\ UNCHANGED executorRows
           \/ /\ kept # r.row.executors
              /\ process' = ExecutorsColumn(column, r.id, kept)
              /\ executorRows' = [executorRows EXCEPT ![r.id] = kept]
        /\ Done(u)
        /\ UNCHANGED <<history, nextId>>

\* The handler, which checks the groups against those allowed for the type.
GroupsUpdate(u, G) ==
    /\ req[u] # NoRequest
    /\ req[u].checked
    /\ LET allowed == AllowedGroups[req[u].row.type]
       IN  allowed # {} => G \subseteq allowed
    /\ SaveGroups(u, G)

\* The command addGroups drops the groups that are not allowed and does
\* nothing when none is new; clearGroups removes them all.
GroupsCommand(u, G) ==
    LET r == req[u]
        allowed == AllowedGroups[r.row.type]
        added == IF allowed = {} THEN G ELSE G \cap allowed
    IN  /\ r # NoRequest
        /\ ~r.checked
        /\ \/ ~(added \subseteq r.row.groups) /\ SaveGroups(u, r.row.groups \cup added)
           \/ G = {} /\ SaveGroups(u, {})

\* processExecutorsUpdate: in the group-roles G of the process the executors
\* become E.
SaveExecutors(u, G, E) ==
    LET r == req[u]
        executors == (r.row.executors \ InRoles(r.row.executors, G)) \cup E
    IN  /\ WithinLimit(r.row)
        /\ G \subseteq r.row.groups
        /\ process' = ExecutorsColumn(process, r.id, executors)
        /\ executorRows' = [executorRows EXCEPT ![r.id] = executors]
        /\ Done(u)
        /\ UNCHANGED <<groupRows, history, nextId>>

\* The handler: it checks the group-roles the form names, and stores executors
\* in any group-role.
ExecutorsUpdate(u, G, E) ==
    /\ req[u] # NoRequest /\ req[u].checked
    /\ SaveExecutors(u, G, E)

\* The commands find one group-role of the process.  Those that add executors
\* keep the ones it has (setExecutorsInGroupsIfNot adds none to some), those
\* that set them do not; clearExecutors empties every group-role.
ExecutorsCommand(u, g, E) ==
    /\ req[u] # NoRequest /\ ~req[u].checked
    /\ E = InRoles(E, {g})
    /\ \/ SaveExecutors(u, {g}, InRoles(req[u].row.executors, {g}) \cup E)
       \/ SaveExecutors(u, {g}, E)
       \/ SaveExecutors(u, req[u].row.groups, {})

DeleteKeepsExecutors(u) ==
    LET k == req[u].id
    IN  /\ req[u] # NoRequest
        /\ ~req[u].checked
        /\ process' = [process EXCEPT ![k] = NoProcess]
        /\ groupRows' = [groupRows EXCEPT ![k] = {}]
        /\ Done(u)
        /\ UNCHANGED <<executorRows, history, nextId>>

\* processDelete, processDeleteTmp and the end of processMerge: deleteProcess
\* leaves the status history.
Delete(u) ==
    LET k == req[u].id
    IN  /\ req[u] # NoRequest
        /\ ~req[u].checked
        /\ process' = [process EXCEPT ![k] = NoProcess]
        /\ groupRows' = [groupRows EXCEPT ![k] = {}]
        /\ executorRows' = [executorRows EXCEPT ![k] = {}]
        /\ Done(u)
        /\ UNCHANGED <<history, nextId>>

Step(u) ==
    \/ \E t \in Type, G \in SUBSET GroupRole : Create(u, t, G)
    \/ \E k \in Id, checked \in BOOLEAN : Open(u, k, checked)
    \/ Fail(u)
    \/ FinishCreate(u)
    \/ \E s \in Status : StatusUpdate(u, s)
    \/ RowUpdate(u)
    \/ PriorityCommand(u)
    \/ \E t \in Type : TypeUpdate(u, t)
    \/ \E G \in SUBSET GroupRole : GroupsUpdate(u, G) \/ GroupsCommand(u, G)
    \/ \E G \in SUBSET GroupRole, E \in SUBSET Executor : ExecutorsUpdate(u, G, E)
    \/ \E g \in GroupRole, E \in SUBSET Executor : ExecutorsCommand(u, g, E)
    \/ Delete(u)

Next == \E u \in User : Step(u)

Spec == Init /\ [][Next]_vars

\* The same requests, never two of them at the same time: what the handlers
\* guarantee when no snapshot is stale.
Alone(u) == \A v \in User \ {u} : req[v] = NoRequest

SerialNext == \E u \in User : Alone(u) /\ Step(u)

SerialSpec == Init /\ [][SerialNext]_vars

-----------------------------------------------------------------------------
(* Properties of any interleaving of requests *)

LastMarked(rows) ==
    \A i \in DOMAIN rows :
        rows[i].last <=> \A j \in DOMAIN rows : rows[j].status = rows[i].status => j <= i

\* The flag "last" of the history marks the newest row of each status and no
\* other: getProcess joins on it and would return the process twice.
LastMarksNewest == \A k \in Id : LastMarked(history[k])

ClosedByStatus(row) ==
    row.copied \/ (row.closed <=> row.status \in CloseStatus[row.statusType])

\* A process is closed exactly if its status closes it by the type it had when
\* the status was set.  updateProcess writes both from one Process object, so
\* an overwritten status takes its close time with it.
CloseMatchesStatus == \A k \in Id : Exists(k) => ClosedByStatus(process[k])

\* Every group and executor the card shows (the columns of the row) is also
\* in the tables that queues and isolation join, whoever else writes.  A row
\* that updateProcess inserted for a user who did not see the process keeps
\* the text of the executors without their rows.
ColumnsWithinRows ==
    \A k \in Id : Exists(k) =>
        /\ process[k].groups \subseteq groupRows[k]
        /\ process[k].copied \/ process[k].executors \subseteq executorRows[k]

\* A process is never at once a temporary one of a wizard and a finished one.
OneSign == \A k \in 1..MaxId : ~(Exists(k) /\ Exists(-k))

\* A process that is gone stays gone: no request that still holds its copy
\* brings it back when it writes.
DeletedStaysDeleted ==
    [][\A k \in 1..MaxId :
          k < nextId /\ ~Exists(k) /\ ~Exists(-k) => ~Exists(k)' /\ ~Exists(-k)']_vars

-----------------------------------------------------------------------------
(* Properties of requests that do not overlap *)

\* The columns repeat the link tables.
ColumnsMatchTables ==
    \A k \in Id : Exists(k) =>
        /\ process[k].groups = groupRows[k]
        /\ process[k].copied \/ process[k].executors = executorRows[k]

\* Link rows belong to an existing process: deleteProcess and processIdInvert
\* forget none.
NoOrphanRows ==
    \A k \in Id : ~Exists(k) => groupRows[k] = {} /\ executorRows[k] = {}

Newest(rows, s) == rows # <<>> /\ rows[Len(rows)].status = s

\* The status of a process is the newest in its history, kept under its id or,
\* since processIdInvert leaves the history, under the one it had before.
StatusIsNewest ==
    \A k \in Id : Exists(k) /\ ~process[k].copied =>
        Newest(history[k], process[k].status) \/ Newest(history[-k], process[k].status)

\* A status only changes along a transition its type allows.
StatusMovesEnabled ==
    [][\A k \in Id : Exists(k) /\ Exists(k)' =>
          \/ process'[k].status = process[k].status
          \/ <<process[k].status, process'[k].status>> \in Enabled[process[k].type]]_vars

\* The row of a process, under the negated id while it is one of a wizard.
Card == [k \in 1..MaxId |-> IF Exists(k) THEN process[k] ELSE process[-k]]

Finished == {k \in 1..MaxId : Exists(k)}

Atomic == INSTANCE AtomicCard WITH
              Number <- 1..MaxId, None <- NoProcess,
              card <- Card, finished <- Finished, used <- 1..(nextId - 1)

\* The requests implement a card that each of them changes in one step, though
\* they read a copy, write the whole row of it and leave the rest to link tables.
ImplementsCard == Atomic!Spec

\* What the documentation says of executorRestriction: maxCount is the greatest
\* number of executors of the group in a process.
ExecutorsWithinLimit ==
    \A k \in Id : Exists(k) => WithinLimit(process[k])

=============================================================================
