\* Requests one after another, two group-roles, two processes.
SPECIFICATION SerialSpec
CONSTANTS
    ann = ann
    bob = bob
    task = task
    order = order
    new = new
    done = done
    lead = lead
    tech = tech
    User = {bob}
    Type = {task, order}
    Status = {new, done}
    GroupRole = {lead, tech}
    NoProcess = NoProcess
    NoRequest = NoRequest
    CreateStatus <- MCCreateStatus
    CloseStatus <- MCCloseStatus
    Enabled <- MCTasksMove
    TypeGroups <- MCTypeGroups
    AllowedGroups <- MCAllowedGroups
    WizardType <- MCWizardType
    Limit <- MCLimit
    Isolation <- MCIsolation
    UserGroups <- MCUserGroups
    Named = {bob}
    MaxId = 2
    MaxHistory = 3
CHECK_DEADLOCK FALSE
INVARIANTS
    ColumnsMatchTables
    NoOrphanRows
    StatusIsNewest
PROPERTIES
    StatusMovesEnabled
    ImplementsCard
