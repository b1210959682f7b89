\* Two users whose requests about the same processes overlap.
SPECIFICATION Spec
CONSTANTS
    ann = ann
    bob = bob
    task = task
    order = order
    new = new
    done = done
    lead = lead
    tech = tech
    User = {ann, bob}
    Type = {task, order}
    Status = {new, done}
    GroupRole = {lead}
    NoProcess = NoProcess
    NoRequest = NoRequest
    CreateStatus <- MCCreateStatus
    CloseStatus <- MCCloseStatus
    Enabled <- MCEnabled
    TypeGroups <- MCTypeGroups
    AllowedGroups <- MCAllowedGroups
    WizardType <- MCWizardType
    Limit <- MCLimit
    Isolation <- MCIsolation
    UserGroups <- MCUserGroups
    Named = {bob}
    MaxId = 1
    MaxHistory = 3
CHECK_DEADLOCK FALSE
INVARIANTS
    TypeOK
    LastMarksNewest
    CloseMatchesStatus
    ColumnsWithinRows
    OneSign
PROPERTIES
    DeletedStaysDeleted
