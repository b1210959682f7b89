\* maxCount of executorRestriction against processExecutorsUpdate.
SPECIFICATION SerialSpec
CONSTANTS
    ann = ann
    bob = bob
    task = task
    order = order
    new = new
    done = done
    lead = lead
    tech = tech
    User = {ann, bob}
    Type = {task, order}
    Status = {new, done}
    GroupRole = {lead}
    NoProcess = NoProcess
    NoRequest = NoRequest
    CreateStatus <- MCCreateStatus
    CloseStatus <- MCCloseStatus
    Enabled <- MCEnabled
    TypeGroups <- MCTypeGroups
    AllowedGroups <- MCAllowedGroups
    WizardType <- MCWizardType
    Limit <- MCLimit
    Isolation <- MCIsolation
    UserGroups <- MCUserGroups
    Named = {ann, bob}
    MaxId = 2
    MaxHistory = 3
CHECK_DEADLOCK FALSE
INVARIANTS
    ExecutorsWithinLimit
