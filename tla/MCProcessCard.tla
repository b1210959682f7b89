--------------------------- MODULE MCProcessCard ---------------------------
(* Values for the constants of ProcessCard: Ann sees the processes of her   *)
(* group, Bob those he executes; orders have a create wizard, tasks do not. *)
EXTENDS ProcessCard

CONSTANTS ann, bob, task, order, new, done, lead, tech

MCCreateStatus == [t \in Type |-> new]

\* An order is never closed by its status.
MCCloseStatus == [t \in Type |-> IF t = task THEN {done} ELSE {}]

\* A finished task is not taken up again.
MCEnabled == [t \in Type |-> IF t = task THEN {<<new, done>>}
                                         ELSE {<<new, done>>, <<done, new>>}]

\* Tasks are done, orders keep their status.
MCTasksMove == [t \in Type |-> IF t = task THEN {<<new, done>>} ELSE {}]

MCTypeGroups == [t \in Type |-> IF lead \in GroupRole THEN {lead} ELSE {}]

MCAllowedGroups == [t \in Type |-> IF t = task THEN {} ELSE {lead}]

MCWizardType == {order}

\* At most one executor of a task.
MCLimit == [t \in Type |-> IF t = task THEN {[members |-> User, maxCount |-> 1]} ELSE {}]

MCIsolation == [u \in User |-> IF u = ann THEN "group" ELSE "executor"]

MCUserGroups == [u \in User |-> {lead}]

=============================================================================
