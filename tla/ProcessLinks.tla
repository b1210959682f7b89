---------------------------- MODULE ProcessLinks ----------------------------
(***************************************************************************)
(* The links between processes, table "process_link": LinkAction and       *)
(* BoardAction.move add them and look for cycles with                      *)
(* ProcessLinkDAO.checkCycles, ProcessLinkAction.linkProcessCreate creates *)
(* a process as a link, and ProcessClosingListener forbids closing a       *)
(* process before those it waits for.                                      *)
(*                                                                         *)
(* A session is a request in its own transaction.  It reads the snapshot   *)
(* of its first query and its own writes; nobody else sees those before    *)
(* the commit.  Each query of the loop of checkCycles is a step.           *)
(***************************************************************************)
EXTENDS Naturals, FiniteSets

CONSTANTS
    Process,     \* processes, existing or not
    LinkType,    \* the types of links between processes
    Made,        \* processMade
    Controlled,  \* CYCLES_CONTROL_LINK_TYPES: processDepend and processMade
    Up,          \* types that make the linked process wait for the other end
    Down,        \* types that make a process wait for those linked to it
    Session,
    Idle,        \* a session without a transaction
    MaxLinks     \* bound: links in the table

ASSUME LinksAssumption ==
    /\ Made \in LinkType
    /\ Controlled \subseteq LinkType
    /\ Up \subseteq LinkType /\ Down \subseteq LinkType
    /\ MaxLinks \in Nat

VARIABLES
    links,  \* the committed rows of process_link that link process numbers
    state,  \* [Process -> State], the committed rows of process
    tx      \* [Session -> transaction or Idle]

vars == <<links, state, tx>>

State == {"new", "open", "closed", "deleted"}

Link == [type : LinkType, from : Process, to : Process]

\* A transaction that adds "link", after it removed "removed".  "visited" and
\* "front" are typeProcessIds and generationTypeProcessIds of checkCycles(start).
Adding == [link : Link, removed : SUBSET Link, view : SUBSET Link, start : Process,
           visited : [Controlled -> SUBSET Process],
           front : [Controlled -> SUBSET Process]]

\* A transaction that sets a closing status of "process"; "blocked" says whether
\* it waits for an open process in the snapshot.
Closing == [process : Process, blocked : BOOLEAN]

ASSUME IdleAssumption == Idle \notin Adding /\ Idle \notin Closing

TypeOK ==
    /\ links \subseteq Link
    /\ state \in [Process -> State]
    /\ tx \in [Session -> Adding \cup Closing \cup {Idle}]

Init ==
    /\ links = {}
    /\ state = [p \in Process |-> "new"]
    /\ tx = [s \in Session |-> Idle]

-----------------------------------------------------------------------------
(* Helpers *)

Exists(p) == state[p] \in {"open", "closed"}

\* The numbers given to processes so far, to those deleted since then as well.
Given == {p \in Process : state[p] # "new"}

\* The processes linked to those in X, in one type of links.
Linked(L, t, X) == {l.to : l \in {m \in L : m.type = t /\ m.from \in X}}

GenerationOfAnyType(L, front) ==
    [t \in LinkType |-> Linked(L, t, IF t \in Controlled THEN front[t] ELSE {})]

\* getLinkProcessIds: the next generation, each type by itself.
Generation(L, front) == [t \in Controlled |-> Linked(L, t, front[t])]

\* The processes p waits for, by the direction checkLinkedProcesses takes for
\* each type of link.
WaitsFor(L, p) ==
    {l.to : l \in {m \in L : m.type \in Down /\ m.from = p}} \cup
    {l.from : l \in {m \in L : m.type \in Up /\ m.to = p}}

-----------------------------------------------------------------------------
(* Processes *)

Create(s, p) ==
    /\ tx[s] = Idle
    /\ state[p] = "new"
    /\ state' = [state EXCEPT ![p] = "open"]
    /\ UNCHANGED <<links, tx>>

\* linkProcessCreate: no cycle can close over a process that is new, and
\* copyLinks copies no links between processes.
CreateLinked(s, p, q, t) ==
    /\ tx[s] = Idle
    /\ state[p] = "new"
    /\ Exists(q)
    /\ Cardinality(links) < MaxLinks
    /\ state' = [state EXCEPT ![p] = "open"]
    /\ links' = links \cup {[type |-> t, from |-> q, to |-> p]}
    /\ UNCHANGED tx

DeleteKeepsLinksTo(s, p) ==
    /\ tx[s] = Idle
    /\ Exists(p)
    /\ state' = [state EXCEPT ![p] = "deleted"]
    /\ links' = {l \in links : l.from # p}
    /\ UNCHANGED tx

\* deleteProcess removes the links at both ends.
Delete(s, p) ==
    /\ tx[s] = Idle
    /\ Exists(p)
    /\ state' = [state EXCEPT ![p] = "deleted"]
    /\ links' = {l \in links : l.from # p /\ l.to # p}
    /\ UNCHANGED tx

\* processStatusUpdate with a status that does not close.
Reopen(s, p) ==
    /\ tx[s] = Idle
    /\ state[p] = "closed"
    /\ state' = [state EXCEPT ![p] = "open"]
    /\ UNCHANGED <<links, tx>>

\* processStatusUpdate with a status that closes: getProcess ...
OpenToClose(s, p) ==
    /\ tx[s] = Idle
    /\ Exists(p)
    /\ tx' = [tx EXCEPT ![s] =
                 [process |-> p,
                  blocked |-> \E q \in WaitsFor(links, p) \ {p} : state[q] = "open"]]
    /\ UNCHANGED <<links, state>>

CloseUnchecked(s) ==
    /\ tx[s] \in Closing
    /\ state' = [state EXCEPT ![tx[s].process] =
                     IF Exists(tx[s].process) THEN "closed" ELSE @]
    /\ tx' = [tx EXCEPT ![s] = Idle]
    /\ UNCHANGED links

\* ... and, once ProcessClosingListener found no open process it waits for,
\* the commit.
Close(s) ==
    /\ tx[s] \in Closing
    /\ ~tx[s].blocked
    /\ state' = [state EXCEPT ![tx[s].process] =
                     IF Exists(tx[s].process) THEN "closed" ELSE @]
    /\ tx' = [tx EXCEPT ![s] = Idle]
    /\ UNCHANGED links

-----------------------------------------------------------------------------
(* Links *)

BeginBeforeInsert(s, link, removed, start) ==
    /\ tx[s] = Idle
    /\ link \notin links \ removed
    /\ \A r \in Session : tx[r] \in Adding => tx[r].link # link
    /\ Cardinality(links) < MaxLinks
    /\ tx' = [tx EXCEPT ![s] =
                 [link |-> link, removed |-> removed,
                  view |-> links \ removed, start |-> start,
                  visited |-> [t \in Controlled |-> {start}],
                  front |-> [t \in Controlled |-> {start}]]]
    /\ UNCHANGED <<links, state>>

\* INSERT, after a DELETE, then the start of checkCycles.  The primary key
\* refuses a link that exists and makes one of two equal INSERTs wait.
Begin(s, link, removed, start) ==
    /\ tx[s] = Idle
    /\ link \notin links \ removed
    /\ \A r \in Session : tx[r] \in Adding => tx[r].link # link
    /\ Cardinality(links) < MaxLinks
    /\ tx' = [tx EXCEPT ![s] =
                 [link |-> link, removed |-> removed,
                  view |-> (links \ removed) \cup {link}, start |-> start,
                  visited |-> [t \in Controlled |-> {start}],
                  front |-> [t \in Controlled |-> {start}]]]
    /\ UNCHANGED <<links, state>>

\* LinkAction.addLink reads the process the link is added to, and looks for
\* cycles from it; it does not read the other one.
AddLink(s, link) ==
    /\ Exists(link.from)
    /\ Begin(s, link, {}, link.from)

\* BoardAction.move, to the parent "to" and away from the parents "away", looks
\* for cycles from the new parent.  It reads no process.
Move(s, p, away, to) ==
    Begin(s, [type |-> Made, from |-> to, to |-> p],
          {[type |-> Made, from |-> q, to |-> p] : q \in away}, to)

FoundInFront(s) ==
    \E t \in Controlled :
        tx[s].front[t] \cap Generation(tx[s].view, tx[s].front)[t] # {}

\* A process of the next generation was met before.
FoundAgain(s) ==
    \E t \in Controlled :
        tx[s].visited[t] \cap Generation(tx[s].view, tx[s].front)[t] # {}

FoundNothing(s) ==
    \A t \in Controlled : Generation(tx[s].view, tx[s].front)[t] = {}

\* One turn of the loop of checkCycles.
Visit(s) ==
    LET next == Generation(tx[s].view, tx[s].front)
    IN  /\ tx[s] \in Adding
        /\ ~FoundAgain(s) /\ ~FoundNothing(s)
        /\ tx' = [tx EXCEPT
                     ![s].visited = [t \in Controlled |-> @[t] \cup next[t]],
                     ![s].front = next]
        /\ UNCHANGED <<links, state>>

\* checkCycles returns true: BGMessageException, no commit.
Refuse(s) ==
    /\ tx[s] \in Adding
    /\ FoundAgain(s)
    /\ tx' = [tx EXCEPT ![s] = Idle]
    /\ UNCHANGED <<links, state>>

CommitAfterOneTurn(s) ==
    /\ tx[s] \in Adding
    /\ ~FoundAgain(s)
    /\ links' = (links \ tx[s].removed) \cup {tx[s].link}
    /\ tx' = [tx EXCEPT ![s] = Idle]
    /\ UNCHANGED state

\* checkCycles returns false.
Commit(s) ==
    /\ tx[s] \in Adding
    /\ FoundNothing(s)
    /\ links' = (links \ tx[s].removed) \cup {tx[s].link}
    /\ tx' = [tx EXCEPT ![s] = Idle]
    /\ UNCHANGED state

\* An event listener or a check of another handler throws.
Fail(s) ==
    /\ tx[s] # Idle
    /\ tx' = [tx EXCEPT ![s] = Idle]
    /\ UNCHANGED <<links, state>>

\* deleteLink, deleteLinksTo, and deleteLinksWithType for one type or all.
Remove(s, gone) ==
    /\ tx[s] = Idle
    /\ links' = links \ gone
    /\ UNCHANGED <<state, tx>>

RemoveSome(s) ==
    \/ \E l \in links : Remove(s, {l})
    \/ \E t \in LinkType, p \in Process :
          Remove(s, {l \in links : l.type = t /\ l.to = p})
    \/ \E T \in {{t} : t \in LinkType} \cup {LinkType}, p \in Process :
          Remove(s, {l \in links : l.type \in T /\ l.from = p})

\* A page that adds a link, or moves a process on a board, may be older than the
\* deletion of what it names, and never names a process that was not yet created.
Step(s) ==
    \/ \E p \in Process : Create(s, p) \/ Delete(s, p) \/ Reopen(s, p) \/ OpenToClose(s, p)
    \/ \E p, q \in Process, t \in LinkType : CreateLinked(s, p, q, t)
    \/ Close(s)
    \/ \E l \in Link : {l.from, l.to} \subseteq Given /\ AddLink(s, l)
    \/ \E p, q \in Given, away \in SUBSET Process :
          Cardinality(away) <= 1 /\ Move(s, p, away, q)
    \/ Visit(s) \/ Refuse(s) \/ Commit(s) \/ Fail(s)
    \/ RemoveSome(s)

Next == \E s \in Session : Step(s)

Spec == Init /\ [][Next]_vars

\* A request that began goes on: its thread runs checkCycles to the end.
FairSpec == Spec /\ \A s \in Session : WF_vars(Visit(s) \/ Refuse(s) \/ Commit(s))

\* The same requests, one after another.
Alone(s) == \A r \in Session \ {s} : tx[r] = Idle

SerialNext == \E s \in Session : Alone(s) /\ Step(s)

SerialSpec == Init /\ [][SerialNext]_vars

-----------------------------------------------------------------------------
(* Properties *)

\* No cycle in the links of one type: in every set of processes there is one
\* that no link of the type leads from back into the set.
Acyclic(L, t, P) ==
    \A S \in SUBSET P : S # {} => \E p \in S : Linked(L, t, {p}) \cap S = {}

\* What can be reached from p has no cycle.
AcyclicFrom(L, t, p) ==
    \E R \in SUBSET Process :
        p \in R /\ Linked(L, t, R) \subseteq R /\ Acyclic(L, t, R)

\* However requests overlap: a link is committed only if the transaction saw no
\* cycle in what the process it started from leads to, the new link included.
CommitsNoCycle ==
    [][\A s \in Session : Commit(s) =>
          \A t \in Controlled : AcyclicFrom(tx[s].view, t, tx[s].start)]_vars

\* checkCycles ends, also over a table in which overlapping requests have
\* already closed a cycle.
CheckEnds == \A s \in Session : tx[s] \in Adding ~> tx[s] = Idle

\* Requests one after another: the table has no cycle of a controlled type.
LinksAcyclic == \A t \in Controlled : Acyclic(links, t, Process)

\* Requests one after another: a process closes after those it waits for.
ClosesLast ==
    [][\A p \in Process : state[p] = "open" /\ state'[p] = "closed" =>
          \A q \in WaitsFor(links, p) \ {p} : state[q] # "open"]_vars

\* Requests one after another, with their searches and their checks of a
\* snapshot, change the graph as if each did it in one step.
Graph == INSTANCE ProcessGraph WITH links <- links, state <- state

ImplementsGraph == Graph!Spec

\* What the comment on checkCycles says: it finds cycles, and a link is refused
\* with "cyclic dependency" only if there is one.
RefusesOnlyCycles ==
    [][\A s \in Session : Refuse(s) =>
          \E t \in Controlled : ~Acyclic(tx[s].view, t, Process)]_vars

=============================================================================
