------------------------ MODULE ProcessLinksProofs ------------------------
(* Proofs about ProcessLinks, for every number of processes, link types and *)
(* sessions: what checkCycles establishes by its loop, and what that means  *)
(* for the table when requests do not overlap.                              *)
EXTENDS ProcessLinks, TLAPS

-----------------------------------------------------------------------------
(* Lemmas about the helpers *)

\* What it is to be linked to a process of X.
LEMMA LinkedLemma ==
    ASSUME NEW L, NEW t, NEW X, NEW q
    PROVE  q \in Linked(L, t, X) <=>
              \E l \in L : l.type = t /\ l.from \in X /\ l.to = q
  BY DEF Linked

\* Links between processes lead to processes.
LEMMA LinkedType ==
    ASSUME NEW L \in SUBSET Link, NEW t, NEW X
    PROVE  Linked(L, t, X) \in SUBSET Process
  BY DEF Linked, Link

\* The next generation of each type.
LEMMA GenerationLemma ==
    ASSUME NEW L \in SUBSET Link, NEW front \in [Controlled -> SUBSET Process]
    PROVE  /\ Generation(L, front) \in [Controlled -> SUBSET Process]
           /\ \A t \in Controlled : Generation(L, front)[t] = Linked(L, t, front[t])
  BY LinkedType DEF Generation

\* The two kinds of transactions differ.
LEMMA KindsDiffer == Adding \cap Closing = {}
<1>1. ASSUME NEW x \in Adding, x \in Closing
      PROVE  FALSE
  <2>1. "view" \in DOMAIN x
    BY <1>1 DEF Adding
  <2>2. DOMAIN x = {"process", "blocked"}
    BY <1>1 DEF Closing
  <2> QED
    BY <2>1, <2>2
<1> QED
  BY <1>1

-----------------------------------------------------------------------------
(* Types *)

LEMMA TypeInit == Init => TypeOK
  BY DEF Init, TypeOK, State

\* What one turn of the loop of checkCycles does to its transaction.
LEMMA VisitLemma ==
    ASSUME TypeOK, NEW s \in Session, Visit(s)
    PROVE  /\ tx[s] \in Adding
           /\ UNCHANGED <<links, state>>
           /\ \E x \in Adding :
                 /\ tx' = [tx EXCEPT ![s] = x]
                 /\ x.link = tx[s].link
                 /\ x.removed = tx[s].removed
                 /\ x.view = tx[s].view
                 /\ x.start = tx[s].start
                 /\ \A t \in Controlled :
                       /\ x.front[t] = Linked(tx[s].view, t, tx[s].front[t])
                       /\ x.visited[t] = tx[s].visited[t] \cup x.front[t]
                       /\ tx[s].visited[t] \cap x.front[t] = {}
<1> DEFINE next == Generation(tx[s].view, tx[s].front)
           x == [tx[s] EXCEPT !.visited = [t \in Controlled |-> @[t] \cup next[t]],
                              !.front = next]
<1>1. tx[s] \in Adding /\ UNCHANGED <<links, state>>
  BY DEF Visit
<1>2. /\ tx[s].view \in SUBSET Link
      /\ tx[s].front \in [Controlled -> SUBSET Process]
      /\ tx[s].visited \in [Controlled -> SUBSET Process]
  BY <1>1 DEF Adding
<1>3. /\ next \in [Controlled -> SUBSET Process]
      /\ \A t \in Controlled : next[t] = Linked(tx[s].view, t, tx[s].front[t])
  BY <1>2, GenerationLemma
<1>4. \A t \in Controlled : tx[s].visited[t] \cap next[t] = {}
  BY DEF Visit, FoundAgain
<1>5. tx' = [tx EXCEPT ![s] = x]
  BY <1>1 DEF Visit, TypeOK
<1> HIDE DEF next
<1>6. [t \in Controlled |-> tx[s].visited[t] \cup next[t]] \in [Controlled -> SUBSET Process]
  BY <1>2, <1>3
<1>7. /\ x \in Adding
      /\ x.link = tx[s].link /\ x.removed = tx[s].removed
      /\ x.view = tx[s].view /\ x.start = tx[s].start
      /\ x.front = next
      /\ x.visited = [t \in Controlled |-> tx[s].visited[t] \cup next[t]]
  BY <1>1, <1>3, <1>6 DEF Adding
<1> HIDE DEF x
<1> QED
  BY <1>1, <1>3, <1>4, <1>5, <1>7

\* A begun transaction of Begin: AddLink and Move are the same but for what they
\* begin with, and both look for cycles from the process that gets the link.
BeginSome(s) ==
    \E l \in Link, removed \in SUBSET Link :
       l.from \in Given /\ l.to \in Given /\ Begin(s, l, removed, l.from)

LEMMA BeginSomeLemma ==
    ASSUME NEW s \in Session,
           \/ \E l \in Link : {l.from, l.to} \subseteq Given /\ AddLink(s, l)
           \/ \E p, q \in Given, away \in SUBSET Process : Move(s, p, away, q)
    PROVE  BeginSome(s)
<1>1. CASE \E l \in Link : {l.from, l.to} \subseteq Given /\ AddLink(s, l)
  BY <1>1 DEF AddLink, BeginSome
<1>2. ASSUME NEW p \in Given, NEW q \in Given, NEW away \in SUBSET Process,
             Move(s, p, away, q)
      PROVE  BeginSome(s)
  <2> DEFINE l == [type |-> Made, from |-> q, to |-> p]
             removed == {[type |-> Made, from |-> r, to |-> p] : r \in away}
  <2>1. l \in Link /\ removed \in SUBSET Link
    BY LinksAssumption DEF Link, Given
  <2>2. Begin(s, l, removed, q)
    BY <1>2 DEF Move
  <2> QED
    BY <2>1, <2>2 DEF BeginSome
<1> QED
  BY <1>1, <1>2

\* The transaction that begins: its snapshot has the new link, and the search
\* starts from the process that gets it.
LEMMA BeginLemma ==
    ASSUME TypeOK, NEW s \in Session, BeginSome(s)
    PROVE  /\ tx[s] = Idle
           /\ UNCHANGED <<links, state>>
           /\ \E x \in Adding :
                 /\ tx' = [tx EXCEPT ![s] = x]
                 /\ x.view = (links \ x.removed) \cup {x.link}
                 /\ x.start = x.link.from
                 /\ x.link.from \in Given /\ x.link.to \in Given
                 /\ \A t \in Controlled : x.visited[t] = {x.start} /\ x.front[t] = {x.start}
<1>1. PICK l \in Link, removed \in SUBSET Link :
         l.from \in Given /\ l.to \in Given /\ Begin(s, l, removed, l.from)
  BY DEF BeginSome
<1> DEFINE found == [t \in Controlled |-> {l.from}]
           x == [link |-> l, removed |-> removed,
                 view |-> (links \ removed) \cup {l}, start |-> l.from,
                 visited |-> found, front |-> found]
<1>2. x \in Adding
  <2>1. (links \ removed) \cup {l} \in SUBSET Link
    BY DEF TypeOK
  <2>2. l.from \in Process /\ found \in [Controlled -> SUBSET Process]
    BY DEF Link
  <2> QED
    BY <2>1, <2>2 DEF Adding
<1>3. tx' = [tx EXCEPT ![s] = x] /\ tx[s] = Idle /\ UNCHANGED <<links, state>>
  BY <1>1 DEF Begin
<1>4. /\ x.view = (links \ x.removed) \cup {x.link}
      /\ x.start = x.link.from
      /\ x.link.from \in Given /\ x.link.to \in Given
      /\ \A t \in Controlled : x.visited[t] = {x.start} /\ x.front[t] = {x.start}
  BY <1>1
<1> HIDE DEF x
<1> QED
  BY <1>2, <1>3, <1>4

\* What a step may do to the transactions.
LEMMA StepLemma ==
    ASSUME TypeOK, NEW s \in Session, Step(s)
    PROVE  \/ UNCHANGED tx
           \/ tx' = [tx EXCEPT ![s] = Idle]
           \/ \E y \in Closing : tx' = [tx EXCEPT ![s] = y]
           \/ BeginSome(s)
           \/ Visit(s)
<1>1. CASE \E p \in Process : Create(s, p) \/ Delete(s, p) \/ Reopen(s, p)
  BY <1>1 DEF Create, Delete, Reopen
<1>2. ASSUME NEW p \in Process, OpenToClose(s, p)
      PROVE  \E y \in Closing : tx' = [tx EXCEPT ![s] = y]
  <2> DEFINE y == [process |-> p,
                   blocked |-> \E q \in WaitsFor(links, p) \ {p} : state[q] = "open"]
  <2>1. y \in Closing
    BY Zenon DEF Closing
  <2>2. tx' = [tx EXCEPT ![s] = y]
    BY <1>2 DEF OpenToClose
  <2> QED
    BY <2>1, <2>2
<1>3. CASE \E p, q \in Process, t \in LinkType : CreateLinked(s, p, q, t)
  BY <1>3 DEF CreateLinked
<1>4. CASE Close(s) \/ Refuse(s) \/ Commit(s) \/ Fail(s)
  BY <1>4 DEF Close, Refuse, Commit, Fail
<1>5. CASE RemoveSome(s)
  BY <1>5 DEF RemoveSome, Remove
<1>6. CASE \E l \in Link : {l.from, l.to} \subseteq Given /\ AddLink(s, l)
  BY <1>6, BeginSomeLemma
<1>7. CASE \E p, q \in Given, away \in SUBSET Process :
              Cardinality(away) <= 1 /\ Move(s, p, away, q)
  BY <1>7, BeginSomeLemma
<1> QED
  BY <1>1, <1>2, <1>3, <1>4, <1>5, <1>6, <1>7 DEF Step

\* What a step may do to the tables.
LEMMA TablesLemma ==
    ASSUME TypeOK, NEW s \in Session, Step(s)
    PROVE  links' \in SUBSET Link /\ state' \in [Process -> State]
<1>1. links \in SUBSET Link /\ state \in [Process -> State]
  BY DEF TypeOK
<1>2. ASSUME NEW p \in Process, Create(s, p) \/ Delete(s, p) \/ Reopen(s, p) \/ OpenToClose(s, p)
      PROVE  links' \in SUBSET Link /\ state' \in [Process -> State]
  BY <1>1, <1>2 DEF Create, Delete, Reopen, OpenToClose, State
<1>3. ASSUME NEW p \in Process, NEW q \in Process, NEW t \in LinkType,
             CreateLinked(s, p, q, t)
      PROVE  links' \in SUBSET Link /\ state' \in [Process -> State]
  BY <1>1, <1>3 DEF CreateLinked, Link, State
<1>4. CASE Close(s)
  BY <1>1, <1>4 DEF Close, Closing, State
<1>5. CASE Commit(s)
  BY <1>1, <1>5 DEF Commit, Adding
<1>6. CASE Visit(s) \/ Refuse(s) \/ Fail(s)
  BY <1>1, <1>6 DEF Visit, Refuse, Fail
<1>7. CASE RemoveSome(s)
  BY <1>1, <1>7 DEF RemoveSome, Remove
<1>8. CASE BeginSome(s)
  BY <1>1, <1>8 DEF BeginSome, Begin
<1> QED
  BY <1>2, <1>3, <1>4, <1>5, <1>6, <1>7, <1>8, BeginSomeLemma DEF Step

\* The type invariant is inductive.
THEOREM TypeCorrect == Spec => []TypeOK
<1>1. ASSUME TypeOK, NEW s \in Session, Step(s)
      PROVE  TypeOK'
  <2>1. links' \in SUBSET Link /\ state' \in [Process -> State]
    BY <1>1, TablesLemma
  <2>2. \/ UNCHANGED tx
        \/ \E x \in Adding \cup Closing \cup {Idle} : tx' = [tx EXCEPT ![s] = x]
    <3>1. CASE BeginSome(s)
      BY <1>1, <3>1, BeginLemma
    <3>2. CASE Visit(s)
      BY <1>1, <3>2, VisitLemma
    <3> QED
      BY <1>1, <3>1, <3>2, StepLemma
  <2>3. tx' \in [Session -> Adding \cup Closing \cup {Idle}]
    BY <1>1, <2>2 DEF TypeOK
  <2> QED
    BY <2>1, <2>3 DEF TypeOK
<1>2. ASSUME TypeOK, UNCHANGED vars
      PROVE  TypeOK'
  BY <1>2 DEF TypeOK, vars
<1>3. ASSUME TypeOK, [Next]_vars
      PROVE  TypeOK'
  BY <1>1, <1>2, <1>3 DEF Next
<1> QED
  BY <1>3, TypeInit, PTL DEF Spec

-----------------------------------------------------------------------------
(* The loop of checkCycles.  Whatever the other sessions do, what a         *)
(* transaction has visited behind the front is closed under its links, but  *)
(* for the front, and has no cycle.                                         *)

Searched(x) ==
    \A t \in Controlled :
       /\ x.start \in x.visited[t]
       /\ x.front[t] \subseteq x.visited[t]
       /\ Linked(x.view, t, x.visited[t] \ x.front[t]) \subseteq x.visited[t]
       /\ Acyclic(x.view, t, x.visited[t] \ x.front[t])

SearchInv == \A s \in Session : tx[s] \in Adding => Searched(tx[s])

\* Every transaction begins with nothing behind the front.
LEMMA SearchBegins ==
    ASSUME NEW x \in Adding,
           \A t \in Controlled : x.visited[t] = {x.start} /\ x.front[t] = {x.start}
    PROVE  Searched(x)
<1>1. ASSUME NEW t \in Controlled
      PROVE  x.visited[t] = {x.start} /\ x.front[t] = {x.start}
  OBVIOUS
<1>2. ASSUME NEW t \in Controlled
      PROVE  /\ Linked(x.view, t, x.visited[t] \ x.front[t]) \subseteq x.visited[t]
             /\ Acyclic(x.view, t, x.visited[t] \ x.front[t])
  BY <1>1 DEF Linked, Acyclic
<1> QED
  BY <1>1, <1>2 DEF Searched

\* A turn moves the front behind it: nothing leads back from the new front, so
\* a cycle would already have been behind the old one.
LEMMA SearchGoesOn ==
    ASSUME NEW x \in Adding, NEW y \in Adding, Searched(x),
           y.view = x.view, y.start = x.start,
           \A t \in Controlled :
              /\ y.front[t] = Linked(x.view, t, x.front[t])
              /\ y.visited[t] = x.visited[t] \cup y.front[t]
              /\ x.visited[t] \cap y.front[t] = {}
    PROVE  Searched(y)
<1> SUFFICES ASSUME NEW t \in Controlled
             PROVE  /\ y.start \in y.visited[t]
                    /\ y.front[t] \subseteq y.visited[t]
                    /\ Linked(y.view, t, y.visited[t] \ y.front[t]) \subseteq y.visited[t]
                    /\ Acyclic(y.view, t, y.visited[t] \ y.front[t])
  BY DEF Searched
<1> DEFINE behind == x.visited[t] \ x.front[t]
<1>1. /\ x.start \in x.visited[t] /\ x.front[t] \subseteq x.visited[t]
      /\ Linked(x.view, t, behind) \subseteq x.visited[t]
      /\ Acyclic(x.view, t, behind)
  BY DEF Searched
<1>2. y.visited[t] \ y.front[t] = x.visited[t]
  OBVIOUS
<1>3. Linked(x.view, t, x.visited[t]) \subseteq y.visited[t]
  <2>1. Linked(x.view, t, x.visited[t]) \subseteq
           Linked(x.view, t, behind) \cup Linked(x.view, t, x.front[t])
    BY LinkedLemma
  <2> QED
    BY <1>1, <2>1
<1>4. Acyclic(x.view, t, x.visited[t])
  <2>1. SUFFICES ASSUME NEW S \in SUBSET x.visited[t], S # {}
                 PROVE  \E p \in S : Linked(x.view, t, {p}) \cap S = {}
    BY DEF Acyclic
  <2>2. CASE S \cap x.front[t] = {}
    <3>1. S \in SUBSET behind
      BY <2>2
    <3> QED
      BY <1>1, <2>1, <3>1 DEF Acyclic
  <2>3. ASSUME NEW p \in S, p \in x.front[t]
        PROVE  Linked(x.view, t, {p}) \cap S = {}
    <3>1. Linked(x.view, t, {p}) \subseteq y.front[t]
      BY <2>3, LinkedLemma
    <3> QED
      BY <3>1
  <2> QED
    BY <2>2, <2>3
<1> QED
  BY <1>1, <1>2, <1>3, <1>4

\* When the front has no links, no cycle can be reached from the start.
LEMMA SearchEnds ==
    ASSUME TypeOK, NEW s \in Session, SearchInv, Commit(s), NEW t \in Controlled
    PROVE  /\ tx[s].start \in tx[s].visited[t]
           /\ tx[s].visited[t] \in SUBSET Process
           /\ Linked(tx[s].view, t, tx[s].visited[t]) \subseteq tx[s].visited[t]
           /\ Acyclic(tx[s].view, t, tx[s].visited[t])
<1> DEFINE x == tx[s]
<1>1. x \in Adding /\ Searched(x)
  BY DEF Commit, SearchInv
<1>2. /\ x.view \in SUBSET Link
      /\ x.front \in [Controlled -> SUBSET Process]
      /\ x.visited \in [Controlled -> SUBSET Process]
  BY <1>1 DEF Adding
<1>3. Linked(x.view, t, x.front[t]) = {}
  <2>1. Generation(x.view, x.front)[t] = {}
    BY DEF Commit, FoundNothing
  <2> HIDE DEF x
  <2> QED
    BY <1>2, <2>1, GenerationLemma
<1> HIDE DEF x
<1>4. Linked(x.view, t, x.visited[t]) \subseteq x.visited[t]
  <2>1. Linked(x.view, t, x.visited[t]) \subseteq
           Linked(x.view, t, x.visited[t] \ x.front[t]) \cup Linked(x.view, t, x.front[t])
    BY LinkedLemma
  <2> QED
    BY <1>1, <1>3, <2>1 DEF Searched
<1>5. Acyclic(x.view, t, x.visited[t])
  <2>1. SUFFICES ASSUME NEW S \in SUBSET x.visited[t], S # {}
                 PROVE  \E p \in S : Linked(x.view, t, {p}) \cap S = {}
    BY DEF Acyclic
  <2>2. CASE S \cap x.front[t] = {}
    <3>1. S \in SUBSET (x.visited[t] \ x.front[t])
      BY <2>2
    <3> QED
      BY <1>1, <2>1, <3>1 DEF Acyclic, Searched
  <2>3. ASSUME NEW p \in S, p \in x.front[t]
        PROVE  Linked(x.view, t, {p}) \cap S = {}
    <3>1. Linked(x.view, t, {p}) \subseteq Linked(x.view, t, x.front[t])
      BY <2>3, LinkedLemma
    <3> QED
      BY <1>3, <3>1
  <2> QED
    BY <2>2, <2>3
<1>6. x.start \in x.visited[t] /\ x.visited[t] \in SUBSET Process
  BY <1>1, <1>2 DEF Searched
<1> QED
  BY <1>4, <1>5, <1>6 DEF x

\* The invariant of the loop, for every interleaving of sessions.
LEMMA SearchStep ==
    ASSUME TypeOK, SearchInv, NEW s \in Session, Step(s)
    PROVE  SearchInv'
<1>1. CASE UNCHANGED tx
  BY <1>1 DEF SearchInv
<1>2. ASSUME NEW y, y \in Closing \cup {Idle}, tx' = [tx EXCEPT ![s] = y]
      PROVE  SearchInv'
  BY <1>2, KindsDiffer, IdleAssumption DEF SearchInv, TypeOK
<1>3. ASSUME NEW y \in Adding, tx' = [tx EXCEPT ![s] = y], Searched(y)
      PROVE  SearchInv'
  BY <1>3 DEF SearchInv, TypeOK
<1>4. CASE BeginSome(s)
  <2>1. PICK y \in Adding :
           /\ tx' = [tx EXCEPT ![s] = y]
           /\ y.view = (links \ y.removed) \cup {y.link}
           /\ y.start = y.link.from
           /\ y.link.from \in Given /\ y.link.to \in Given
           /\ \A t \in Controlled : y.visited[t] = {y.start} /\ y.front[t] = {y.start}
    BY <1>4, BeginLemma
  <2>2. Searched(y)
    BY <2>1, SearchBegins
  <2> QED
    BY <1>3, <2>1, <2>2
<1>5. CASE Visit(s)
  <2>1. tx[s] \in Adding /\ Searched(tx[s])
    BY <1>5, VisitLemma DEF SearchInv
  <2>2. PICK y \in Adding :
           /\ tx' = [tx EXCEPT ![s] = y]
           /\ y.view = tx[s].view
           /\ y.start = tx[s].start
           /\ \A t \in Controlled :
                 /\ y.front[t] = Linked(tx[s].view, t, tx[s].front[t])
                 /\ y.visited[t] = tx[s].visited[t] \cup y.front[t]
                 /\ tx[s].visited[t] \cap y.front[t] = {}
    BY <1>5, VisitLemma
  <2>3. Searched(y)
    BY <2>1, <2>2, SearchGoesOn
  <2> QED
    BY <1>3, <2>2, <2>3
<1> QED
  BY <1>1, <1>2, <1>4, <1>5, StepLemma

LEMMA SearchInvariant == Spec => []SearchInv
<1>1. Init => SearchInv
  BY IdleAssumption DEF Init, SearchInv
<1>2. ASSUME SearchInv, UNCHANGED vars
      PROVE  SearchInv'
  BY <1>2 DEF SearchInv, vars
<1>3. ASSUME TypeOK, SearchInv, [Next]_vars
      PROVE  SearchInv'
  BY <1>2, <1>3, SearchStep DEF Next
<1> QED
  BY <1>1, <1>3, TypeCorrect, PTL DEF Spec

\* However requests overlap, checkCycles lets a link be committed only if no
\* cycle can be reached, in the links its transaction sees, from the process
\* it looked from.
THEOREM CommitsWithoutCycle == Spec => CommitsNoCycle
<1>1. ASSUME TypeOK, SearchInv, NEW s \in Session, Commit(s), NEW t \in Controlled
      PROVE  AcyclicFrom(tx[s].view, t, tx[s].start)
  BY <1>1, SearchEnds DEF AcyclicFrom
<1>2. ASSUME TypeOK, SearchInv, [Next]_vars
      PROVE  [\A s \in Session : Commit(s) =>
                 \A t \in Controlled : AcyclicFrom(tx[s].view, t, tx[s].start)]_vars
  BY <1>1, <1>2
<1> QED
  BY <1>2, TypeCorrect, SearchInvariant, PTL DEF Spec, CommitsNoCycle

-----------------------------------------------------------------------------
(* Requests one after another: what a transaction saw is still there when it *)
(* commits.                                                                  *)

\* What a transaction saw is what the table holds, with its own writes.
FreshAdding(x) ==
    /\ x.view = (links \ x.removed) \cup {x.link}
    /\ x.start = x.link.from
    /\ x.link.from \in Given /\ x.link.to \in Given

FreshClosing(x) ==
    x.blocked <=> \E q \in WaitsFor(links, x.process) \ {x.process} : state[q] = "open"

SerialInv ==
    \A s \in Session :
       /\ tx[s] # Idle => Alone(s)
       /\ tx[s] \in Adding => FreshAdding(tx[s])
       /\ tx[s] \in Closing => FreshClosing(tx[s])

\* Serial requests are requests.
LEMMA SerialIsSpec == SerialSpec => Spec
<1>1. [SerialNext]_vars => [Next]_vars
  BY DEF SerialNext, Next
<1> QED
  BY <1>1, PTL DEF SerialSpec, Spec

\* A lonely step gives its session a fresh transaction, or none.
LEMMA SerialChange ==
    ASSUME TypeOK, SerialInv, NEW s \in Session, Alone(s),
           NEW y, tx' = [tx EXCEPT ![s] = y],
           y \in Adding => FreshAdding(y)',
           y \in Closing => FreshClosing(y)'
    PROVE  SerialInv'
<1>1. tx'[s] = y /\ \A r \in Session \ {s} : tx'[r] = Idle
  BY DEF TypeOK, Alone
<1>2. Idle \notin Adding /\ Idle \notin Closing
  BY IdleAssumption
<1>3. Alone(s)'
  BY <1>1 DEF Alone
<1>4. ASSUME NEW r \in Session
      PROVE  /\ tx'[r] # Idle => Alone(r)'
             /\ tx'[r] \in Adding => FreshAdding(tx[r])'
             /\ tx'[r] \in Closing => FreshClosing(tx[r])'
  <2>1. CASE r = s
    <3>1. (tx[r])' = y
      BY <1>1, <2>1
    <3>2. FreshAdding(tx[r])' <=> FreshAdding(y)'
      BY <3>1 DEF FreshAdding, Given
    <3>3. FreshClosing(tx[r])' <=> FreshClosing(y)'
      BY <3>1 DEF FreshClosing, WaitsFor
    <3> QED
      BY <1>3, <2>1, <3>1, <3>2, <3>3
  <2>2. CASE r # s
    BY <1>1, <1>2, <2>2
  <2> QED
    BY <2>1, <2>2
<1> QED
  BY <1>4 DEF SerialInv

LEMMA SerialStep ==
    ASSUME TypeOK, SerialInv, NEW s \in Session, Alone(s), Step(s)
    PROVE  SerialInv'
<1>1. Idle \notin Adding /\ Idle \notin Closing
  BY IdleAssumption
<1>2. CASE tx' = [tx EXCEPT ![s] = Idle]
  BY <1>1, <1>2, SerialChange
<1>3. CASE tx[s] = Idle /\ UNCHANGED tx
  BY <1>1, <1>3 DEF SerialInv, Alone
<1>4. ASSUME NEW p \in Process, OpenToClose(s, p)
      PROVE  SerialInv'
  <2> DEFINE b == \E q \in WaitsFor(links, p) \ {p} : state[q] = "open"
             x == [process |-> p, blocked |-> b]
  <2>1. tx' = [tx EXCEPT ![s] = x] /\ UNCHANGED <<links, state>>
    BY <1>4 DEF OpenToClose
  <2>2. x \in Closing /\ x.process = p /\ (x.blocked <=> b)
    BY Zenon DEF Closing
  <2>3. PICK y \in Closing :
           tx' = [tx EXCEPT ![s] = y] /\ y.process = p /\ (y.blocked <=> b)
    BY <2>1, <2>2, Zenon
  <2>4. y.blocked <=> \E q \in WaitsFor(links', y.process) \ {y.process} : state'[q] = "open"
    BY <2>1, <2>3
  <2>5. FreshClosing(y)'
    BY <2>4 DEF FreshClosing, WaitsFor
  <2> QED
    BY <2>3, <2>5, KindsDiffer, SerialChange
<1>5. CASE BeginSome(s)
  <2>1. PICK y \in Adding :
           /\ tx' = [tx EXCEPT ![s] = y]
           /\ y.view = (links \ y.removed) \cup {y.link}
           /\ y.start = y.link.from
           /\ y.link.from \in Given /\ y.link.to \in Given
           /\ \A t \in Controlled : y.visited[t] = {y.start} /\ y.front[t] = {y.start}
    BY <1>5, BeginLemma
  <2>2. FreshAdding(y)'
    BY <1>5, <2>1, BeginLemma DEF FreshAdding, Given
  <2> QED
    BY <2>1, <2>2, KindsDiffer, SerialChange
<1>6. CASE Visit(s)
  <2>1. tx[s] \in Adding /\ UNCHANGED <<links, state>>
    BY <1>6, VisitLemma
  <2>2. PICK y \in Adding :
           /\ tx' = [tx EXCEPT ![s] = y]
           /\ y.link = tx[s].link
           /\ y.removed = tx[s].removed
           /\ y.view = tx[s].view
           /\ y.start = tx[s].start
           /\ \A t \in Controlled :
                 /\ y.front[t] = Linked(tx[s].view, t, tx[s].front[t])
                 /\ y.visited[t] = tx[s].visited[t] \cup y.front[t]
                 /\ tx[s].visited[t] \cap y.front[t] = {}
    BY <1>6, VisitLemma
  <2>3. FreshAdding(tx[s])
    BY <2>1 DEF SerialInv
  <2>4. FreshAdding(y)'
    BY <2>1, <2>2, <2>3 DEF FreshAdding, Given
  <2> QED
    BY <2>2, <2>4, KindsDiffer, SerialChange
<1>7. CASE \/ \E p \in Process : Create(s, p) \/ Delete(s, p) \/ Reopen(s, p)
           \/ \E p, q \in Process, t \in LinkType : CreateLinked(s, p, q, t)
           \/ RemoveSome(s)
  BY <1>3, <1>7 DEF Create, Delete, Reopen, CreateLinked, RemoveSome, Remove
<1>8. CASE Close(s) \/ Refuse(s) \/ Commit(s) \/ Fail(s)
  BY <1>2, <1>8 DEF Close, Refuse, Commit, Fail
<1>9. \/ \E p \in Process : Create(s, p) \/ Delete(s, p) \/ Reopen(s, p) \/ OpenToClose(s, p)
      \/ \E p, q \in Process, t \in LinkType : CreateLinked(s, p, q, t)
      \/ Close(s) \/ BeginSome(s) \/ Visit(s) \/ Refuse(s) \/ Commit(s) \/ Fail(s)
      \/ RemoveSome(s)
  BY BeginSomeLemma DEF Step
<1> QED
  BY <1>4, <1>5, <1>6, <1>7, <1>8, <1>9

LEMMA SerialInvariant == SerialSpec => [](TypeOK /\ SearchInv /\ SerialInv)
<1>1. Init => SerialInv
  BY IdleAssumption DEF Init, SerialInv
<1>2. ASSUME SerialInv, UNCHANGED vars
      PROVE  SerialInv'
  BY <1>2 DEF SerialInv, vars, Alone, FreshAdding, FreshClosing, Given, WaitsFor
<1>3. ASSUME TypeOK, SerialInv, [SerialNext]_vars
      PROVE  SerialInv'
  BY <1>2, <1>3, SerialStep DEF SerialNext
<1> QED
  BY <1>1, <1>3, SerialIsSpec, TypeCorrect, SearchInvariant, PTL DEF SerialSpec

-----------------------------------------------------------------------------
(* Links without cycles *)

LEMMA AcyclicFewer ==
    ASSUME NEW L, NEW M \in SUBSET L, NEW t, NEW P, Acyclic(L, t, P)
    PROVE  Acyclic(M, t, P)
<1>1. ASSUME NEW p
      PROVE  Linked(M, t, {p}) \subseteq Linked(L, t, {p})
  BY LinkedLemma
<1>2. ASSUME NEW S \in SUBSET P, S # {}
      PROVE  \E p \in S : Linked(M, t, {p}) \cap S = {}
  <2>1. PICK p \in S : Linked(L, t, {p}) \cap S = {}
    BY <1>2 DEF Acyclic
  <2> QED
    BY <1>1, <2>1
<1> QED
  BY <1>2 DEF Acyclic

\* A link to a process without links closes no cycle.
LEMMA AcyclicWithNew ==
    ASSUME NEW L \in SUBSET Link, NEW t, NEW k \in Link, k.from # k.to,
           \A l \in L : l.from # k.to /\ l.to # k.to,
           Acyclic(L, t, Process)
    PROVE  Acyclic(L \cup {k}, t, Process)
<1> SUFFICES ASSUME NEW S \in SUBSET Process, S # {}
             PROVE  \E p \in S : Linked(L \cup {k}, t, {p}) \cap S = {}
  BY DEF Acyclic
<1>1. CASE k.to \in S
  <2>1. Linked(L \cup {k}, t, {k.to}) = {}
    BY LinkedLemma
  <2> QED
    BY <1>1, <2>1
<1>2. CASE k.to \notin S
  <2>1. PICK p \in S : Linked(L, t, {p}) \cap S = {}
    BY DEF Acyclic
  <2>2. Linked(L \cup {k}, t, {p}) \subseteq Linked(L, t, {p}) \cup {k.to}
    BY LinkedLemma
  <2> QED
    BY <1>2, <2>1, <2>2
<1> QED
  BY <1>1, <1>2

\* A link closes no cycle if none can be reached from where it starts.
LEMMA AcyclicWithLink ==
    ASSUME NEW L \in SUBSET Link, NEW M \in SUBSET L, NEW t, NEW k \in Link,
           Acyclic(L, t, Process),
           NEW R \in SUBSET Process, k.from \in R,
           Linked(M \cup {k}, t, R) \subseteq R,
           Acyclic(M \cup {k}, t, R)
    PROVE  Acyclic(M \cup {k}, t, Process)
<1> SUFFICES ASSUME NEW S \in SUBSET Process, S # {}
             PROVE  \E p \in S : Linked(M \cup {k}, t, {p}) \cap S = {}
  BY DEF Acyclic
<1>1. CASE S \cap R # {}
  <2>1. PICK p \in S \cap R : Linked(M \cup {k}, t, {p}) \cap (S \cap R) = {}
    <3>1. S \cap R \in SUBSET R
      OBVIOUS
    <3> QED
      BY <1>1, <3>1 DEF Acyclic
  <2>2. Linked(M \cup {k}, t, {p}) \subseteq R
    <3>1. Linked(M \cup {k}, t, {p}) \subseteq Linked(M \cup {k}, t, R)
      BY LinkedLemma
    <3> QED
      BY <3>1
  <2> QED
    BY <2>1, <2>2
<1>2. CASE S \cap R = {}
  <2>1. PICK p \in S : Linked(L, t, {p}) \cap S = {}
    BY DEF Acyclic
  <2>2. p # k.from
    BY <1>2
  <2>3. Linked(M \cup {k}, t, {p}) \subseteq Linked(L, t, {p})
    BY <2>2, LinkedLemma
  <2> QED
    BY <2>1, <2>3
<1> QED
  BY <1>1, <1>2

\* No link waits for a process that gets its number.
LinksGiven == \A l \in links : l.from \in Given /\ l.to \in Given

GraphInv == LinksAcyclic /\ LinksGiven

\* A commit adds one link and removes some; its transaction saw the table.
LEMMA CommitStep ==
    ASSUME TypeOK, SearchInv, SerialInv, GraphInv, NEW s \in Session, Commit(s)
    PROVE  GraphInv'
<1>1. /\ tx[s] \in Adding
      /\ links' = (links \ tx[s].removed) \cup {tx[s].link}
      /\ UNCHANGED state
  BY DEF Commit
<1>2. /\ tx[s].view = (links \ tx[s].removed) \cup {tx[s].link}
      /\ tx[s].start = tx[s].link.from
      /\ tx[s].link.from \in Given /\ tx[s].link.to \in Given
  BY <1>1 DEF SerialInv, FreshAdding
<1>3. links \in SUBSET Link /\ tx[s].link \in Link /\ links \ tx[s].removed \in SUBSET links
  BY <1>1 DEF TypeOK, Adding
<1>4. ASSUME NEW t \in Controlled
      PROVE  Acyclic(links', t, Process)
  <2>1. Acyclic(links, t, Process)
    BY DEF GraphInv, LinksAcyclic
  <2>2. /\ tx[s].link.from \in tx[s].visited[t]
        /\ tx[s].visited[t] \in SUBSET Process
        /\ Linked(links', t, tx[s].visited[t]) \subseteq tx[s].visited[t]
        /\ Acyclic(links', t, tx[s].visited[t])
    BY <1>1, <1>2, SearchEnds
  <2> QED
    BY <1>1, <1>3, <2>1, <2>2, AcyclicWithLink
<1>5. LinksGiven'
  BY <1>1, <1>2 DEF GraphInv, LinksGiven, Given
<1> QED
  BY <1>4, <1>5 DEF GraphInv, LinksAcyclic

LEMMA GraphStep ==
    ASSUME TypeOK, SearchInv, SerialInv, GraphInv, NEW s \in Session, Alone(s), Step(s)
    PROVE  GraphInv'
<1>1. ASSUME links' \subseteq links, Given \subseteq Given'
      PROVE  GraphInv'
  BY <1>1, AcyclicFewer DEF GraphInv, LinksAcyclic, LinksGiven
<1>2. ASSUME NEW p \in Process,
             Create(s, p) \/ Delete(s, p) \/ Reopen(s, p) \/ OpenToClose(s, p)
      PROVE  GraphInv'
  <2>1. links' \subseteq links
    BY <1>2 DEF Create, Delete, Reopen, OpenToClose
  <2>2. Given \subseteq Given'
    BY <1>2 DEF Create, Delete, Reopen, OpenToClose, Given, TypeOK
  <2> QED
    BY <1>1, <2>1, <2>2
<1>3. ASSUME NEW p \in Process, NEW q \in Process, NEW t \in LinkType,
             CreateLinked(s, p, q, t)
      PROVE  GraphInv'
  <2> DEFINE k == [type |-> t, from |-> q, to |-> p]
  <2>1. k \in Link /\ k.from = q /\ k.to = p /\ links' = links \cup {k}
    BY <1>3 DEF Link, CreateLinked
  <2> HIDE DEF k
  <2>2. p \notin Given /\ q \in Given /\ links \in SUBSET Link
    BY <1>3 DEF CreateLinked, Exists, Given, TypeOK
  <2>3. \A l \in links : l.from # p /\ l.to # p
    BY <2>2 DEF GraphInv, LinksGiven
  <2>4. LinksAcyclic'
    BY <2>1, <2>2, <2>3, AcyclicWithNew DEF GraphInv, LinksAcyclic
  <2>5. Given' = Given \cup {p}
    BY <1>3 DEF CreateLinked, Given, TypeOK
  <2>6. LinksGiven'
    BY <2>1, <2>2, <2>5 DEF GraphInv, LinksGiven
  <2> QED
    BY <2>4, <2>6 DEF GraphInv
<1>4. CASE Close(s)
  BY <1>1, <1>4 DEF Close, Given, Closing, TypeOK
<1>5. CASE BeginSome(s) \/ Visit(s) \/ Refuse(s) \/ Fail(s)
  <2>1. UNCHANGED <<links, state>>
    BY <1>5 DEF BeginSome, Begin, Visit, Refuse, Fail
  <2> QED
    BY <1>1, <2>1 DEF Given
<1>6. CASE RemoveSome(s)
  <2>1. links' \subseteq links /\ UNCHANGED state
    BY <1>6 DEF RemoveSome, Remove
  <2> QED
    BY <1>1, <2>1 DEF Given
<1>7. CASE Commit(s)
  BY <1>7, CommitStep
<1> QED
  BY <1>2, <1>3, <1>4, <1>5, <1>6, <1>7, BeginSomeLemma DEF Step

LEMMA GraphInvariant == SerialSpec => []GraphInv
<1>1. Init => GraphInv
  BY DEF Init, GraphInv, LinksAcyclic, LinksGiven, Acyclic, Linked
<1>2. ASSUME GraphInv, UNCHANGED vars
      PROVE  GraphInv'
  BY <1>2 DEF GraphInv, LinksAcyclic, LinksGiven, Given, vars
<1>3. ASSUME TypeOK, SearchInv, SerialInv, GraphInv, [SerialNext]_vars
      PROVE  GraphInv'
  BY <1>2, <1>3, GraphStep DEF SerialNext
<1> QED
  BY <1>1, <1>3, SerialInvariant, PTL DEF SerialSpec

\* Requests one after another keep the table without cycles of a controlled
\* type, though addLink and move only look at what can be reached from one
\* process.
THEOREM NeverCyclic == SerialSpec => []LinksAcyclic
  BY GraphInvariant, PTL DEF GraphInv

\* Requests one after another: ProcessClosingListener lets a process be closed
\* only after all those it waits for.
THEOREM ClosedInOrder == SerialSpec => ClosesLast
<1>1. ASSUME TypeOK, SerialInv, NEW s \in Session, Step(s), NEW p \in Process,
             state[p] = "open", state'[p] = "closed",
             NEW q \in WaitsFor(links, p) \ {p}
      PROVE  state[q] # "open"
  <2>1. CASE Close(s)
    <3>1. tx[s] \in Closing /\ ~tx[s].blocked
      BY <2>1 DEF Close
    <3>2. p = tx[s].process
      BY <1>1, <2>1 DEF Close, TypeOK
    <3> QED
      BY <1>1, <3>1, <3>2 DEF SerialInv, FreshClosing
  <2>2. CASE UNCHANGED state
    BY <1>1, <2>2
  <2>3. ASSUME NEW r \in Process,
               \/ Create(s, r) \/ Delete(s, r) \/ Reopen(s, r)
               \/ \E r2 \in Process, t \in LinkType : CreateLinked(s, r, r2, t)
        PROVE  FALSE
    BY <1>1, <2>3 DEF Create, Delete, Reopen, CreateLinked, TypeOK
  <2>4. ASSUME NEW r \in Process, OpenToClose(s, r)
        PROVE  UNCHANGED state
    BY <2>4 DEF OpenToClose
  <2>5. CASE BeginSome(s) \/ Visit(s) \/ Refuse(s) \/ Commit(s) \/ Fail(s) \/ RemoveSome(s)
    BY <2>2, <2>5 DEF BeginSome, Begin, Visit, Refuse, Commit, Fail, RemoveSome, Remove
  <2> QED
    BY <1>1, <2>1, <2>2, <2>3, <2>4, <2>5, BeginSomeLemma DEF Step
<1>2. ASSUME TypeOK, SerialInv, [SerialNext]_vars
      PROVE  [\A p \in Process : state[p] = "open" /\ state'[p] = "closed" =>
                 \A q \in WaitsFor(links, p) \ {p} : state[q] # "open"]_vars
  BY <1>1, <1>2 DEF SerialNext
<1> QED
  BY <1>2, SerialInvariant, PTL DEF SerialSpec, ClosesLast

-----------------------------------------------------------------------------
(* The links implement the graph: each request is one step of it. *)

\* The two ways to say that there is no cycle agree.
LEMMA NoCycleLemma ==
    ASSUME NEW L, \A t \in Controlled : Acyclic(L, t, Process)
    PROVE  Graph!NoCycle(L)
<1> SUFFICES ASSUME NEW t \in Controlled, NEW S \in SUBSET Process, S # {}
             PROVE  \E p \in S : \A l \in L : l.type = t /\ l.from = p => l.to \notin S
  BY DEF Graph!NoCycle
<1>1. PICK p \in S : Linked(L, t, {p}) \cap S = {}
  BY DEF Acyclic
<1>2. ASSUME NEW l \in L, l.type = t, l.from = p
      PROVE  l.to \notin S
  BY <1>1, <1>2, LinkedLemma
<1> QED
  BY <1>2

LEMMA GraphNoCycle == LinksAcyclic => Graph!NoCycle(links)
  BY NoCycleLemma DEF LinksAcyclic

\* A process that waits for none that is open may be closed.
LEMMA MustWaitLemma ==
    ASSUME NEW p \in Process,
           ~ \E q \in WaitsFor(links, p) \ {p} : state[q] = "open"
    PROVE  ~Graph!MustWait(p)
<1>1. ASSUME NEW l \in links, l.type \in Down, l.from = p
      PROVE  l.to \in WaitsFor(links, p)
  BY <1>1 DEF WaitsFor
<1>2. ASSUME NEW l \in links, l.type \in Up, l.to = p
      PROVE  l.from \in WaitsFor(links, p)
  BY <1>2 DEF WaitsFor
<1> QED
  BY <1>1, <1>2 DEF Graph!MustWait

\* A step of a lonely session is a step of the graph, or none.
LEMMA GraphStepOrNone ==
    ASSUME TypeOK, SerialInv, GraphInv', NEW s \in Session, Alone(s), Step(s)
    PROVE  Graph!Next \/ UNCHANGED <<links, state>>
<1>1. Graph!NoCycle(links)'
  BY NoCycleLemma DEF GraphInv, LinksAcyclic
<1>2. ASSUME NEW p \in Process, Create(s, p)
      PROVE  Graph!Create(p)
  BY <1>1, <1>2 DEF Create, Graph!Create
<1>3. ASSUME NEW p \in Process, NEW q \in Process, NEW t \in LinkType, CreateLinked(s, p, q, t)
      PROVE  Graph!Create(p)
  BY <1>1, <1>3 DEF CreateLinked, Graph!Create, Exists, Graph!Exists
<1>4. ASSUME NEW p \in Process, Delete(s, p)
      PROVE  Graph!Delete(p)
  BY <1>4 DEF Delete, Graph!Delete, Exists, Graph!Exists
<1>5. ASSUME NEW p \in Process, Reopen(s, p)
      PROVE  Graph!Reopen(p)
  BY <1>5 DEF Reopen, Graph!Reopen
<1>6. ASSUME Close(s)
      PROVE  (\E p \in Process : Graph!Close(p)) \/ UNCHANGED <<links, state>>
  <2>1. tx[s] \in Closing /\ ~tx[s].blocked
    BY <1>6 DEF Close
  <2> DEFINE p == tx[s].process
  <2>2. p \in Process /\ ~Graph!MustWait(p)
    BY <2>1, MustWaitLemma DEF SerialInv, FreshClosing, Closing
  <2>3. state' = [state EXCEPT ![p] = IF Exists(p) THEN "closed" ELSE @] /\ UNCHANGED links
    BY <1>6 DEF Close
  <2>4. CASE state[p] = "open"
    BY <2>2, <2>3, <2>4 DEF Graph!Close, Exists
  <2>5. CASE state[p] # "open"
    BY <2>2, <2>3, <2>5 DEF Exists, TypeOK
  <2> QED
    BY <2>2, <2>4, <2>5
<1>7. ASSUME Commit(s)
      PROVE  \E l \in links' : Graph!Add(l)
  <2>1. /\ tx[s] \in Adding
        /\ links' = (links \ tx[s].removed) \cup {tx[s].link}
        /\ UNCHANGED state
    BY <1>7 DEF Commit
  <2>2. tx[s].link.from \in Given /\ tx[s].link.to \in Given
    BY <2>1 DEF SerialInv, FreshAdding
  <2> QED
    BY <1>1, <2>1, <2>2 DEF Graph!Add, Given
<1>8. ASSUME RemoveSome(s)
      PROVE  Graph!Remove
  <2>1. ASSUME NEW gone, Remove(s, gone)
        PROVE  Graph!Remove
    BY <2>1 DEF Remove, Graph!Remove
  <2> QED
    BY <1>8, <2>1 DEF RemoveSome
<1>9. ASSUME NEW p \in Process, OpenToClose(s, p)
      PROVE  UNCHANGED <<links, state>>
  BY <1>9 DEF OpenToClose
<1>10. ASSUME BeginSome(s) \/ Visit(s) \/ Refuse(s) \/ Fail(s)
       PROVE  UNCHANGED <<links, state>>
  BY <1>10 DEF BeginSome, Begin, Visit, Refuse, Fail
<1> QED
  BY <1>2, <1>3, <1>4, <1>5, <1>6, <1>7, <1>8, <1>9, <1>10, BeginSomeLemma
  DEF Step, Graph!Next

\* Requests one after another, each with a search of many steps over its
\* snapshot or a check that a later commit relies on, implement the graph that
\* changes in one step, has no cycles, loses the links of a deleted process and
\* closes processes in order.
THEOREM LinksImplementGraph == SerialSpec => ImplementsGraph
<1>1. Init => Graph!Init
  BY DEF Init, Graph!Init
<1>2. ASSUME TypeOK, SerialInv, GraphInv', [SerialNext]_vars
      PROVE  [Graph!Next]_(Graph!vars)
  BY <1>2, GraphStepOrNone DEF SerialNext, vars, Graph!vars
<1> QED
  BY <1>1, <1>2, SerialInvariant, GraphInvariant, PTL
  DEF SerialSpec, ImplementsGraph, Graph!Spec

=============================================================================
