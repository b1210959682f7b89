------------------------------- MODULE Shell --------------------------------
(***************************************************************************)
(* The shell of the user interface in the browser, kernel.shell.js, and    *)
(* the cascading load of kernel.ajax.js it waits for.                      *)
(*                                                                         *)
(* contentLoad(href) queues an item: a tool of the menu, which has a       *)
(* button on the task panel, or an object, such as a process card, which   *)
(* is kept in the buffer when another item takes its place.  An item is    *)
(* opened only after the load of the one before it is over, and a load is  *)
(* over when the parts that its page loads are loaded too.  Clicks on      *)
(* buttons, crosses and titles are handled at once.                        *)
(***************************************************************************)
EXTENDS Naturals, FiniteSets, SequencesExt

CONSTANTS
    Tool,       \* hrefs of menuItems
    Object,     \* hrefs of objects
    Process,    \* the objects that are process cards
    Forbidden,  \* the tools the user is not allowed
    MaxObjects, \* iface.buffer.maxObjects
    None,
    MaxQueue,   \* bound: calls of contentLoad that wait
    MaxParts,   \* bound: parts a page loads
    MaxEditors  \* bound: open editors

ASSUME ShellAssumption ==
    /\ Process \subseteq Object /\ Forbidden \subseteq Tool
    /\ Tool \cap Object = {} /\ None \notin Tool \cup Object
    /\ MaxObjects \in Nat /\ MaxQueue \in Nat /\ MaxParts \in Nat
    /\ MaxEditors \in Nat

VARIABLES
    order,    \* iface.buffer.behavior: "top" (1) or "keep" (2)
    queue,    \* the calls of contentLoad that wait for contentLoadDfd
    loading,  \* the load that contentLoadDfd stands for, or None
    page,     \* the windows and the buffer, see Page
    panel     \* the buttons of the task panel, see Panel

vars == <<order, queue, loading, page, panel>>

Item == Tool \cup Object

\* "dead": the Deferred of the load will never be resolved.
Load == [of : Item, stage : {"html", "parts"}, parts : 0..MaxParts, dead : BOOLEAN]

\* "hidden": the li of an object that is shown, with behaviour 2.
Li == [of : Object, hidden : BOOLEAN]

Page == [windows : SUBSET Item,           \* divs of #content and #title
         shown : Item \cup {None},        \* the one that is visible
         editing : SUBSET Object,         \* with a visible .editorStopReload
         bound : SUBSET (Item \X Object), \* title, whose handlers it has
         buffer : Seq(Li),                \* #objectBuffer
         current : Object \cup {None}]    \* whose closeObject $$.closeObject is

Panel == [buttons : Seq(Tool), active : Tool \cup {None}]

TypeOK ==
    /\ order \in {"top", "keep"}
    /\ queue \in Seq(Item)
    /\ loading \in Load \cup {None}
    /\ page \in Page
    /\ panel \in Panel

Init ==
    /\ order \in {"top", "keep"}
    /\ queue = <<>>
    /\ loading = None
    /\ page = [windows |-> {}, shown |-> None, editing |-> {}, bound |-> {},
               buffer |-> <<>>, current |-> None]
    /\ panel = [buttons |-> <<>>, active |-> None]

-----------------------------------------------------------------------------
(* The page *)

\* The elements of s that are in D, in their order.
Kept(s, D) ==
    LET f[n \in 0..Len(s)] ==
            IF n = 0 THEN <<>>
            ELSE IF s[n] \in D THEN Append(f[n - 1], s[n]) ELSE f[n - 1]
    IN  f[Len(s)]

LisBut(I) == {li \in Li : li.of \notin I}

\* removeCommandDiv, of several: windows, titles and lis.
Removed(P, I) ==
    [P EXCEPT !.windows = @ \ I,
              !.editing = @ \ I,
              !.bound = {b \in @ : b[1] \notin I /\ b[2] \notin I},
              !.buffer = Kept(@, LisBut(I)),
              !.shown = IF @ \in I THEN None ELSE @]

\* getCommandDiv, without its reload.
Shown(P, i) == [P EXCEPT !.windows = @ \cup {i}, !.shown = i]

InBuffer(b, o) == \E k \in DOMAIN b : b[k].of = o

Buffered(b, o) ==
    LET li == [of |-> o, hidden |-> FALSE]
    IN  IF order = "top" THEN <<li>> \o b
        ELSE IF InBuffer(b, o)
        THEN [k \in DOMAIN b |-> IF b[k].of = o THEN li ELSE b[k]]
        ELSE Append(b, li)

\* $$.closeObject: the current object goes to the buffer.
Closed(P) ==
    IF P.current = None THEN P
    ELSE [P EXCEPT !.buffer = Buffered(@, P.current), !.current = None]

TakenByHiding(P, o) ==
    [P EXCEPT !.buffer =
        [k \in DOMAIN @ |-> IF @[k].of = o THEN [@[k] EXCEPT !.hidden = TRUE] ELSE @[k]]]

\* The li of an object that is opened.
Taken(P, o) ==
    [P EXCEPT !.buffer =
        IF order = "top" THEN Kept(@, LisBut({o}))
        ELSE [k \in DOMAIN @ |-> IF @[k].of = o THEN [@[k] EXCEPT !.hidden = TRUE]
                                 ELSE @[k]]]

\* The visible lis of the buffer from the k-th on.
VisibleFrom(b, k) == {j \in k..Len(b) : ~b[j].hidden}

\* getBufferCount
Visible(b) == Cardinality(VisibleFrom(b, 1))

OverflowUnlimited(b) == {}

Overflow(b) ==
    IF order = "top" THEN {b[k].of : k \in {k \in DOMAIN b : k > MaxObjects + 1}}
    ELSE {b[k].of : k \in {k \in DOMAIN b : Cardinality(VisibleFrom(b, k)) > MaxObjects}}

Trimmed(P) == Removed(P, Overflow(P.buffer))

ReloadedAlways(P, o) == IF o \in Process THEN Removed(P, {o}) ELSE P

\* The card of a process without an open editor is loaded anew.
Reloaded(P, o) ==
    IF o \in Process /\ o \notin P.editing THEN Removed(P, {o}) ELSE P

OpenedWithoutClosing(P, o) ==
    [Shown(Reloaded(Trimmed(Taken(P, o)), o), o) EXCEPT !.current = o]

\* contentLoadAsync of an object, up to its load.
Opened(P, o) ==
    LET trimmed == Trimmed(Taken(P, o))
        shown == Shown(Reloaded(trimmed, o), o)
    IN  IF trimmed.shown = o THEN shown
        ELSE [Closed(shown) EXCEPT !.current = o]

IsNew(P, o) == o \notin Reloaded(Trimmed(Taken(P, o)), o).windows

-----------------------------------------------------------------------------
(* contentLoad *)

Requested(i) == [of |-> i, stage |-> "html", parts |-> 0, dead |-> FALSE]

Dead(l) == [l EXCEPT !.dead = TRUE]

\* The load when window i is removed: a script of a reply that comes to a
\* removed element does not run.
Without(i) ==
    IF loading # None /\ loading.of = i THEN Dead(loading) ELSE loading

\* The window of o is still empty.
AwaitsHtml(o) == loading # None /\ loading.of = o /\ loading.stage = "html"

\* A link, a row of a table, an li of the buffer, a state of the history.
Ask(i) ==
    /\ Len(queue) < MaxQueue
    /\ queue' = Append(queue, i)
    /\ UNCHANGED <<order, loading, page, panel>>

\* The next in the queue, when the one before is resolved.
IsNext(i) ==
    /\ loading = None
    /\ queue # <<>>
    /\ i = Head(queue)

HasButton(t) == \E k \in DOMAIN panel.buttons : panel.buttons[k] = t

\* The handler of a click on the button of a tool.
Click(t, buttons) ==
    /\ page' = Closed(Shown(page, t))
    /\ panel' = [buttons |-> buttons, active |-> t]

StartTool(t) ==
    /\ IsNext(t)
    /\ t \notin Forbidden
    /\ queue' = Tail(queue)
    /\ IF HasButton(t)
       THEN Click(t, panel.buttons) /\ UNCHANGED loading
       ELSE Click(t, Append(panel.buttons, t)) /\ loading' = Requested(t)
    /\ UNCHANGED order

\* Only an alert: contentLoadDfd is not resolved.
StartForbidden(t) ==
    /\ IsNext(t)
    /\ t \in Forbidden
    /\ queue' = Tail(queue)
    /\ loading' = Dead(Requested(t))
    /\ UNCHANGED <<order, page, panel>>

StartObjectAtOnce(o) ==
    /\ queue # <<>>
    /\ o = Head(queue)
    /\ queue' = Tail(queue)
    /\ page' = Opened(page, o)
    /\ panel' = [panel EXCEPT !.active = None]
    /\ loading' = IF IsNew(page, o) THEN Requested(o) ELSE loading
    /\ UNCHANGED order

StartObject(o) ==
    /\ IsNext(o)
    /\ queue' = Tail(queue)
    /\ page' = Opened(page, o)
    /\ panel' = [panel EXCEPT !.active = None]
    /\ loading' = IF IsNew(page, o) THEN Requested(o) ELSE None
    /\ UNCHANGED order

\* The load is over: an object binds its handlers to the visible title.
Finish ==
    /\ loading' = None
    /\ page' = IF loading.of \in Object /\ page.shown # None
               THEN [page EXCEPT !.bound = @ \cup {<<page.shown, loading.of>>}]
               ELSE page

\* The page comes and loads n parts ...
Html(n) ==
    /\ loading # None
    /\ loading.stage = "html" /\ ~loading.dead
    /\ IF n = 0 THEN Finish
       ELSE loading' = [loading EXCEPT !.stage = "parts", !.parts = n] /\ UNCHANGED page
    /\ UNCHANGED <<order, queue, panel>>

PartUncounted ==
    /\ loading # None
    /\ loading.stage = "parts" /\ ~loading.dead
    /\ loading' = [loading EXCEPT !.parts = @ - 1]
    /\ UNCHANGED <<order, queue, page, panel>>

PartButTheLast ==
    /\ loading # None
    /\ loading.stage = "parts" /\ ~loading.dead
    /\ loading.parts > 1
    /\ loading' = [loading EXCEPT !.parts = @ - 1]
    /\ UNCHANGED <<order, queue, page, panel>>

\* ... and each of them comes, with those it loads itself.
Part ==
    /\ loading # None
    /\ loading.stage = "parts" /\ ~loading.dead
    /\ IF loading.parts = 1 THEN Finish
       ELSE loading' = [loading EXCEPT !.parts = @ - 1] /\ UNCHANGED page
    /\ UNCHANGED <<order, queue, panel>>

\* A request of the load fails: "post" rejects its own Deferred, not the one
\* of the load.
Fail ==
    /\ loading # None
    /\ ~loading.dead
    /\ loading' = Dead(loading)
    /\ UNCHANGED <<order, queue, page, panel>>

-----------------------------------------------------------------------------
(* Clicks *)

ClickButton(t) ==
    /\ HasButton(t)
    /\ Click(t, panel.buttons)
    /\ UNCHANGED <<order, queue, loading>>

\* The cross of a button: if it is active the last of the others is clicked.
CloseTool(t) ==
    LET others == Kept(panel.buttons, Tool \ {t})
    IN  /\ HasButton(t)
        /\ IF panel.active = t /\ others # <<>>
           THEN \E u \in Tool :
                   /\ u = Last(others)
                   /\ page' = Removed(Closed(Shown(page, u)), {t})
                   /\ panel' = [buttons |-> others, active |-> u]
           ELSE /\ page' = Removed(page, {t})
                /\ panel' = [buttons |-> others,
                             active |-> IF panel.active = t THEN None ELSE panel.active]
        /\ loading' = Without(t)
        /\ UNCHANGED <<order, queue>>

\* The cross of the title, or a command of the card that is shown (leave,
\* delete, merge).
CloseShown(o) ==
    /\ page.shown = o
    /\ \/ <<o, o>> \in page.bound
       \/ ~AwaitsHtml(o)
    /\ page' = [Removed(page, {o}) EXCEPT !.current = None]
    /\ loading' = Without(o)
    /\ UNCHANGED <<order, queue, panel>>

\* The cross of a visible li of the buffer.
CloseBuffered(o) ==
    /\ \E k \in DOMAIN page.buffer : page.buffer[k] = [of |-> o, hidden |-> FALSE]
    /\ page' = Removed(page, {o})
    /\ loading' = Without(o)
    /\ UNCHANGED <<order, queue, panel>>

\* A click on the title: ajax.load of the object, which throws while
\* another load with a Deferred is on.
Refresh(o) ==
    /\ <<page.shown, o>> \in page.bound
    /\ loading = None
    /\ page' = [page EXCEPT !.editing = @ \ {o}]
    /\ UNCHANGED <<order, queue, loading, panel>>

Edit(o) ==
    /\ page.shown = o
    /\ Cardinality(page.editing) < MaxEditors
    /\ ~AwaitsHtml(o)
    /\ page' = [page EXCEPT !.editing = @ \cup {o}]
    /\ UNCHANGED <<order, queue, loading, panel>>

\* The editor is saved or cancelled.
EndEdit(o) ==
    /\ page.shown = o
    /\ o \in page.editing
    /\ page' = [page EXCEPT !.editing = @ \ {o}]
    /\ UNCHANGED <<order, queue, loading, panel>>

User ==
    \/ \E i \in Item : Ask(i)
    \/ \E t \in Tool : ClickButton(t) \/ CloseTool(t)
    \/ \E o \in Object :
          CloseShown(o) \/ CloseBuffered(o) \/ Refresh(o) \/ Edit(o) \/ EndEdit(o)

Start ==
    \/ \E t \in Tool : StartTool(t) \/ StartForbidden(t)
    \/ \E o \in Object : StartObject(o)

Reply == (\E n \in 0..MaxParts : Html(n)) \/ Part

Next == User \/ Start \/ Reply \/ Fail

\* What every Start does, and nothing else: it takes a call from the queue.
TakesNext == loading = None /\ queue # <<>> /\ queue' = Tail(queue)

\* A callback that can run is run, and a request that does not fail is answered.
Spec == Init /\ [][Next]_vars /\ WF_queue(TakesNext) /\ WF_vars(Reply)

-----------------------------------------------------------------------------
(* Properties *)

\* No object is lost behind the others: its window is the current one or it has
\* a visible li in the buffer, to come back to it and to its open editor.
NothingLost ==
    \A o \in page.windows \cap Object :
        \/ o = page.current
        \/ \E k \in DOMAIN page.buffer : page.buffer[k] = [of |-> o, hidden |-> FALSE]

\* With the default behaviour: an object is in the buffer at most once, only if
\* it has a window and is not the current one, which is the one shown.
BufferOfHidden ==
    order = "top" =>
        /\ \A j, k \in DOMAIN page.buffer :
              page.buffer[j].of = page.buffer[k].of => j = k
        /\ \A k \in DOMAIN page.buffer :
              /\ page.buffer[k].of \in page.windows
              /\ page.buffer[k].of # page.current
        /\ page.current # None => page.shown = page.current
        /\ page.shown \in Object => page.current = page.shown

\* The title of an object has the cross and the refresh of no other object:
\* "next contentLoad starts only after previous is done".
OwnTitle == \A b \in page.bound : b[1] \in Object => b[1] = b[2]

\* The buffer has a limit, if not the one of the profile (see BufferWithinLimit):
\* it is cut before the objects that are left are added, and with the default
\* behaviour the cut leaves one more; however long the user works it grows no more.
BufferBounded == Visible(page.buffer) <= IF order = "top" THEN MaxObjects + 3 ELSE MaxObjects + 2

\* What the profile of the user says of iface.buffer.maxObjects: it is the greatest
\* number of objects in the buffer.
BufferWithinLimit == Visible(page.buffer) <= MaxObjects

\* With the default behaviour: opening an item or going to a tool takes away no
\* open editor, but those that the buffer has no place for.
EditorsKept ==
    [][order = "top" /\ (Start \/ \E t \in Tool : ClickButton(t)) =>
          \A o \in page.editing \ page'.editing :
              \E k \in DOMAIN page.buffer : k > MaxObjects + 1 /\ page.buffer[k].of = o]_vars

\* The call of contentLoad that waits is served, unless a load before it is dead.
Served ==
    \A n \in 1..MaxQueue :
        Len(queue) = n ~> Len(queue) < n \/ (loading # None /\ loading.dead)

=============================================================================
