---------------------------- MODULE ShellProofs -----------------------------
(* A proof about Shell, for every set of tools and objects and all bounds.  *)
EXTENDS Shell, TLAPS

-----------------------------------------------------------------------------
(* What the operations on the page do to what is shown and to the titles *)

\* A page, whatever its buffer is.
IsPage(P) ==
    \E b : P \in [windows : SUBSET Item, shown : Item \cup {None},
                  editing : SUBSET Object, bound : SUBSET (Item \X Object),
                  buffer : {b}, current : Object \cup {None}]

LEMMA FieldsLemma ==
    ASSUME NEW P, IsPage(P)
    PROVE  /\ \A x : /\ IsPage([P EXCEPT !.buffer = x])
                     /\ [P EXCEPT !.buffer = x].shown = P.shown
                     /\ [P EXCEPT !.buffer = x].bound = P.bound
                     /\ [P EXCEPT !.buffer = x].current = P.current
           /\ \A o \in Object \cup {None} :
                 /\ IsPage([P EXCEPT !.current = o])
                 /\ [P EXCEPT !.current = o].shown = P.shown
                 /\ [P EXCEPT !.current = o].bound = P.bound
           /\ \A E \in SUBSET Object :
                 /\ IsPage([P EXCEPT !.editing = E])
                 /\ [P EXCEPT !.editing = E].shown = P.shown
                 /\ [P EXCEPT !.editing = E].bound = P.bound
           /\ \A B \in SUBSET (Item \X Object) :
                 /\ IsPage([P EXCEPT !.bound = B])
                 /\ [P EXCEPT !.bound = B].shown = P.shown
                 /\ [P EXCEPT !.bound = B].bound = B
           /\ P.shown \in Item \cup {None} /\ P.bound \in SUBSET (Item \X Object)
           /\ P.editing \in SUBSET Object
  BY DEF IsPage

LEMMA RemovedLemma ==
    ASSUME NEW P, IsPage(P), NEW I
    PROVE  /\ IsPage(Removed(P, I))
           /\ Removed(P, I).shown \in {P.shown, None}
           /\ Removed(P, I).bound \subseteq P.bound
<1>1. PICK b : P \in [windows : SUBSET Item, shown : Item \cup {None},
                      editing : SUBSET Object, bound : SUBSET (Item \X Object),
                      buffer : {b}, current : Object \cup {None}]
  BY DEF IsPage
<1> DEFINE c == Kept(P.buffer, LisBut(I))
           B == {x \in P.bound : x[1] \notin I /\ x[2] \notin I}
           s == IF P.shown \in I THEN None ELSE P.shown
<1>2. Removed(P, I) = [P EXCEPT !.windows = P.windows \ I, !.editing = P.editing \ I,
                                !.bound = B, !.buffer = c, !.shown = s]
  BY <1>1 DEF Removed
<1>3. /\ P.windows \ I \in SUBSET Item /\ P.editing \ I \in SUBSET Object
      /\ B \in SUBSET (Item \X Object) /\ B \subseteq P.bound
      /\ s \in Item \cup {None} /\ s \in {P.shown, None}
  BY <1>1
<1> HIDE DEF c, B, s
<1>4. /\ Removed(P, I) \in [windows : SUBSET Item, shown : Item \cup {None},
                            editing : SUBSET Object, bound : SUBSET (Item \X Object),
                            buffer : {c}, current : Object \cup {None}]
      /\ Removed(P, I).shown = s /\ Removed(P, I).bound = B
  BY <1>1, <1>2, <1>3
<1> QED
  BY <1>3, <1>4 DEF IsPage

LEMMA ShownLemma ==
    ASSUME NEW P, IsPage(P), NEW i \in Item
    PROVE  /\ IsPage(Shown(P, i))
           /\ Shown(P, i).shown = i
           /\ Shown(P, i).bound = P.bound
  BY DEF IsPage, Shown

LEMMA ClosedLemma ==
    ASSUME NEW P, IsPage(P)
    PROVE  /\ IsPage(Closed(P))
           /\ Closed(P).shown = P.shown
           /\ Closed(P).bound = P.bound
<1> DEFINE b == Buffered(P.buffer, P.current)
           Q == [P EXCEPT !.buffer = b]
<1>1. Closed(P) = P \/ Closed(P) = [Q EXCEPT !.current = None]
  BY DEF Closed, IsPage
<1>2. IsPage(Q) /\ Q.shown = P.shown /\ Q.bound = P.bound
  BY FieldsLemma
<1> HIDE DEF Q
<1>3. /\ IsPage([Q EXCEPT !.current = None])
      /\ [Q EXCEPT !.current = None].shown = P.shown
      /\ [Q EXCEPT !.current = None].bound = P.bound
  BY <1>2, FieldsLemma
<1> QED
  BY <1>1, <1>3

\* An object that is opened is shown, and no title gets handlers.
LEMMA OpenedLemma ==
    ASSUME NEW P, IsPage(P), NEW o \in Object
    PROVE  /\ IsPage(Opened(P, o))
           /\ Opened(P, o).shown = o
           /\ Opened(P, o).bound \subseteq P.bound
<1> DEFINE taken == Taken(P, o)
           trimmed == Trimmed(taken)
           reloaded == Reloaded(trimmed, o)
           shown == Shown(reloaded, o)
           closed == Closed(shown)
<1>1. IsPage(taken) /\ taken.bound = P.bound
  <2> DEFINE x == IF order = "top" THEN Kept(P.buffer, LisBut({o}))
                  ELSE [k \in DOMAIN P.buffer |->
                           IF P.buffer[k].of = o THEN [P.buffer[k] EXCEPT !.hidden = TRUE]
                           ELSE P.buffer[k]]
  <2>1. taken = [P EXCEPT !.buffer = x]
    BY DEF Taken, IsPage
  <2> HIDE DEF x, taken
  <2> QED
    BY <2>1, FieldsLemma
<1>2. IsPage(trimmed) /\ trimmed.bound \subseteq P.bound
  BY <1>1, RemovedLemma DEF Trimmed
<1>3. IsPage(reloaded) /\ reloaded.bound \subseteq P.bound
  BY <1>2, RemovedLemma DEF Reloaded
<1>4. IsPage(shown) /\ shown.shown = o /\ shown.bound \subseteq P.bound
  BY <1>3, ShownLemma DEF Item
<1>5. IsPage(closed) /\ closed.shown = o /\ closed.bound \subseteq P.bound
  BY <1>4, ClosedLemma
<1>6. Opened(P, o) \in {shown, [closed EXCEPT !.current = o]}
  BY DEF Opened
<1> HIDE DEF taken, trimmed, reloaded, shown, closed
<1>7. /\ IsPage([closed EXCEPT !.current = o])
      /\ [closed EXCEPT !.current = o].shown = o
      /\ [closed EXCEPT !.current = o].bound \subseteq P.bound
  BY <1>5, FieldsLemma
<1> QED
  BY <1>4, <1>6, <1>7

-----------------------------------------------------------------------------
(* The invariant *)

\* A load, whatever its stage and its parts are.
IsLoad(l) ==
    \E s, p : l \in [of : Item, stage : {s}, parts : {p}, dead : BOOLEAN]

LoadTyped == loading = None \/ IsLoad(loading)

\* An object that loads and is not dead is the one that is shown, unless a tool
\* or nothing is.
LoadsShown ==
    loading # None /\ ~loading.dead /\ loading.of \in Object /\ page.shown \in Object =>
        page.shown = loading.of

TitleInv == IsPage(page) /\ LoadTyped /\ LoadsShown /\ OwnTitle

LEMMA LoadLemma ==
    ASSUME NEW l, IsLoad(l)
    PROVE  /\ l.of \in Item
           /\ IsLoad(Dead(l)) /\ Dead(l).dead = TRUE /\ Dead(l).of = l.of
  BY DEF IsLoad, Dead

LEMMA PartsLemma ==
    ASSUME NEW l, IsLoad(l), NEW n, NEW m,
           m \in {[l EXCEPT !.stage = "parts", !.parts = n], [l EXCEPT !.parts = n]}
    PROVE  IsLoad(m) /\ m.of = l.of /\ m.dead = l.dead
<1>1. PICK s, p : l \in [of : Item, stage : {s}, parts : {p}, dead : BOOLEAN]
  BY DEF IsLoad
<1>2. CASE m = [l EXCEPT !.parts = n]
  <2>1. m \in [of : Item, stage : {s}, parts : {n}, dead : BOOLEAN]
    BY <1>1, <1>2
  <2> QED
    BY <1>1, <1>2, <2>1 DEF IsLoad
<1>3. CASE m = [l EXCEPT !.stage = "parts", !.parts = n]
  <2>1. m \in [of : Item, stage : {"parts"}, parts : {n}, dead : BOOLEAN]
    BY <1>1, <1>3
  <2> QED
    BY <1>1, <1>3, <2>1 DEF IsLoad
<1> QED
  BY <1>2, <1>3

LEMMA RequestedLemma ==
    ASSUME NEW i \in Item
    PROVE  IsLoad(Requested(i)) /\ Requested(i).of = i
  BY DEF Requested, IsLoad

\* The load goes on, or is dead.
GoesOn ==
    \/ loading' = loading
    \/ loading # None /\ loading' = Dead(loading)

LEMMA GoesOnLemma ==
    ASSUME LoadTyped, GoesOn
    PROVE  /\ LoadTyped'
           /\ loading' # None /\ ~loading'.dead => loading' = loading
  BY LoadLemma DEF GoesOn, LoadTyped

\* A tool or nothing is shown instead, or nothing changes for the titles.
LEMMA AsideStep ==
    ASSUME TitleInv, GoesOn, IsPage(page'),
           page'.shown \in {page.shown, None} \cup Tool,
           page'.bound \subseteq page.bound
    PROVE  TitleInv'
<1>1. LoadTyped' /\ (loading' # None /\ ~loading'.dead => loading' = loading)
  BY GoesOnLemma DEF TitleInv
<1>2. page'.shown \in Object => page'.shown = page.shown
  BY ShellAssumption DEF Item
<1>3. LoadsShown'
  BY <1>1, <1>2 DEF TitleInv, LoadsShown
<1>4. OwnTitle'
  BY DEF TitleInv, OwnTitle
<1> QED
  BY <1>1, <1>3, <1>4 DEF TitleInv

LEMMA WithoutLemma ==
    ASSUME NEW i, loading' = Without(i)
    PROVE  GoesOn
  BY DEF Without, GoesOn

LEMMA ClickLemma ==
    ASSUME TitleInv, NEW t \in Tool, NEW b, Click(t, b)
    PROVE  IsPage(page') /\ page'.shown = t /\ page'.bound = page.bound
<1>1. IsPage(Shown(page, t)) /\ Shown(page, t).shown = t /\ Shown(page, t).bound = page.bound
  BY ShownLemma DEF TitleInv, Item
<1> QED
  BY <1>1, ClosedLemma DEF Click

LEMMA StartStep ==
    ASSUME TitleInv, Start
    PROVE  TitleInv'
<1>1. ASSUME NEW t \in Tool, StartTool(t)
      PROVE  TitleInv'
  <2>1. loading = None /\ \E b : Click(t, b)
    BY <1>1 DEF StartTool, IsNext
  <2>2. IsPage(page') /\ page'.shown = t /\ page'.bound = page.bound
    BY <2>1, ClickLemma
  <2>3. loading' = None \/ loading' = Requested(t)
    BY <1>1, <2>1 DEF StartTool
  <2>4. IsLoad(Requested(t)) /\ Requested(t).of = t
    BY RequestedLemma DEF Item
  <2>5. LoadTyped' /\ LoadsShown'
    BY <2>2, <2>3, <2>4, ShellAssumption DEF LoadTyped, LoadsShown
  <2>6. OwnTitle'
    BY <2>2 DEF TitleInv, OwnTitle
  <2> QED
    BY <2>2, <2>5, <2>6 DEF TitleInv
<1>2. ASSUME NEW t \in Tool, StartForbidden(t)
      PROVE  TitleInv'
  <2>1. page' = page /\ loading' = Dead(Requested(t))
    BY <1>2 DEF StartForbidden
  <2>2. IsLoad(loading') /\ loading'.dead = TRUE
    BY <2>1, RequestedLemma, LoadLemma DEF Item
  <2> QED
    BY <2>1, <2>2 DEF TitleInv, LoadTyped, LoadsShown, OwnTitle
<1>3. ASSUME NEW o \in Object, StartObject(o)
      PROVE  TitleInv'
  <2>1. page' = Opened(page, o) /\ (loading' = Requested(o) \/ loading' = None)
    BY <1>3 DEF StartObject
  <2>2. IsPage(page') /\ page'.shown = o /\ page'.bound \subseteq page.bound
    BY <2>1, OpenedLemma DEF TitleInv
  <2>3. IsLoad(Requested(o)) /\ Requested(o).of = o
    BY RequestedLemma DEF Item
  <2>4. LoadTyped' /\ LoadsShown'
    BY <2>1, <2>2, <2>3 DEF LoadTyped, LoadsShown
  <2>5. OwnTitle'
    BY <2>2 DEF TitleInv, OwnTitle
  <2> QED
    BY <2>2, <2>4, <2>5 DEF TitleInv
<1> QED
  BY <1>1, <1>2, <1>3 DEF Start

\* When a load is over its object is the one whose title is visible.
LEMMA FinishStep ==
    ASSUME TitleInv, loading # None, ~loading.dead, Finish
    PROVE  TitleInv'
<1>1. IsPage(page) /\ loading' = None /\ loading.of \in Item
  BY LoadLemma DEF TitleInv, LoadTyped, Finish
<1>2. CASE page' = page
  BY <1>1, <1>2 DEF TitleInv, LoadTyped, LoadsShown, OwnTitle
<1>3. CASE loading.of \in Object /\ page.shown # None
  <2> DEFINE B == page.bound \cup {<<page.shown, loading.of>>}
  <2>1. page' = [page EXCEPT !.bound = B]
    BY <1>1, <1>3 DEF Finish, IsPage
  <2>2. B \in SUBSET (Item \X Object)
    BY <1>1, <1>3, FieldsLemma
  <2>3. IsPage(page') /\ page'.bound = B
    BY <1>1, <2>1, <2>2, FieldsLemma
  <2>4. page.shown \in Object => page.shown = loading.of
    BY <1>3 DEF TitleInv, LoadsShown
  <2>5. OwnTitle'
    BY <2>3, <2>4 DEF TitleInv, OwnTitle
  <2> QED
    BY <1>1, <2>3, <2>5 DEF TitleInv, LoadTyped, LoadsShown
<1> QED
  BY <1>2, <1>3 DEF Finish

\* A load that goes on to its parts leaves the page as it is.
LEMMA PartsStep ==
    ASSUME TitleInv, page' = page, IsLoad(loading'),
           loading'.of = loading.of, loading'.dead = loading.dead, loading # None
    PROVE  TitleInv'
  BY DEF TitleInv, LoadTyped, LoadsShown, OwnTitle

LEMMA ReplyStep ==
    ASSUME TitleInv, Reply
    PROVE  TitleInv'
<1>1. ASSUME NEW n \in 0..MaxParts, Html(n)
      PROVE  TitleInv'
  <2>1. CASE Finish
    BY <1>1, <2>1, FinishStep DEF Html
  <2>2. CASE loading' = [loading EXCEPT !.stage = "parts", !.parts = n] /\ page' = page
    <3>1. loading # None /\ IsLoad(loading)
      BY <1>1 DEF Html, TitleInv, LoadTyped
    <3>2. /\ IsLoad(loading')
          /\ loading'.of = loading.of /\ loading'.dead = loading.dead
      BY <2>2, <3>1, PartsLemma
    <3> QED
      BY <2>2, <3>1, <3>2, PartsStep
  <2> QED
    BY <1>1, <2>1, <2>2 DEF Html
<1>2. ASSUME Part
      PROVE  TitleInv'
  <2>1. CASE Finish
    BY <1>2, <2>1, FinishStep DEF Part
  <2>2. CASE loading' = [loading EXCEPT !.parts = @ - 1] /\ page' = page
    <3>1. loading # None /\ IsLoad(loading)
      BY <1>2 DEF Part, TitleInv, LoadTyped
    <3>2. /\ IsLoad(loading')
          /\ loading'.of = loading.of /\ loading'.dead = loading.dead
      <4>1. loading' = [loading EXCEPT !.parts = loading.parts - 1]
        BY <2>2
      <4> QED
        BY <3>1, <4>1, PartsLemma
    <3> QED
      BY <2>2, <3>1, <3>2, PartsStep
  <2> QED
    BY <1>2, <2>1, <2>2 DEF Part
<1> QED
  BY <1>1, <1>2 DEF Reply

LEMMA UserStep ==
    ASSUME TitleInv, User
    PROVE  TitleInv'
<1>0. IsPage(page)
  BY DEF TitleInv
<1>1. ASSUME NEW i \in Item, Ask(i)
      PROVE  TitleInv'
  BY <1>1 DEF Ask, TitleInv, LoadTyped, LoadsShown, OwnTitle
<1>2. ASSUME NEW t \in Tool, ClickButton(t)
      PROVE  TitleInv'
  <2>1. IsPage(page') /\ page'.shown = t /\ page'.bound = page.bound
    BY <1>2, ClickLemma DEF ClickButton
  <2> QED
    BY <1>2, <2>1, AsideStep DEF ClickButton, GoesOn
<1>3. ASSUME NEW t \in Tool, CloseTool(t)
      PROVE  TitleInv'
  <2>1. loading' = Without(t)
    BY <1>3 DEF CloseTool
  <2>2. GoesOn
    BY <2>1, WithoutLemma
  <2>3. CASE page' = Removed(page, {t})
    BY <1>0, <2>2, <2>3, RemovedLemma, AsideStep
  <2>4. CASE \E u \in Tool : page' = Removed(Closed(Shown(page, u)), {t})
    <3>1. PICK u \in Tool : page' = Removed(Closed(Shown(page, u)), {t})
      BY <2>4
    <3> DEFINE P == Closed(Shown(page, u))
    <3>2. IsPage(P) /\ P.shown = u /\ P.bound = page.bound
      BY <1>0, ShownLemma, ClosedLemma DEF Item
    <3> HIDE DEF P
    <3>3. /\ IsPage(page') /\ page'.shown \in {u, None} /\ page'.bound \subseteq page.bound
      BY <3>1, <3>2, RemovedLemma DEF P
    <3> QED
      BY <2>2, <3>3, AsideStep
  <2> QED
    BY <1>3, <2>3, <2>4 DEF CloseTool
<1>4. ASSUME NEW o \in Object, CloseShown(o)
      PROVE  TitleInv'
  <2> DEFINE P == Removed(page, {o})
  <2>1. IsPage(P) /\ P.shown \in {page.shown, None} /\ P.bound \subseteq page.bound
    BY <1>0, RemovedLemma
  <2>2. page' = [P EXCEPT !.current = None] /\ loading' = Without(o)
    BY <1>4 DEF CloseShown
  <2> HIDE DEF P
  <2>3. IsPage(page') /\ page'.shown = P.shown /\ page'.bound = P.bound
    BY <2>1, <2>2, FieldsLemma
  <2> QED
    BY <2>1, <2>2, <2>3, WithoutLemma, AsideStep
<1>5. ASSUME NEW o \in Object, CloseBuffered(o)
      PROVE  TitleInv'
  BY <1>0, <1>5, RemovedLemma, WithoutLemma, AsideStep DEF CloseBuffered
<1>6. ASSUME NEW o \in Object, Refresh(o) \/ Edit(o) \/ EndEdit(o)
      PROVE  TitleInv'
  <2>1. PICK E \in SUBSET Object : page' = [page EXCEPT !.editing = E]
    <3>1. page.editing \ {o} \in SUBSET Object /\ page.editing \cup {o} \in SUBSET Object
      BY <1>0, FieldsLemma
    <3>2. \/ page' = [page EXCEPT !.editing = page.editing \ {o}]
          \/ page' = [page EXCEPT !.editing = page.editing \cup {o}]
      BY <1>6 DEF Refresh, Edit, EndEdit
    <3> QED
      BY <3>1, <3>2
  <2>2. IsPage(page') /\ page'.shown = page.shown /\ page'.bound = page.bound
    BY <1>0, <2>1, FieldsLemma
  <2>3. loading' = loading
    BY <1>6 DEF Refresh, Edit, EndEdit
  <2> QED
    BY <2>2, <2>3, AsideStep DEF GoesOn
<1> QED
  BY <1>1, <1>2, <1>3, <1>4, <1>5, <1>6 DEF User

LEMMA TitleInvInit == Init => TitleInv
<1> SUFFICES ASSUME Init
             PROVE  TitleInv
  OBVIOUS
<1>1. page \in [windows : SUBSET Item, shown : Item \cup {None},
                editing : SUBSET Object, bound : SUBSET (Item \X Object),
                buffer : {<<>>}, current : Object \cup {None}]
  BY DEF Init
<1> QED
  BY <1>1 DEF Init, TitleInv, IsPage, LoadTyped, LoadsShown, OwnTitle

LEMMA TitleInvStep == TitleInv /\ [Next]_vars => TitleInv'
<1> SUFFICES ASSUME TitleInv, [Next]_vars
             PROVE  TitleInv'
  OBVIOUS
<1>1. CASE Fail
  <2>1. loading # None /\ loading' = Dead(loading) /\ page' = page
    BY <1>1 DEF Fail
  <2>2. IsPage(page) /\ page.shown \in {page.shown, None}
    BY DEF TitleInv
  <2> QED
    BY <2>1, <2>2, AsideStep DEF GoesOn
<1>2. CASE UNCHANGED vars
  BY <1>2 DEF vars, TitleInv, LoadTyped, LoadsShown, OwnTitle
<1> QED
  BY <1>1, <1>2, UserStep, StartStep, ReplyStep DEF Next

\* A title never gets the cross and the refresh of another object: an object is
\* opened only after the load before it is over, so what a load finds visible
\* at its end is its own window or a tool.
THEOREM TitlesApart == Spec => []OwnTitle
<1>1. TitleInv => OwnTitle
  BY DEF TitleInv
<1> QED
  BY <1>1, TitleInvInit, TitleInvStep, PTL DEF Spec

=============================================================================
