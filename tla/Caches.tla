------------------------------- MODULE Caches -------------------------------
(***************************************************************************)
(* The caches of the server, CacheHolder: the cache of process types and   *)
(* the cache of process queues, which is filled with the help of the       *)
(* first.  A request asks a cache, and whoever finds it empty or of an     *)
(* earlier day fills it, in the monitor of the cache and with a connection *)
(* of its own.  A request that changed the data commits and flushes the    *)
(* cache, in no monitor.                                                   *)
(*                                                                         *)
(* Data are told apart only as far as they are up to date: a part of a     *)
(* filled cache is "new" until a change of that data is committed.         *)
(***************************************************************************)
EXTENDS FiniteSets, Naturals

CONSTANTS
    Request,  \* the threads of the HTTP connector
    Active,   \* maxActive of the connection pool
    None

ASSUME CachesAssumption ==
    /\ IsFiniteSet(Request)
    /\ Active \in Nat

Cache == {"types", "queues"}

\* What a cache is made of: the ids of the types of a queue have children added.
Parts(c) == IF c = "queues" THEN Cache ELSE {c}

Image(c) == [Parts(c) -> {"new", "old", "broken"}]

Images == (UNION {Image(c) : c \in Cache}) \cup {None}

ASSUME NoneAssumption ==
    /\ None \notin {"today", "before"} \cup Cache
    /\ \A c \in Cache : None \notin Image(c)

VARIABLES
    cache,    \* [Cache -> what CacheHolder keeps, or None]
    day,      \* [Cache -> lastAccess: "today", "before", or None]
    phase,    \* [Request -> what it is about]
    topic,    \* [Request -> the cache it asks or whose data it changed, or None]
    place,    \* [Request -> [Cache -> where in getInstance it is]]
    image,    \* [Request -> [Cache -> what newInstance has read, or None]]
    crossed   \* auxiliary: the fill of the cache, or what it keeps, met a flush

vars == <<cache, day, phase, topic, place, image, crossed>>

Phase == {"idle", "running", "changed", "committed", "dropped"}

Place == {"out", "asked", "checking", "empty", "reading", "nesting", "read",
          "stored", "leaving"}

TypeOK ==
    /\ cache \in [Cache -> Images]
    /\ \A c \in Cache : cache[c] \in Image(c) \cup {None}
    /\ day \in [Cache -> {"today", "before", None}]
    /\ phase \in [Request -> Phase]
    /\ topic \in [Request -> Cache \cup {None}]
    /\ place \in [Request -> [Cache -> Place]]
    /\ image \in [Request -> [Cache -> Images]]
    /\ \A r \in Request, c \in Cache : image[r][c] \in Image(c) \cup {None}
    /\ crossed \in [Cache -> [fill : BOOLEAN, kept : BOOLEAN]]

Init ==
    /\ cache = [c \in Cache |-> None]
    /\ day = [c \in Cache |-> None]
    /\ phase = [r \in Request |-> "idle"]
    /\ topic = [r \in Request |-> None]
    /\ place = [r \in Request |-> [c \in Cache |-> "out"]]
    /\ image = [r \in Request |-> [c \in Cache |-> None]]
    /\ crossed = [c \in Cache |-> [fill |-> FALSE, kept |-> FALSE]]

\* In the monitor of the cache.
Inside(r, c) == place[r][c] \notin {"out", "asked", "leaving"}

\* A request has a connection, and the one who reads for a cache one more.
InUse ==
    Cardinality({r \in Request : phase[r] # "idle"})
    + Cardinality({x \in Request \X Cache : place[x[1]][x[2]] \in {"reading", "nesting"}})

\* GenericObjectPool blocks without a limit of time.
FreeConnection == InUse < Active

-----------------------------------------------------------------------------
(* Requests *)

\* A request begins, to ask the cache ...
Ask(r, c) ==
    /\ phase[r] = "idle"
    /\ FreeConnection
    /\ phase' = [phase EXCEPT ![r] = "running"]
    /\ topic' = [topic EXCEPT ![r] = c]
    /\ place' = [place EXCEPT ![r][c] = "asked"]
    /\ UNCHANGED <<cache, day, image, crossed>>

\* ... or to change its data.
Change(r, c) ==
    /\ phase[r] = "idle"
    /\ FreeConnection
    /\ phase' = [phase EXCEPT ![r] = "changed"]
    /\ topic' = [topic EXCEPT ![r] = c]
    /\ UNCHANGED <<cache, day, place, image, crossed>>

\* The request is over, rolled back if it failed: recycle, its connection goes
\* back to the pool.
End(r) ==
    /\ phase' = [phase EXCEPT ![r] = "idle"]
    /\ topic' = [topic EXCEPT ![r] = None]

Fail(r) ==
    /\ phase[r] = "changed"
    /\ End(r)
    /\ UNCHANGED <<cache, day, place, image, crossed>>

-----------------------------------------------------------------------------
(* flush *)

Aged(x, c) ==
    IF x = None THEN None
    ELSE [p \in DOMAIN x |-> IF p = c /\ x[p] = "new" THEN "old" ELSE x[p]]

\* commitConnection
Commit(r) ==
    /\ phase[r] = "changed"
    /\ phase' = [phase EXCEPT ![r] = "committed"]
    /\ cache' = [c \in Cache |-> Aged(cache[c], topic[r])]
    /\ image' = [q \in Request |-> [c \in Cache |-> Aged(image[q][c], topic[r])]]
    /\ UNCHANGED <<day, topic, place, crossed>>

\* cache = null
Drop(r) ==
    /\ phase[r] = "committed"
    /\ phase' = [phase EXCEPT ![r] = "dropped"]
    /\ LET c == topic[r] IN
          /\ cache' = [cache EXCEPT ![c] = None]
          /\ crossed' = [crossed EXCEPT ![c] = [fill |-> \E q \in Request : image[q][c] # None,
                                               kept |-> FALSE]]
    /\ UNCHANGED <<day, topic, place, image>>

\* lastAccess = null
Forget(r) ==
    /\ phase[r] = "dropped"
    /\ day' = [day EXCEPT ![topic[r]] = None]
    /\ End(r)
    /\ UNCHANGED <<cache, place, image, crossed>>

-----------------------------------------------------------------------------
(* getInstance *)

Go(r, c, p) == place' = [place EXCEPT ![r][c] = p]

ReturnedInstead(r, c, x) ==
    IF topic[r] = c
    THEN /\ Go(r, c, "out")
         /\ End(r)
         /\ UNCHANGED image
    ELSE /\ place' = [place EXCEPT ![r] = [types |-> "out", queues |-> "read"]]
         /\ image' = [image EXCEPT ![r]["queues"] = x]
         /\ UNCHANGED <<phase, topic>>

\* getInstance ends, with an instance or, when x is None, with an exception: the
\* request is done, or goes on to fill the queues.
Returned(r, c, x) ==
    IF topic[r] = c
    THEN /\ Go(r, c, "out")
         /\ End(r)
         /\ UNCHANGED image
    ELSE /\ place' = [place EXCEPT ![r] = [types |-> "out", queues |-> "read"]]
         /\ image' = [image EXCEPT ![r]["queues"] =
                         IF x = None \/ x["types"] = "broken"
                         THEN [p \in Cache |-> "broken"]
                         ELSE [@ EXCEPT !["types"] = x["types"]]]
         /\ UNCHANGED <<phase, topic>>

EnterUnlocked(r, c) ==
    /\ place[r][c] = "asked"
    /\ Go(r, c, IF cache[c] = None THEN "empty" ELSE "checking")
    /\ UNCHANGED <<cache, day, phase, topic, image, crossed>>

\* The monitor is entered; is the cache null?
Enter(r, c) ==
    /\ place[r][c] = "asked"
    /\ \A q \in Request : ~Inside(q, c)
    /\ Go(r, c, IF cache[c] = None THEN "empty" ELSE "checking")
    /\ UNCHANGED <<cache, day, phase, topic, image, crossed>>

CheckNoDay(r, c) ==
    /\ place[r][c] = "checking"
    /\ Go(r, c, "leaving")
    /\ UNCHANGED <<cache, day, phase, topic, image, crossed>>

\* isSameDay, which throws an exception for a null date.
CheckDay(r, c) ==
    /\ place[r][c] = "checking"
    /\ \/ /\ day[c] = None
          /\ Returned(r, c, None)
       \/ /\ day[c] # None
          /\ Go(r, c, IF day[c] = "today" THEN "leaving" ELSE "empty")
          /\ UNCHANGED <<phase, topic, image>>
    /\ UNCHANGED <<cache, day, crossed>>

Borrow(r, c) ==
    /\ place[r][c] = "empty"
    /\ FreeConnection
    /\ Go(r, c, "reading")
    /\ UNCHANGED <<cache, day, phase, topic, image, crossed>>

ReadEachOther(r, c) ==
    LET other == CHOOSE d \in Cache : d # c
    IN  /\ place[r][c] = "reading"
        /\ image' = [image EXCEPT ![r][c] = [p \in Parts(c) |-> "new"]]
        /\ place' = [place EXCEPT ![r] = IF @[other] = "out"
                                         THEN [@ EXCEPT ![c] = "nesting", ![other] = "asked"]
                                         ELSE [@ EXCEPT ![c] = "read"]]
        /\ crossed' = [crossed EXCEPT ![c].fill = FALSE]
        /\ UNCHANGED <<cache, day, phase, topic>>

\* newInstance reads the data, and for the queues it asks the types too.
Read(r, c) ==
    /\ place[r][c] = "reading"
    /\ image' = [image EXCEPT ![r][c] = [p \in Parts(c) |-> "new"]]
    /\ place' = [place EXCEPT ![r] = IF c = "queues"
                                     THEN [types |-> "asked", queues |-> "nesting"]
                                     ELSE [@ EXCEPT ![c] = "read"]]
    /\ crossed' = [crossed EXCEPT ![c].fill = FALSE]
    /\ UNCHANGED <<cache, day, phase, topic>>

\* No connection, or an exception while reading: it is logged, and what has been
\* read so far is the instance.
ReadFails(r, c) ==
    /\ place[r][c] = "reading"
    /\ image' = [image EXCEPT ![r][c] = [p \in Parts(c) |-> "broken"]]
    /\ Go(r, c, "read")
    /\ crossed' = [crossed EXCEPT ![c].fill = FALSE]
    /\ UNCHANGED <<cache, day, phase, topic>>

Store(r, c) ==
    /\ place[r][c] = "read"
    /\ cache' = [cache EXCEPT ![c] = image[r][c]]
    /\ image' = [image EXCEPT ![r][c] = None]
    /\ crossed' = [crossed EXCEPT ![c] = [fill |-> FALSE, kept |-> @.fill]]
    /\ Go(r, c, "stored")
    /\ UNCHANGED <<day, phase, topic>>

\* lastAccess = new Date()
Stamp(r, c) ==
    /\ place[r][c] = "stored"
    /\ day' = [day EXCEPT ![c] = "today"]
    /\ Go(r, c, "leaving")
    /\ UNCHANGED <<cache, phase, topic, image, crossed>>

\* The cache is read again, out of the monitor: a null is an exception to come.
Return(r, c) ==
    /\ place[r][c] = "leaving"
    /\ Returned(r, c, cache[c])
    /\ UNCHANGED <<cache, day, crossed>>

NewDay ==
    /\ \E c \in Cache : day[c] = "today"
    /\ day' = [c \in Cache |-> IF day[c] = "today" THEN "before" ELSE day[c]]
    /\ UNCHANGED <<cache, phase, topic, place, image, crossed>>

-----------------------------------------------------------------------------

FlushThenCommit(r) ==
    \/ /\ phase[r] = "changed"
       /\ phase' = [phase EXCEPT ![r] = "dropped"]
       /\ cache' = [cache EXCEPT ![topic[r]] = None]
       /\ day' = [day EXCEPT ![topic[r]] = None]
       /\ UNCHANGED <<topic, place, image, crossed>>
    \/ /\ phase[r] = "dropped"
       /\ End(r)
       /\ cache' = [c \in Cache |-> Aged(cache[c], topic[r])]
       /\ image' = [q \in Request |-> [c \in Cache |-> Aged(image[q][c], topic[r])]]
       /\ UNCHANGED <<day, place, crossed>>

Flush(r) == Commit(r) \/ Drop(r) \/ Forget(r)

Get(r) ==
    \E c \in Cache :
        \/ CheckDay(r, c) \/ Borrow(r, c) \/ Read(r, c) \/ ReadFails(r, c)
        \/ Store(r, c) \/ Stamp(r, c) \/ Return(r, c)

Next ==
    \/ \E r \in Request :
          \/ \E c \in Cache : Ask(r, c) \/ Change(r, c) \/ Enter(r, c)
          \/ Fail(r) \/ Flush(r) \/ Get(r)
    \/ NewDay

\* Threads run, a monitor for which somebody waits is entered, days pass; every
\* cache is asked again and again.
Fairness ==
    /\ \A r \in Request : WF_vars(Flush(r) \/ Get(r))
    /\ \A c \in Cache :
          /\ WF_vars(\E r \in Request : Enter(r, c))
          /\ SF_vars(\E r \in Request : Ask(r, c))
    /\ WF_vars(NewDay)

Spec == Init /\ [][Next]_vars /\ Fairness

-----------------------------------------------------------------------------
(* Properties *)

\* After a flush a cache keeps no data from before the change, unless the flush
\* came while the cache was being filled: the commit comes first.
OldOnlyIfCrossed ==
    \A c \in Cache :
        cache[c] # None /\ cache[c][c] = "old" /\ ~crossed[c].kept =>
            \E r \in Request : phase[r] = "committed" /\ topic[r] = c

\* With connections for all requests and two fills, who fills a cache does not
\* wait for a connection: else all others may wait for the cache, each with a
\* connection, for ever.
FillersGoOn ==
    \A r \in Request, c \in Cache : place[r][c] = "empty" => FreeConnection

\* What the next step of a request waits for, if for anything: a monitor or a
\* connection.  While it is nesting the call within goes on.
GoesOn(r) ==
    \/ phase[r] \in {"changed", "committed", "dropped"}
    \/ \E c \in Cache :
          \/ place[r][c] \in {"checking", "reading", "read", "stored", "leaving"}
          \/ place[r][c] = "asked" /\ \A q \in Request : ~Inside(q, c)
          \/ place[r][c] = "empty" /\ FreeConnection

\* With these connections the requests never all wait for each other, whatever
\* monitors and connections they have: one that has begun can go on.
NeverAllWait == (\E r \in Request : phase[r] # "idle") => \E r \in Request : GoesOn(r)

Stale(c) == cache[c] # None /\ \E p \in Parts(c) : cache[c][p] # "new"

\* An instance whose date was forgotten after it was stored: nobody can use it
\* until the next flush.
Dead(c) ==
    /\ cache[c] # None
    /\ day[c] = None
    /\ \A r \in Request : place[r][c] # "stored"

Quiet == \A r \in Request : phase[r] \in {"idle", "running"}

SomeReadFails == \E r \in Request, c \in Cache : ReadFails(r, c)

\* When data are not changed any more and can be read, no cache stays stale for
\* ever: not after a fill that a flush crossed or that failed, and queues not
\* after a change of their types; unless the cache is dead, or the one it is
\* filled from.
StaleEnds ==
    <>[]Quiet /\ <>[][~SomeReadFails]_vars =>
        \A c \in Cache : <>[](~Stale(c) \/ \E p \in Parts(c) : Dead(p))

=============================================================================
