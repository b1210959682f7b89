---------------------------- MODULE CachesProofs ----------------------------
(* Theorems about Caches and their proofs. *)
EXTENDS Caches, FiniteSetTheorems, TLAPS

-----------------------------------------------------------------------------
(* Calls of getInstance: who is where, and the monitors *)

\* A request is in a call exactly while it runs, in a call for the types within one
\* for the queues exactly if that is nesting, and has read something if it says so.
CallOf(r) ==
    /\ phase[r] # "running" <=> \A c \in Cache : place[r][c] = "out"
    /\ place[r]["queues"] # "out" => topic[r] = "queues"
    /\ place[r]["types"] # "out" /\ topic[r] # "types" => place[r]["queues"] = "nesting"
    /\ place[r]["queues"] = "nesting" => place[r]["types"] # "out"
    /\ place[r]["types"] # "nesting"
    /\ \A c \in Cache : image[r][c] # None <=> place[r][c] \in {"nesting", "read"}

Mutex ==
    \A c \in Cache : \A r, q \in Request : Inside(r, c) /\ Inside(q, c) => r = q

CallInv == TypeOK /\ Mutex /\ \A r \in Request : CallOf(r)

LEMMA CacheLemma ==
    /\ "types" \in Cache /\ "queues" \in Cache
    /\ \A c \in Cache : c = "types" \/ c = "queues"
    /\ \A c \in Cache : c \in Parts(c) /\ Parts(c) \subseteq Cache
    /\ Parts("types") = {"types"} /\ Parts("queues") = Cache
  BY DEF Cache, Parts

\* What a step changes that moves a request in getInstance and nothing else.
LEMMA GoLemma ==
    ASSUME TypeOK, NEW r \in Request, NEW c \in Cache, NEW p \in Place, Go(r, c, p)
    PROVE  /\ place' \in [Request -> [Cache -> Place]]
           /\ place'[r][c] = p
           /\ \A d \in Cache \ {c} : place'[r][d] = place[r][d]
           /\ \A q \in Request \ {r} : place'[q] = place[q]
<1>1. place \in [Request -> [Cache -> Place]]
  BY DEF TypeOK
<1>2. place' = [place EXCEPT ![r] = [place[r] EXCEPT ![c] = p]]
  BY DEF Go
<1>3. [place[r] EXCEPT ![c] = p] \in [Cache -> Place]
  BY <1>1
<1> QED
  BY <1>1, <1>2, <1>3

\* What getInstance leaves when it ends: the request is over, or the fill of the
\* queues goes on with an image of them.
LEMMA ReturnedLemma ==
    ASSUME CallInv, NEW r \in Request, NEW c \in Cache, NEW x \in Image(c) \cup {None},
           place[r][c] # "out", place[r][c] # "nesting", Returned(r, c, x)
    PROVE  /\ place' \in [Request -> [Cache -> Place]]
           /\ image' \in [Request -> [Cache -> Images]]
           /\ \A q \in Request, d \in Cache : image'[q][d] \in Image(d) \cup {None}
           /\ phase' \in [Request -> Phase]
           /\ topic' \in [Request -> Cache \cup {None}]
           /\ \A q \in Request \ {r} :
                 /\ place'[q] = place[q] /\ image'[q] = image[q]
                 /\ phase'[q] = phase[q] /\ topic'[q] = topic[q]
           /\ \A q \in Request : phase'[q] = "committed" <=> phase[q] = "committed"
           /\ \/ /\ topic[r] = c /\ phase'[r] = "idle" /\ image'[r] = image[r]
                 /\ \A d \in Cache : place'[r][d] = "out"
              \/ /\ c = "types" /\ topic[r] = "queues" /\ place[r]["queues"] = "nesting"
                 /\ place'[r]["types"] = "out" /\ place'[r]["queues"] = "read"
                 /\ phase'[r] = phase[r] /\ topic'[r] = topic[r]
                 /\ image'[r]["types"] = image[r]["types"]
                 /\ image'[r]["queues"] # None
                 /\ image'[r]["queues"]["queues"] \in {image[r]["queues"]["queues"], "broken"}
<1>1. /\ TypeOK /\ CallOf(r)
      /\ place \in [Request -> [Cache -> Place]]
      /\ image \in [Request -> [Cache -> Images]]
      /\ phase \in [Request -> Phase] /\ topic \in [Request -> Cache \cup {None}]
      /\ \A q \in Request, d \in Cache : image[q][d] \in Image(d) \cup {None}
  BY DEF CallInv, TypeOK
<1>2. phase[r] = "running"
  BY <1>1 DEF CallOf
<1>3. CASE topic[r] = c
  <2>1. Go(r, c, "out") /\ End(r) /\ UNCHANGED image
    BY <1>3 DEF Returned
  <2>2. /\ place' \in [Request -> [Cache -> Place]]
        /\ place'[r][c] = "out"
        /\ \A d \in Cache \ {c} : place'[r][d] = place[r][d]
        /\ \A q \in Request \ {r} : place'[q] = place[q]
    BY <1>1, <2>1, GoLemma DEF Place
  <2>3. \A d \in Cache \ {c} : place[r][d] = "out"
    <3>1. CASE c = "types"
      BY <1>1, <1>3, <3>1, CacheLemma DEF CallOf
    <3>2. CASE c = "queues"
      BY <1>1, <1>3, <3>2, CacheLemma DEF CallOf
    <3> QED
      BY <3>1, <3>2, CacheLemma
  <2>4. /\ phase' \in [Request -> Phase] /\ topic' \in [Request -> Cache \cup {None}]
        /\ phase'[r] = "idle"
        /\ \A q \in Request \ {r} : phase'[q] = phase[q] /\ topic'[q] = topic[q]
    BY <1>1, <2>1 DEF End, Phase
  <2>5. \A q \in Request : phase'[q] = "committed" <=> phase[q] = "committed"
    BY <1>2, <2>4
  <2>6. \A d \in Cache : place'[r][d] = "out"
    BY <2>2, <2>3
  <2> QED
    BY <1>1, <1>3, <2>1, <2>2, <2>4, <2>5, <2>6
<1>4. CASE topic[r] # c
  <2>1. c = "types" /\ topic[r] = "queues" /\ place[r]["queues"] = "nesting"
    <3>1. CASE c = "types"
      BY <1>1, <1>4, <3>1 DEF CallOf
    <3>2. CASE c = "queues"
      BY <1>1, <1>4, <3>2 DEF CallOf
    <3> QED
      BY <1>1, <3>1, <3>2, CacheLemma DEF CallOf
  <2> DEFINE y == IF x = None \/ x["types"] = "broken"
                  THEN [p \in Cache |-> "broken"]
                  ELSE [image[r]["queues"] EXCEPT !["types"] = x["types"]]
  <2>2. /\ place' = [place EXCEPT ![r] = [types |-> "out", queues |-> "read"]]
        /\ image' = [image EXCEPT ![r]["queues"] = y]
        /\ UNCHANGED <<phase, topic>>
    BY <1>4 DEF Returned
  <2>3. image[r]["queues"] \in Image("queues")
    BY <1>1, <2>1, CacheLemma DEF CallOf
  <2>4. y \in Image("queues") /\ y["queues"] \in {image[r]["queues"]["queues"], "broken"}
    <3>1. CASE x = None \/ x["types"] = "broken"
      BY <3>1, CacheLemma DEF Image
    <3>2. CASE ~(x = None \/ x["types"] = "broken")
      <4>1. x["types"] \in {"new", "old", "broken"}
        BY <2>1, <3>2, CacheLemma DEF Image
      <4> DEFINE z == x["types"]
      <4>2. y = [image[r]["queues"] EXCEPT !["types"] = z]
        BY <3>2
      <4> HIDE DEF y, z
      <4> QED
        BY <2>3, <4>1, <4>2, CacheLemma DEF Image, z
    <3> QED
      BY <3>1, <3>2
  <2> HIDE DEF y
  <2>5. y \in Images /\ y # None
    BY <2>4, CacheLemma, NoneAssumption DEF Images
  <2>6. image' = [image EXCEPT ![r] = [image[r] EXCEPT !["queues"] = y]]
    BY <2>2
  <2>7. /\ image' \in [Request -> [Cache -> Images]]
        /\ image'[r]["queues"] = y /\ image'[r]["types"] = image[r]["types"]
        /\ \A q \in Request \ {r} : image'[q] = image[q]
    <3>1. [image[r] EXCEPT !["queues"] = y] \in [Cache -> Images]
      BY <1>1, <2>5
    <3> QED
      BY <1>1, <2>5, <2>6, <3>1, CacheLemma
  <2>8. \A q \in Request, d \in Cache : image'[q][d] \in Image(d) \cup {None}
    BY <1>1, <2>4, <2>7, CacheLemma
  <2>9. [types |-> "out", queues |-> "read"] \in [Cache -> Place]
    BY DEF Cache, Place
  <2>10. /\ place' \in [Request -> [Cache -> Place]]
         /\ place'[r] = [types |-> "out", queues |-> "read"]
         /\ \A q \in Request \ {r} : place'[q] = place[q]
    BY <1>1, <2>2, <2>9
  <2>11. place'[r]["types"] = "out" /\ place'[r]["queues"] = "read"
    BY <2>10
  <2> QED
    BY <1>1, <2>1, <2>2, <2>4, <2>5, <2>7, <2>8, <2>10, <2>11
<1> QED
  BY <1>3, <1>4

\* The steps of a request outside of getInstance, but for commit.
LEMMA OutsideStep ==
    ASSUME CallInv, NEW r \in Request,
           (\E c \in Cache : Change(r, c)) \/ Fail(r) \/ Drop(r) \/ Forget(r)
    PROVE  CallInv' /\ UNCHANGED <<place, image>>
<1>1. /\ TypeOK /\ CallOf(r) /\ Mutex
      /\ UNCHANGED <<place, image>>
  BY DEF CallInv, Change, Fail, Drop, Forget
<1>2. phase[r] # "running" /\ phase'[r] # "running"
  BY <1>1 DEF TypeOK, Change, Fail, Drop, Forget, End
<1>3. /\ phase' \in [Request -> Phase] /\ topic' \in [Request -> Cache \cup {None}]
      /\ \A q \in Request \ {r} : phase'[q] = phase[q] /\ topic'[q] = topic[q]
  <2>1. CASE \E c \in Cache : Change(r, c)
    BY <1>1, <2>1 DEF TypeOK, Phase, Change
  <2>2. CASE Fail(r) \/ Forget(r)
    BY <1>1, <2>2 DEF TypeOK, Phase, Fail, Forget, End
  <2>3. CASE Drop(r)
    BY <1>1, <2>3 DEF TypeOK, Phase, Drop
  <2> QED
    BY <2>1, <2>2, <2>3
<1>4. /\ cache' \in [Cache -> Images]
      /\ \A c \in Cache : cache'[c] \in Image(c) \cup {None}
  BY <1>1 DEF TypeOK, Images, Change, Fail, Drop, Forget
<1>5. day' \in [Cache -> {"today", "before", None}]
  BY <1>1 DEF TypeOK, Change, Fail, Drop, Forget
<1>6. crossed' \in [Cache -> [fill : BOOLEAN, kept : BOOLEAN]]
  <2>1. CASE Drop(r)
    <3> DEFINE f == \E q \in Request : image[q][topic[r]] # None
    <3>1. crossed' = [crossed EXCEPT ![topic[r]] = [fill |-> f, kept |-> FALSE]]
      BY <2>1 DEF Drop
    <3>2. [fill |-> f, kept |-> FALSE] \in [fill : BOOLEAN, kept : BOOLEAN]
      OBVIOUS
    <3> HIDE DEF f
    <3> QED
      BY <1>1, <3>1, <3>2 DEF TypeOK
  <2>2. CASE ~Drop(r)
    BY <1>1, <2>2 DEF TypeOK, Change, Fail, Forget
  <2> QED
    BY <2>1, <2>2
<1>7. TypeOK'
  BY <1>1, <1>3, <1>4, <1>5, <1>6 DEF TypeOK
<1>8. \A q \in Request : CallOf(q)'
  <2>1. \A c \in Cache : place[r][c] = "out"
    BY <1>1, <1>2 DEF CallOf
  <2>2. CallOf(r)'
    BY <1>1, <1>2, <2>1, CacheLemma DEF CallOf
  <2>3. ASSUME NEW q \in Request \ {r}
        PROVE  CallOf(q)'
    BY <1>1, <1>3 DEF CallInv, CallOf
  <2> QED
    BY <2>2, <2>3
<1>9. Mutex'
  BY <1>1 DEF Mutex, Inside
<1> QED
  BY <1>1, <1>7, <1>8, <1>9 DEF CallInv

\* Data grow old and keep their shape.
LEMMA AgedLemma ==
    ASSUME NEW c \in Cache, NEW x \in Image(c) \cup {None}, NEW d
    PROVE  /\ Aged(x, d) \in Image(c) \cup {None}
           /\ Aged(x, d) = None <=> x = None
           /\ x # None /\ d # c => Aged(x, d)[c] = x[c]
<1>1. CASE x = None
  BY <1>1 DEF Aged
<1>2. CASE x # None
  BY <1>2, CacheLemma, NoneAssumption DEF Aged, Image
<1> QED
  BY <1>1, <1>2

LEMMA CommitStep ==
    ASSUME CallInv, NEW r \in Request, Commit(r)
    PROVE  /\ CallInv'
           /\ \A c \in Cache : cache'[c] = Aged(cache[c], topic[r])
           /\ \A q \in Request, c \in Cache : image'[q][c] = Aged(image[q][c], topic[r])
<1>1. TypeOK /\ CallOf(r) /\ Mutex
  BY DEF CallInv
<1>2. UNCHANGED <<day, topic, place, crossed>>
  BY DEF Commit
<1>3. /\ \A c \in Cache : cache'[c] = Aged(cache[c], topic[r])
      /\ \A q \in Request, c \in Cache : image'[q][c] = Aged(image[q][c], topic[r])
  BY DEF Commit
<1>4. /\ \A c \in Cache : cache'[c] \in Image(c) \cup {None}
      /\ \A q \in Request, c \in Cache :
            image'[q][c] \in Image(c) \cup {None} /\ (image'[q][c] = None <=> image[q][c] = None)
  <2>1. /\ \A c \in Cache : cache[c] \in Image(c) \cup {None}
        /\ \A q \in Request, c \in Cache : image[q][c] \in Image(c) \cup {None}
    BY <1>1 DEF TypeOK
  <2>2. ASSUME NEW c \in Cache
        PROVE  cache'[c] \in Image(c) \cup {None}
    <3>1. cache[c] \in Image(c) \cup {None}
      BY <2>1
    <3>2. Aged(cache[c], topic[r]) \in Image(c) \cup {None}
      BY <3>1, AgedLemma
    <3> QED
      BY <1>3, <3>2
  <2>3. ASSUME NEW q \in Request, NEW c \in Cache
        PROVE  image'[q][c] \in Image(c) \cup {None} /\ (image'[q][c] = None <=> image[q][c] = None)
    BY <1>3, <2>1, AgedLemma
  <2> QED
    BY <2>2, <2>3
<1>5. \A c \in Cache : Image(c) \cup {None} \subseteq Images
  BY DEF Images
<1>6. cache' \in [Cache -> Images] /\ image' \in [Request -> [Cache -> Images]]
  <2>1. cache' \in [Cache -> Images]
    BY <1>3, <1>4, <1>5 DEF Commit
  <2>2. \A q \in Request, c \in Cache : image'[q][c] \in Images
    BY <1>4, <1>5
  <2>3. image' = [q \in Request |-> [c \in Cache |-> image'[q][c]]]
    BY DEF Commit
  <2>4. \A q \in Request : [c \in Cache |-> image'[q][c]] \in [Cache -> Images]
    BY <2>2
  <2> QED
    BY <2>1, <2>3, <2>4
<1>7. /\ phase' \in [Request -> Phase]
      /\ phase[r] # "running" /\ phase'[r] # "running"
      /\ \A q \in Request \ {r} : phase'[q] = phase[q]
  BY <1>1 DEF TypeOK, Phase, Commit
<1>8. TypeOK'
  BY <1>1, <1>2, <1>4, <1>6, <1>7 DEF TypeOK
<1>9. ASSUME NEW q \in Request
      PROVE  CallOf(q)'
  <2>1. CallOf(q) /\ (phase'[q] # "running" <=> phase[q] # "running")
    BY <1>7 DEF CallInv
  <2> QED
    BY <1>2, <1>4, <2>1 DEF CallOf
<1>10. Mutex'
  BY <1>1, <1>2 DEF Mutex, Inside
<1> QED
  BY <1>3, <1>8, <1>9, <1>10 DEF CallInv

\* A request that moves in getInstance without a way into the monitor.
LEMMA MutexLemma ==
    ASSUME CallInv, NEW r \in Request,
           \A q \in Request \ {r} : place'[q] = place[q],
           \A d \in Cache : Inside(r, d)' => Inside(r, d) \/ \A q \in Request : ~Inside(q, d)
    PROVE  Mutex'
  BY DEF CallInv, Mutex, Inside

LEMMA AskStep ==
    ASSUME CallInv, NEW r \in Request, NEW c \in Cache, Ask(r, c)
    PROVE  CallInv'
<1>1. TypeOK /\ CallOf(r) /\ Mutex
  BY DEF CallInv
<1>2. /\ Go(r, c, "asked") /\ phase[r] = "idle"
      /\ UNCHANGED <<cache, day, image, crossed>>
  BY DEF Ask, Go
<1>3. /\ place' \in [Request -> [Cache -> Place]]
      /\ place'[r][c] = "asked"
      /\ \A d \in Cache \ {c} : place'[r][d] = place[r][d]
      /\ \A q \in Request \ {r} : place'[q] = place[q]
  BY <1>1, <1>2, GoLemma DEF Place
<1>4. /\ phase' \in [Request -> Phase] /\ topic' \in [Request -> Cache \cup {None}]
      /\ phase'[r] = "running" /\ topic'[r] = c
      /\ \A q \in Request \ {r} : phase'[q] = phase[q] /\ topic'[q] = topic[q]
  BY <1>1 DEF TypeOK, Phase, Ask
<1>5. \A d \in Cache : place[r][d] = "out"
  BY <1>1, <1>2 DEF CallOf
<1>6. CallOf(r)'
  <2>1. \A d \in Cache : image'[r][d] = None /\ place'[r][d] \in {"out", "asked"}
    BY <1>1, <1>2, <1>3, <1>5 DEF CallOf
  <2>2. \A d \in Cache : place'[r][d] # "out" => d = c
    BY <1>3, <1>5
  <2> QED
    BY <1>3, <1>4, <2>1, <2>2, CacheLemma DEF CallOf
<1>7. ASSUME NEW q \in Request \ {r}
      PROVE  CallOf(q)'
  BY <1>2, <1>3, <1>4 DEF CallInv, CallOf
<1>8. Mutex'
  BY <1>3, <1>5, MutexLemma, CacheLemma DEF Inside
<1>9. TypeOK'
  BY <1>1, <1>2, <1>3, <1>4 DEF TypeOK
<1> QED
  BY <1>6, <1>7, <1>8, <1>9 DEF CallInv

\* The steps in the monitor that move the request and read or write nothing else
\* than the date.
LEMMA MoveStep ==
    ASSUME CallInv, NEW r \in Request, NEW c \in Cache, NEW p \in Place,
           Go(r, c, p), UNCHANGED <<cache, phase, topic, image, crossed>>,
           day' \in [Cache -> {"today", "before", None}],
           place[r][c] \notin {"out", "nesting", "read"}, p \notin {"out", "nesting", "read"},
           Inside(r, c) \/ \A q \in Request : ~Inside(q, c)
    PROVE  CallInv'
<1>1. TypeOK /\ CallOf(r) /\ Mutex
  BY DEF CallInv
<1>2. /\ place' \in [Request -> [Cache -> Place]]
      /\ place'[r][c] = p
      /\ \A d \in Cache \ {c} : place'[r][d] = place[r][d]
      /\ \A q \in Request \ {r} : place'[q] = place[q]
  BY <1>1, GoLemma
<1>3. CallOf(r)'
  BY <1>1, <1>2, CacheLemma DEF CallOf
<1>4. ASSUME NEW q \in Request \ {r}
      PROVE  CallOf(q)'
  BY <1>2 DEF CallInv, CallOf
<1>5. \A d \in Cache : Inside(r, d)' => Inside(r, d) \/ \A q \in Request : ~Inside(q, d)
  BY <1>2 DEF Inside
<1>6. Mutex'
  BY <1>2, <1>5, MutexLemma
<1>7. TypeOK'
  BY <1>1, <1>2 DEF TypeOK
<1> QED
  BY <1>3, <1>4, <1>6, <1>7 DEF CallInv

\* The steps that change what the request has read.
LEMMA ImageStep ==
    ASSUME CallInv, NEW r \in Request, NEW c \in Cache,
           Read(r, c) \/ ReadFails(r, c) \/ Store(r, c)
    PROVE  /\ CallInv'
           /\ \A q \in Request, d \in Cache : q # r \/ d # c => image'[q][d] = image[q][d]
           /\ Inside(r, c)
<1>1. TypeOK /\ CallOf(r) /\ Mutex
  BY DEF CallInv
<1>2. /\ image \in [Request -> [Cache -> Images]] /\ place \in [Request -> [Cache -> Place]]
      /\ \A d \in Cache : cache[d] \in Image(d) \cup {None}
      /\ \A q \in Request, d \in Cache : image[q][d] \in Image(d) \cup {None}
  BY <1>1 DEF TypeOK
<1>3. UNCHANGED <<phase, topic, day>> /\ Inside(r, c) /\ place[r][c] \notin {"out", "nesting"}
  BY DEF Read, ReadFails, Store, Inside
<1>4. PICK x \in Image(c) \cup {None} :
         /\ image' = [image EXCEPT ![r][c] = x]
         /\ x = None <=> Store(r, c)
  <2>1. CASE Read(r, c)
    <3> DEFINE y == [p \in Parts(c) |-> "new"]
    <3>1. image' = [image EXCEPT ![r][c] = y]
      BY <2>1 DEF Read
    <3>2. y \in Image(c) /\ y # None
      BY NoneAssumption DEF Image
    <3>3. ~Store(r, c)
      BY <2>1 DEF Read, Store
    <3> HIDE DEF y
    <3> QED
      BY <3>1, <3>2, <3>3
  <2>2. CASE ReadFails(r, c)
    <3> DEFINE y == [p \in Parts(c) |-> "broken"]
    <3>1. image' = [image EXCEPT ![r][c] = y]
      BY <2>2 DEF ReadFails
    <3>2. y \in Image(c) /\ y # None
      BY NoneAssumption DEF Image
    <3>3. ~Store(r, c)
      BY <2>2 DEF ReadFails, Store
    <3> HIDE DEF y
    <3> QED
      BY <3>1, <3>2, <3>3
  <2>3. CASE Store(r, c)
    BY <2>3 DEF Store
  <2> QED
    BY <2>1, <2>2, <2>3
<1>5. x \in Images
  BY DEF Images
<1>6. /\ image' \in [Request -> [Cache -> Images]]
      /\ image'[r][c] = x
      /\ \A q \in Request, d \in Cache : q # r \/ d # c => image'[q][d] = image[q][d]
  <2>1. image' = [image EXCEPT ![r] = [image[r] EXCEPT ![c] = x]]
    BY <1>4
  <2>2. [image[r] EXCEPT ![c] = x] \in [Cache -> Images]
    BY <1>2, <1>5
  <2> QED
    BY <1>2, <2>1, <2>2
<1>7. /\ place' \in [Request -> [Cache -> Place]]
      /\ \A q \in Request \ {r} : place'[q] = place[q]
      /\ place'[r][c] = IF Store(r, c) THEN "stored"
                        ELSE IF Read(r, c) /\ c = "queues" THEN "nesting" ELSE "read"
      /\ \A d \in Cache \ {c} :
            place'[r][d] = IF Read(r, c) /\ c = "queues" THEN "asked" ELSE place[r][d]
  <2>1. CASE Read(r, c) /\ c = "queues"
    <3>1. place' = [place EXCEPT ![r] = [types |-> "asked", queues |-> "nesting"]]
      BY <2>1 DEF Read
    <3>2. [types |-> "asked", queues |-> "nesting"] \in [Cache -> Place]
      BY DEF Cache, Place
    <3>3. /\ place' \in [Request -> [Cache -> Place]]
          /\ place'[r] = [types |-> "asked", queues |-> "nesting"]
          /\ \A q \in Request \ {r} : place'[q] = place[q]
      BY <1>2, <3>1, <3>2
    <3>4. place'[r]["types"] = "asked" /\ place'[r]["queues"] = "nesting"
      BY <3>3
    <3>5. ~Store(r, c)
      BY <2>1 DEF Read, Store
    <3> QED
      BY <2>1, <3>3, <3>4, <3>5, CacheLemma
  <2>2. CASE ~(Read(r, c) /\ c = "queues")
    <3> DEFINE p == IF Store(r, c) THEN "stored" ELSE "read"
    <3>1. Go(r, c, p)
      BY <2>2 DEF Read, ReadFails, Store, Go
    <3>2. p \in Place
      BY DEF Place
    <3> HIDE DEF p
    <3>3. /\ place' \in [Request -> [Cache -> Place]]
          /\ place'[r][c] = p
          /\ \A d \in Cache \ {c} : place'[r][d] = place[r][d]
          /\ \A q \in Request \ {r} : place'[q] = place[q]
      BY <1>1, <3>1, <3>2, GoLemma
    <3> QED
      BY <2>2, <3>3 DEF p
  <2> QED
    BY <2>1, <2>2
<1>8. crossed' \in [Cache -> [fill : BOOLEAN, kept : BOOLEAN]]
  <2>1. crossed \in [Cache -> [fill : BOOLEAN, kept : BOOLEAN]]
    BY <1>1 DEF TypeOK
  <2>2. PICK y \in [fill : BOOLEAN, kept : BOOLEAN] : crossed' = [crossed EXCEPT ![c] = y]
    <3>1. CASE Read(r, c) \/ ReadFails(r, c)
      <4>1. crossed' = [crossed EXCEPT ![c] = [crossed[c] EXCEPT !.fill = FALSE]]
        BY <3>1 DEF Read, ReadFails
      <4>2. [crossed[c] EXCEPT !.fill = FALSE] \in [fill : BOOLEAN, kept : BOOLEAN]
        BY <2>1
      <4> QED
        BY <4>1, <4>2
    <3>2. CASE Store(r, c)
      <4>1. crossed' = [crossed EXCEPT ![c] = [fill |-> FALSE, kept |-> crossed[c].fill]]
        BY <2>1, <3>2 DEF Store
      <4>2. [fill |-> FALSE, kept |-> crossed[c].fill] \in [fill : BOOLEAN, kept : BOOLEAN]
        BY <2>1
      <4> QED
        BY <4>1, <4>2
    <3> QED
      BY <3>1, <3>2
  <2> QED
    BY <2>1, <2>2
<1>9. /\ cache' \in [Cache -> Images]
      /\ \A d \in Cache : cache'[d] \in Image(d) \cup {None}
  <2>1. cache' = cache \/ cache' = [cache EXCEPT ![c] = image[r][c]]
    BY DEF Read, ReadFails, Store
  <2>2. image[r][c] \in Images
    BY <1>2
  <2> QED
    BY <1>1, <1>2, <2>1, <2>2 DEF TypeOK
<1>10. TypeOK'
  <2>1. \A q \in Request, d \in Cache : image'[q][d] \in Image(d) \cup {None}
    BY <1>2, <1>6
  <2> QED
    BY <1>1, <1>3, <1>6, <1>7, <1>8, <1>9, <2>1 DEF TypeOK
<1>11. CallOf(r)'
  <2>1. Read(r, c) => ~Store(r, c)
    BY DEF Read, Store
  <2>2. phase[r] = "running" /\ phase'[r] = "running" /\ topic'[r] = topic[r]
    BY <1>1, <1>3 DEF CallOf
  <2>3. CASE c = "queues"
    BY <1>1, <1>3, <1>4, <1>6, <1>7, <2>1, <2>2, <2>3, CacheLemma DEF CallOf
  <2>4. CASE c = "types"
    BY <1>1, <1>3, <1>4, <1>6, <1>7, <2>1, <2>2, <2>4, CacheLemma DEF CallOf
  <2> QED
    BY <2>3, <2>4, CacheLemma
<1>12. ASSUME NEW q \in Request \ {r}
       PROVE  CallOf(q)'
  <2>1. /\ CallOf(q) /\ place'[q] = place[q] /\ UNCHANGED <<phase, topic>>
        /\ \A d \in Cache : image'[q][d] = image[q][d]
    BY <1>3, <1>6, <1>7, <1>12 DEF CallInv
  <2> QED
    BY <2>1 DEF CallOf
<1>13. \A d \in Cache : Inside(r, d)' => Inside(r, d)
  BY <1>3, <1>7 DEF Inside
<1>14. Mutex'
  BY <1>7, <1>13, MutexLemma
<1> QED
  BY <1>3, <1>6, <1>10, <1>11, <1>12, <1>14 DEF CallInv

LEMMA ReturnStep ==
    ASSUME CallInv, NEW r \in Request, NEW c \in Cache, NEW x \in Image(c) \cup {None},
           place[r][c] \in {"checking", "leaving"}, Returned(r, c, x),
           UNCHANGED <<cache, day, crossed>>
    PROVE  CallInv'
<1>1. TypeOK /\ CallOf(r) /\ Mutex
  BY DEF CallInv
<1>2. /\ place' \in [Request -> [Cache -> Place]]
      /\ image' \in [Request -> [Cache -> Images]]
      /\ \A q \in Request, d \in Cache : image'[q][d] \in Image(d) \cup {None}
      /\ phase' \in [Request -> Phase]
      /\ topic' \in [Request -> Cache \cup {None}]
      /\ \A q \in Request \ {r} :
            /\ place'[q] = place[q] /\ image'[q] = image[q]
            /\ phase'[q] = phase[q] /\ topic'[q] = topic[q]
  BY ReturnedLemma
<1>3. TypeOK'
  BY <1>1, <1>2 DEF TypeOK
<1>4. \/ /\ topic[r] = c /\ phase'[r] = "idle" /\ image'[r] = image[r]
         /\ \A d \in Cache : place'[r][d] = "out"
      \/ /\ c = "types" /\ topic[r] = "queues" /\ place[r]["queues"] = "nesting"
         /\ place'[r]["types"] = "out" /\ place'[r]["queues"] = "read"
         /\ phase'[r] = phase[r] /\ topic'[r] = topic[r]
         /\ image'[r]["types"] = image[r]["types"]
         /\ image'[r]["queues"] # None
  BY ReturnedLemma
<1>5. ASSUME NEW q \in Request \ {r}
      PROVE  CallOf(q)'
  BY <1>2 DEF CallInv, CallOf
<1>6. CallOf(r)'
  <2>1. CASE /\ topic[r] = c /\ phase'[r] = "idle" /\ image'[r] = image[r]
             /\ \A d \in Cache : place'[r][d] = "out"
    <3>1. \A d \in Cache : place[r][d] \notin {"nesting", "read"}
      BY <1>1, <2>1, CacheLemma DEF CallOf
    <3> QED
      BY <1>1, <2>1, <3>1, CacheLemma DEF CallOf
  <2>2. CASE /\ c = "types" /\ topic[r] = "queues" /\ place[r]["queues"] = "nesting"
             /\ place'[r]["types"] = "out" /\ place'[r]["queues"] = "read"
             /\ phase'[r] = phase[r] /\ topic'[r] = topic[r]
             /\ image'[r]["types"] = image[r]["types"]
             /\ image'[r]["queues"] # None
    BY <1>1, <2>2, CacheLemma DEF CallOf
  <2> QED
    BY <1>4, <2>1, <2>2
<1>7. \A d \in Cache : Inside(r, d)' => Inside(r, d)
  BY <1>4, CacheLemma DEF Inside
<1>8. Mutex'
  BY <1>2, <1>7, MutexLemma
<1> QED
  BY <1>3, <1>5, <1>6, <1>8 DEF CallInv

LEMMA NewDayStep == CallInv /\ NewDay => CallInv'
<1> SUFFICES ASSUME CallInv, NewDay
             PROVE  CallInv'
  OBVIOUS
<1>1. day' \in [Cache -> {"today", "before", None}]
  BY DEF CallInv, TypeOK, NewDay
<1> QED
  BY <1>1 DEF CallInv, TypeOK, Mutex, CallOf, Inside, NewDay

LEMMA CallStep == CallInv /\ [Next]_vars => CallInv'
<1> SUFFICES ASSUME CallInv, [Next]_vars
             PROVE  CallInv'
  OBVIOUS
<1>1. TypeOK
  BY DEF CallInv
<1>2. ASSUME NEW r \in Request, (\E c \in Cache : Change(r, c)) \/ Fail(r)
      PROVE  CallInv'
  BY <1>2, OutsideStep
<1>3. ASSUME NEW r \in Request, Flush(r)
      PROVE  CallInv'
  BY <1>3, OutsideStep, CommitStep DEF Flush
<1>4. ASSUME NEW r \in Request, NEW c \in Cache, Ask(r, c)
      PROVE  CallInv'
  BY <1>4, AskStep
<1>5. ASSUME NEW r \in Request, NEW c \in Cache, Enter(r, c)
      PROVE  CallInv'
  <2> DEFINE p == IF cache[c] = None THEN "empty" ELSE "checking"
  <2>1. Go(r, c, p) /\ place[r][c] = "asked" /\ \A q \in Request : ~Inside(q, c)
    BY <1>5 DEF Enter
  <2>2. UNCHANGED <<cache, day, phase, topic, image, crossed>>
    BY <1>5 DEF Enter
  <2>3. p \in Place /\ p \notin {"out", "nesting", "read"}
    BY DEF Place
  <2> HIDE DEF p
  <2>4. day' \in [Cache -> {"today", "before", None}]
    BY <1>1, <2>2 DEF TypeOK
  <2> QED
    BY <2>1, <2>2, <2>3, <2>4, MoveStep
<1>6. ASSUME NEW r \in Request, NEW c \in Cache, CheckDay(r, c)
      PROVE  CallInv'
  <2>1. place[r][c] = "checking" /\ Inside(r, c) /\ UNCHANGED <<cache, day, crossed>>
    BY <1>6 DEF CheckDay, Inside
  <2>2. CASE Returned(r, c, None)
    BY <2>1, <2>2, ReturnStep
  <2>3. CASE ~Returned(r, c, None)
    <3> DEFINE p == IF day[c] = "today" THEN "leaving" ELSE "empty"
    <3>1. Go(r, c, p) /\ UNCHANGED <<phase, topic, image>>
      BY <1>6, <2>3 DEF CheckDay
    <3>2. p \in Place /\ p \notin {"out", "nesting", "read"}
      BY DEF Place
    <3> HIDE DEF p
    <3>3. day' \in [Cache -> {"today", "before", None}]
      BY <1>1, <2>1 DEF TypeOK
    <3> QED
      BY <2>1, <3>1, <3>2, <3>3, MoveStep
  <2> QED
    BY <2>2, <2>3
<1>7. ASSUME NEW r \in Request, NEW c \in Cache, Borrow(r, c) \/ Stamp(r, c)
      PROVE  CallInv'
  <2>1. PICK p \in {"reading", "leaving"} : Go(r, c, p)
    BY <1>7 DEF Borrow, Stamp
  <2>2. /\ place[r][c] \in {"empty", "stored"} /\ Inside(r, c)
        /\ UNCHANGED <<cache, phase, topic, image, crossed>>
    BY <1>7 DEF Borrow, Stamp, Inside
  <2>3. day' \in [Cache -> {"today", "before", None}]
    BY <1>1, <1>7 DEF TypeOK, Borrow, Stamp
  <2>4. p \in Place /\ p \notin {"out", "nesting", "read"}
    BY DEF Place
  <2>5. place[r][c] \notin {"out", "nesting", "read"}
    BY <2>2
  <2> QED
    BY <2>1, <2>2, <2>3, <2>4, <2>5, MoveStep
<1>8. ASSUME NEW r \in Request, NEW c \in Cache, Read(r, c) \/ ReadFails(r, c) \/ Store(r, c)
      PROVE  CallInv'
  BY <1>8, ImageStep
<1>9. ASSUME NEW r \in Request, NEW c \in Cache, Return(r, c)
      PROVE  CallInv'
  <2>1. /\ place[r][c] = "leaving" /\ Returned(r, c, cache[c])
        /\ UNCHANGED <<cache, day, crossed>>
    BY <1>9 DEF Return
  <2>2. cache[c] \in Image(c) \cup {None}
    BY <1>1 DEF TypeOK
  <2> QED
    BY <2>1, <2>2, ReturnStep
<1>10. CASE NewDay
  BY <1>10, NewDayStep
<1>11. CASE UNCHANGED vars
  BY <1>11 DEF CallInv, TypeOK, Mutex, CallOf, Inside, vars
<1> QED
  BY <1>2, <1>3, <1>4, <1>5, <1>6, <1>7, <1>8, <1>9, <1>10, <1>11 DEF Next, Get

LEMMA CallInit == Init => CallInv
<1> SUFFICES ASSUME Init
             PROVE  CallInv
  OBVIOUS
<1>1. TypeOK
  BY DEF Init, TypeOK, Images, Phase, Place
<1>2. Mutex /\ \A r \in Request : CallOf(r)
  BY CacheLemma DEF Init, Mutex, CallOf, Inside
<1> QED
  BY <1>1, <1>2 DEF CallInv

\* Whatever requests, flushes and days do, caches keep instances of their own.
THEOREM TypeCorrect == Spec => []TypeOK
<1>1. Spec => []CallInv
  BY CallInit, CallStep, PTL DEF Spec
<1> QED
  BY <1>1, PTL DEF CallInv

-----------------------------------------------------------------------------
(* Connections *)

\* When somebody is about to take a connection for a cache, only the fill of the
\* other cache may have one.
THEOREM FillsGoOn ==
    ASSUME Active >= Cardinality(Request) + 2
    PROVE  Spec => []FillersGoOn
<1>1. CallInv => FillersGoOn
  <2> SUFFICES ASSUME CallInv, NEW r \in Request, NEW c \in Cache, place[r][c] = "empty"
               PROVE  InUse < Active
    BY DEF FillersGoOn, FreeConnection
  <2> DEFINE B == {q \in Request : phase[q] # "idle"}
             R == {x \in Request \X Cache : place[x[1]][x[2]] \in {"reading", "nesting"}}
  <2>1. IsFiniteSet(B) /\ Cardinality(B) <= Cardinality(Request) /\ Cardinality(B) \in Nat
    BY CachesAssumption, FS_Subset, FS_CardinalityType
  <2>2. Cardinality(Request) \in Nat
    BY CachesAssumption, FS_CardinalityType
  <2>3. \A x, y \in R : x = y
    <3>1. SUFFICES ASSUME NEW x \in R, NEW y \in R
                   PROVE  x = y
      OBVIOUS
    <3>2. x[2] # c /\ y[2] # c
      BY DEF CallInv, Mutex, Inside
    <3>3. x[2] = y[2]
      BY <3>2, CacheLemma
    <3>4. x[1] = y[1]
      BY <3>3 DEF CallInv, Mutex, Inside
    <3> QED
      BY <3>3, <3>4
  <2>4. Cardinality(R) \in Nat /\ Cardinality(R) <= 1
    <3>1. CASE R = {}
      BY <3>1, FS_EmptySet
    <3>2. CASE R # {}
      <4>1. PICK x \in R : R = {x}
        BY <2>3, <3>2
      <4>2. Cardinality({x}) = 1
        BY FS_Singleton
      <4> HIDE DEF R
      <4> QED
        BY <4>1, <4>2
    <3> QED
      BY <3>1, <3>2
  <2>5. InUse = Cardinality(B) + Cardinality(R)
    BY DEF InUse
  <2> HIDE DEF B, R
  <2> QED
    BY <2>1, <2>2, <2>4, <2>5, CachesAssumption
<1>2. Spec => []CallInv
  BY CallInit, CallStep, PTL DEF Spec
<1> QED
  BY <1>1, <1>2, PTL

\* Whoever is in the monitor of the types can go on, because the types are read
\* without another cache and there is a connection for it; when nobody is, so can
\* whoever is in the monitor of the queues; when nobody is in either, whoever has
\* begun can enter.
THEOREM NoDeadlock ==
    ASSUME Active >= Cardinality(Request) + 2
    PROVE  Spec => []NeverAllWait
<1>1. ASSUME CallInv, FillersGoOn, NEW r \in Request, phase[r] # "idle"
      PROVE  \E q \in Request : GoesOn(q)
  <2>1. /\ place \in [Request -> [Cache -> Place]] /\ phase[r] \in Phase
        /\ \A q \in Request : CallOf(q)
    BY <1>1 DEF CallInv, TypeOK
  <2>2. ASSUME NEW q \in Request, NEW c \in Cache, Inside(q, c), place[q][c] # "nesting"
        PROVE  GoesOn(q)
    <3>1. place[q][c] \in {"checking", "empty", "reading", "read", "stored"}
      BY <2>1, <2>2 DEF Inside, Place
    <3> QED
      BY <1>1, <3>1 DEF GoesOn, FillersGoOn
  <2>3. CASE \E q \in Request : Inside(q, "types")
    BY <2>1, <2>2, <2>3, CacheLemma DEF CallOf
  <2>4. CASE \A q \in Request : ~Inside(q, "types")
    <3>1. ASSUME NEW q \in Request, place[q]["types"] # "out"
          PROVE  GoesOn(q)
      <4>1. place[q]["types"] \in {"asked", "leaving"}
        BY <2>4, <3>1 DEF Inside
      <4> QED
        BY <2>4, <4>1, CacheLemma DEF GoesOn
    <3>2. CASE \E q \in Request : Inside(q, "queues")
      <4>1. PICK q \in Request : Inside(q, "queues")
        BY <3>2
      <4>2. CASE place[q]["queues"] = "nesting"
        BY <2>1, <3>1, <4>2 DEF CallOf
      <4> QED
        BY <2>2, <4>1, <4>2, CacheLemma
    <3>3. CASE \A q \in Request : ~Inside(q, "queues")
      <4>1. CASE phase[r] = "running"
        <5>1. PICK c \in Cache : place[r][c] # "out"
          BY <2>1, <4>1 DEF CallOf
        <5>2. CASE c = "types"
          BY <3>1, <5>1, <5>2
        <5>3. CASE c = "queues"
          <6>1. place[r][c] \in {"asked", "leaving"}
            BY <3>3, <5>1, <5>3 DEF Inside
          <6> QED
            BY <3>3, <5>3, <6>1, CacheLemma DEF GoesOn
        <5> QED
          BY <5>2, <5>3, CacheLemma
      <4>2. CASE phase[r] # "running"
        BY <1>1, <2>1, <4>2 DEF GoesOn, Phase
      <4> QED
        BY <4>1, <4>2
    <3> QED
      BY <3>2, <3>3
  <2> QED
    BY <2>3, <2>4
<1>2. CallInv /\ FillersGoOn => NeverAllWait
  BY <1>1 DEF NeverAllWait
<1>3. Spec => []CallInv
  BY CallInit, CallStep, PTL DEF Spec
<1>4. Spec => []FillersGoOn
  BY FillsGoOn
<1> QED
  BY <1>2, <1>3, <1>4, PTL

-----------------------------------------------------------------------------
(* Old data *)

Pending(c) == \E r \in Request : phase[r] = "committed" /\ topic[r] = c

\* What is kept and what was read for a cache is old only if a flush is about to
\* drop it, or crossed the fill.
OldInv(c) ==
    /\ cache[c] # None /\ cache[c][c] = "old" /\ ~crossed[c].kept => Pending(c)
    /\ \A r \in Request :
          image[r][c] # None /\ image[r][c][c] = "old" /\ ~crossed[c].fill => Pending(c)

IInv == CallInv /\ \A c \in Cache : OldInv(c)

\* Steps that keep the data of a cache, and who has to drop it.
LEMMA FrameLemma ==
    ASSUME NEW c \in Cache, OldInv(c),
           cache'[c] = cache[c], crossed'[c] = crossed[c],
           \A q \in Request : image'[q][c] = image[q][c],
           \A q \in Request : phase[q] = "committed" =>
                                 phase'[q] = "committed" /\ topic'[q] = topic[q]
    PROVE  OldInv(c)'
  BY DEF OldInv, Pending

LEMMA OldReturned ==
    ASSUME IInv, NEW r \in Request, NEW d \in Cache, NEW x \in Image(d) \cup {None},
           place[r][d] \in {"checking", "leaving"}, Returned(r, d, x),
           UNCHANGED <<cache, day, crossed>>, NEW c \in Cache
    PROVE  OldInv(c)'
<1>1. CallInv /\ CallOf(r) /\ OldInv(c)
  BY DEF IInv, CallInv
<1>2. phase[r] = "running"
  BY <1>1 DEF CallOf
<1>3. /\ \A q \in Request \ {r} :
            image'[q] = image[q] /\ phase'[q] = phase[q] /\ topic'[q] = topic[q]
      /\ \/ image'[r] = image[r]
         \/ /\ place[r]["queues"] = "nesting"
            /\ image'[r]["types"] = image[r]["types"]
            /\ image'[r]["queues"]["queues"] \in {image[r]["queues"]["queues"], "broken"}
  BY <1>1, ReturnedLemma
<1>4. image[r][c] # None \/ image'[r][c] = image[r][c]
  BY <1>1, <1>3, CacheLemma DEF CallOf
<1>5. image'[r][c] = image[r][c] \/ image'[r][c][c] \in {image[r][c][c], "broken"}
  BY <1>3, CacheLemma
<1>6. Pending(c) => Pending(c)'
  BY <1>2, <1>3 DEF Pending
<1>7. ASSUME NEW q \in Request
      PROVE  image'[q][c] # None /\ image'[q][c][c] = "old" /\ ~crossed[c].fill => Pending(c)'
  <2>1. CASE q = r
    BY <1>1, <1>4, <1>5, <1>6, <2>1 DEF OldInv
  <2>2. CASE q # r
    BY <1>1, <1>3, <1>6, <2>2 DEF OldInv
  <2> QED
    BY <2>1, <2>2
<1> QED
  BY <1>1, <1>6, <1>7 DEF OldInv

LEMMA OldCommit ==
    ASSUME IInv, NEW r \in Request, Commit(r), NEW c \in Cache
    PROVE  OldInv(c)'
<1>1. CallInv /\ OldInv(c) /\ TypeOK
  BY DEF IInv, CallInv
<1>2. /\ cache'[c] = Aged(cache[c], topic[r])
      /\ \A q \in Request : image'[q][c] = Aged(image[q][c], topic[r])
  BY <1>1, CommitStep
<1>3. /\ UNCHANGED <<topic, crossed>> /\ phase'[r] = "committed"
      /\ \A q \in Request \ {r} : phase'[q] = phase[q]
  BY <1>1 DEF Commit, TypeOK
<1>4. Pending(c) => Pending(c)'
  BY <1>3 DEF Pending
<1>5. CASE topic[r] = c
  BY <1>3, <1>5 DEF OldInv, Pending
<1>6. CASE topic[r] # c
  <2>1. cache[c] \in Image(c) \cup {None} /\ \A q \in Request : image[q][c] \in Image(c) \cup {None}
    BY <1>1 DEF TypeOK
  <2>2. (cache'[c] = None <=> cache[c] = None) /\ (cache[c] # None => cache'[c][c] = cache[c][c])
    BY <1>2, <1>6, <2>1, AgedLemma
  <2>3. ASSUME NEW q \in Request
        PROVE  /\ image'[q][c] = None <=> image[q][c] = None
               /\ image[q][c] # None => image'[q][c][c] = image[q][c][c]
    BY <1>2, <1>6, <2>1, AgedLemma
  <2> QED
    BY <1>1, <1>3, <1>4, <2>2, <2>3 DEF OldInv
<1> QED
  BY <1>5, <1>6

LEMMA OldDrop ==
    ASSUME IInv, NEW r \in Request, Drop(r), NEW c \in Cache
    PROVE  OldInv(c)'
<1>1. CallInv /\ OldInv(c) /\ TypeOK
  BY DEF IInv, CallInv
<1> DEFINE d == topic[r]
           f == \E q \in Request : image[q][d] # None
<1>2. /\ phase' = [phase EXCEPT ![r] = "dropped"]
      /\ cache' = [cache EXCEPT ![d] = None]
      /\ crossed' = [crossed EXCEPT ![d] = [fill |-> f, kept |-> FALSE]]
      /\ UNCHANGED <<topic, image>>
  BY DEF Drop
<1>3. CASE d = c
  <2>1. cache'[c] = None /\ crossed'[c] = [fill |-> f, kept |-> FALSE]
    BY <1>1, <1>2, <1>3 DEF TypeOK
  <2>2. crossed'[c].fill = f
    BY <2>1
  <2>3. ~f => \A q \in Request : image'[q][c] = None
    BY <1>2, <1>3
  <2> HIDE DEF f
  <2> QED
    BY <2>1, <2>2, <2>3 DEF OldInv
<1>4. CASE d # c
  <2>1. cache'[c] = cache[c] /\ crossed'[c] = crossed[c]
    BY <1>1, <1>2, <1>4 DEF TypeOK
  <2>2. Pending(c) => Pending(c)'
    BY <1>1, <1>2, <1>4 DEF Pending, TypeOK
  <2> QED
    BY <1>1, <1>2, <2>1, <2>2 DEF OldInv
<1> QED
  BY <1>3, <1>4

LEMMA OldImage ==
    ASSUME IInv, NEW r \in Request, NEW d \in Cache, NEW c \in Cache,
           Read(r, d) \/ ReadFails(r, d) \/ Store(r, d)
    PROVE  OldInv(c)'
<1>1. CallInv /\ OldInv(c) /\ TypeOK /\ Mutex /\ \A q \in Request : CallOf(q)
  BY DEF IInv, CallInv
<1>2. /\ \A q \in Request, e \in Cache : q # r \/ e # d => image'[q][e] = image[q][e]
      /\ Inside(r, d)
  BY <1>1, ImageStep
<1>3. UNCHANGED <<phase, topic>>
  BY DEF Read, ReadFails, Store
<1>4. CASE d # c
  <2>1. cache'[c] = cache[c] /\ crossed'[c] = crossed[c]
    BY <1>1, <1>4 DEF TypeOK, Read, ReadFails, Store
  <2> QED
    BY <1>1, <1>2, <1>3, <1>4, <2>1, FrameLemma
<1>5. CASE d = c
  <2>1. ASSUME NEW q \in Request \ {r}
        PROVE  image'[q][c] = None
    <3>1. ~Inside(q, c)
      BY <1>1, <1>2, <1>5, <2>1 DEF Mutex
    <3>2. image[q][c] = None
      BY <1>1, <3>1 DEF CallOf, Inside
    <3> QED
      BY <1>2, <3>2
  <2>2. CASE Read(r, d) \/ ReadFails(r, d)
    <3>1. image'[r][c][c] # "old"
      BY <1>1, <1>5, <2>2, CacheLemma DEF TypeOK, Read, ReadFails
    <3>2. cache'[c] = cache[c] /\ crossed'[c].kept = crossed[c].kept
      <4>1. crossed' = [crossed EXCEPT ![c] = [crossed[c] EXCEPT !.fill = FALSE]]
        BY <1>5, <2>2 DEF Read, ReadFails
      <4>2. crossed[c] \in [fill : BOOLEAN, kept : BOOLEAN]
        BY <1>1 DEF TypeOK
      <4>3. [crossed[c] EXCEPT !.fill = FALSE].kept = crossed[c].kept
        BY <4>2
      <4> QED
        BY <1>1, <2>2, <4>1, <4>3 DEF TypeOK, Read, ReadFails
    <3> QED
      BY <1>1, <1>3, <2>1, <3>1, <3>2 DEF OldInv, Pending
  <2>3. CASE Store(r, d)
    <3>1. cache'[c] = image[r][c] /\ image'[r][c] = None
      BY <1>1, <1>5, <2>3 DEF TypeOK, Store
    <3>2. crossed'[c].kept = crossed[c].fill
      BY <1>1, <1>5, <2>3 DEF TypeOK, Store
    <3> QED
      BY <1>1, <1>3, <2>1, <3>1, <3>2 DEF OldInv, Pending
  <2> QED
    BY <2>2, <2>3
<1> QED
  BY <1>4, <1>5

LEMMA OldStep == IInv /\ [Next]_vars => IInv'
<1> SUFFICES ASSUME IInv, [Next]_vars
             PROVE  IInv'
  OBVIOUS
<1>1. CallInv' /\ TypeOK
  BY CallStep DEF IInv, CallInv
<1>2. SUFFICES ASSUME NEW c \in Cache
               PROVE  OldInv(c)'
  BY <1>1 DEF IInv
<1>3. OldInv(c)
  BY DEF IInv
<1>4. ASSUME NEW r \in Request,
             Fail(r) \/ Forget(r) \/ \E d \in Cache : Ask(r, d) \/ Change(r, d) \/ Enter(r, d)
      PROVE  OldInv(c)'
  <2>1. UNCHANGED <<cache, image, crossed>>
    BY <1>4 DEF Fail, Forget, Ask, Change, Enter
  <2>2. \A q \in Request : phase[q] = "committed" =>
                              phase'[q] = "committed" /\ topic'[q] = topic[q]
    BY <1>1, <1>4 DEF TypeOK, Fail, Forget, Ask, Change, Enter, End
  <2> QED
    BY <1>3, <2>1, <2>2, FrameLemma
<1>5. ASSUME NEW r \in Request, NEW d \in Cache, Borrow(r, d) \/ Stamp(r, d)
      PROVE  OldInv(c)'
  BY <1>3, <1>5, FrameLemma DEF Borrow, Stamp
<1>6. ASSUME NEW r \in Request, NEW d \in Cache, CheckDay(r, d)
      PROVE  OldInv(c)'
  <2>1. place[r][d] = "checking" /\ UNCHANGED <<cache, day, crossed>>
    BY <1>6 DEF CheckDay
  <2>2. CASE Returned(r, d, None)
    BY <2>1, <2>2, OldReturned
  <2>3. CASE ~Returned(r, d, None)
    <3>1. UNCHANGED <<phase, topic, image>>
      BY <1>6, <2>3 DEF CheckDay
    <3> QED
      BY <1>3, <2>1, <3>1, FrameLemma
  <2> QED
    BY <2>2, <2>3
<1>7. ASSUME NEW r \in Request, NEW d \in Cache, Return(r, d)
      PROVE  OldInv(c)'
  <2>1. /\ place[r][d] = "leaving" /\ Returned(r, d, cache[d])
        /\ UNCHANGED <<cache, day, crossed>>
    BY <1>7 DEF Return
  <2>2. cache[d] \in Image(d) \cup {None}
    BY <1>1 DEF TypeOK
  <2> QED
    BY <2>1, <2>2, OldReturned
<1>8. ASSUME NEW r \in Request, NEW d \in Cache, Read(r, d) \/ ReadFails(r, d) \/ Store(r, d)
      PROVE  OldInv(c)'
  BY <1>8, OldImage
<1>9. ASSUME NEW r \in Request, Commit(r) \/ Drop(r)
      PROVE  OldInv(c)'
  BY <1>9, OldCommit, OldDrop
<1>10. CASE NewDay
  BY <1>3, <1>10, FrameLemma DEF NewDay
<1>11. CASE UNCHANGED vars
  BY <1>3, <1>11, FrameLemma DEF vars
<1> QED
  BY <1>4, <1>5, <1>6, <1>7, <1>8, <1>9, <1>10, <1>11 DEF Next, Get, Flush

\* For any number of requests and connections: after a flush a cache keeps no data
\* from before the change, unless the flush came while the cache was filled.
THEOREM OldIsCrossed == Spec => []OldOnlyIfCrossed
<1>1. Init => IInv
  <2> SUFFICES ASSUME Init
               PROVE  IInv
    OBVIOUS
  <2>1. \A c \in Cache : cache[c] = None /\ \A r \in Request : image[r][c] = None
    BY DEF Init
  <2> QED
    BY <2>1, CallInit DEF IInv, OldInv
<1>2. IInv => OldOnlyIfCrossed
  BY DEF IInv, OldInv, Pending, OldOnlyIfCrossed
<1> QED
  BY <1>1, <1>2, OldStep, PTL DEF Spec

=============================================================================
