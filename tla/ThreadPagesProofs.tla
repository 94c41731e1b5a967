-------------------------- MODULE ThreadPagesProofs --------------------------
(* Theorems about ThreadPages: a walk lists every thread once, whatever       *)
(* happens between its pages.                                                 *)
EXTENDS ThreadPages, FiniteSetTheorems, WellFoundedInduction, TLAPS

\* Threads are finite sets of positive numbers.
LEMMA ThreadsFinite ==
  ASSUME NEW S \in SUBSET Threads
  PROVE  IsFiniteSet(S) /\ S \subseteq Nat /\ Cardinality(S) \in Nat
<1>1. IsFiniteSet(1 .. N)
  BY PagesAssumption, FS_Interval
<1>2. IsFiniteSet(S)
  BY <1>1, FS_Subset DEF Threads
<1> QED
  BY <1>2, FS_CardinalityType, PagesAssumption DEF Threads

\* The oldest of some threads is what Oldest chooses.
LEMMA OldestExists ==
  ASSUME NEW S \in SUBSET Threads, S # {}
  PROVE  Oldest(S) \in S /\ \A u \in S : Oldest(S) <= u
<1>1. S \subseteq Nat
  BY ThreadsFinite
<1>2. PICK t \in S : \A u \in S : ~(<<u, t>> \in OpToRel(<, Nat))
  BY <1>1, NatLessThanWellFounded, WFMin, Zenon
<1>3. \A u \in S : ~(u < t)
  BY <1>1, <1>2 DEF OpToRel
<1>4. \A u \in S : t <= u
  BY <1>1, <1>3
<1> QED
  BY <1>4 DEF Oldest

\* The newest exists as well: seen from N it is the least.
LEMMA NewestExists ==
  ASSUME NEW S \in SUBSET Threads, S # {}
  PROVE  \E t \in S : \A u \in S : u <= t
<1> DEFINE D == {N - t : t \in S}
<1>1. D \subseteq Nat /\ D # {}
  <2>1. \A t \in S : N - t \in Nat
    BY PagesAssumption DEF Threads
  <2> QED
    BY <2>1
<1>2. PICK d \in D : \A e \in D : ~(<<e, d>> \in OpToRel(<, Nat))
  BY <1>1, NatLessThanWellFounded, WFMin, Zenon
<1>3. \A e \in D : ~(e < d)
  BY <1>1, <1>2 DEF OpToRel
<1>4. PICK t \in S : d = N - t
  OBVIOUS
<1>5. \A u \in S : ~(N - u < N - t)
  BY <1>3, <1>4
<1>6. \A u \in S : u <= t
  BY <1>5, PagesAssumption DEF Threads
<1> QED
  BY <1>6

\* A page is a part of what it is taken from that leaves out nothing newer.
LEMMA NewestIsTop ==
  ASSUME NEW S \in SUBSET Threads, NEW n \in Nat
  PROVE  /\ Newest(n, S) \subseteq S
         /\ \A t \in Newest(n, S), u \in S : u > t => u \in Newest(n, S)
<1>1. SUFFICES ASSUME NEW t \in Newest(n, S), NEW u \in S, u > t
               PROVE  Cardinality({v \in S : v > u}) < n
  BY DEF Newest
<1> DEFINE T == {v \in S : v > t}
           U == {v \in S : v > u}
<1>2. U \in SUBSET T /\ t \in S /\ T \in SUBSET Threads /\ U \in SUBSET Threads
  <2>1. t \in S
    BY DEF Newest
  <2>2. \A v \in S : v > u => v > t
    BY <1>1, <2>1, ThreadsFinite
  <2> QED
    BY <2>1, <2>2
<1>3. IsFiniteSet(T) /\ Cardinality(T) \in Nat /\ Cardinality(U) \in Nat
  BY <1>2, ThreadsFinite
<1>4. Cardinality(U) <= Cardinality(T)
  BY <1>2, <1>3, FS_Subset
<1>5. Cardinality(T) < n
  BY <1>1 DEF Newest
<1> QED
  BY <1>3, <1>4, <1>5

\* A page that is not filled is all there is.
LEMMA ShortPageIsAll ==
  ASSUME NEW S \in SUBSET Threads, NEW n \in Nat, Cardinality(Newest(n, S)) < n
  PROVE  Newest(n, S) = S
<1> DEFINE W == Newest(n, S)
           Rest == S \ W
<1>1. W \subseteq S /\ W \in SUBSET Threads /\ IsFiniteSet(W) /\ Cardinality(W) \in Nat
  BY NewestIsTop, ThreadsFinite
<1>2. SUFFICES ASSUME Rest # {} PROVE FALSE
  BY <1>1
<1>3. PICK t \in Rest : \A u \in Rest : u <= t
  <2>1. Rest \in SUBSET Threads
    OBVIOUS
  <2> QED
    BY <1>2, <2>1, NewestExists
<1> DEFINE T == {u \in S : u > t}
<1>4. T \in SUBSET W
  <2>1. \A u \in S : u > t => ~(u <= t)
    BY ThreadsFinite, <1>3
  <2> QED
    BY <1>3, <2>1
<1>5. Cardinality(T) <= Cardinality(W)
  BY <1>1, <1>4, FS_Subset
<1>6. Cardinality(T) \in Nat
  <2>1. T \in SUBSET Threads
    OBVIOUS
  <2> QED
    BY <2>1, ThreadsFinite
<1>7. Cardinality(T) < n
  BY <1>1, <1>5, <1>6
<1>8. t \in W
  BY <1>3, <1>7 DEF Newest
<1> QED
  BY <1>3, <1>8

\* Asked for as many threads as there are, a page has all of them.
LEMMA LongPageIsAll ==
  ASSUME NEW S \in SUBSET Threads, NEW n \in Nat, Cardinality(S) <= n
  PROVE  Newest(n, S) = S
<1>1. IsFiniteSet(S) /\ Cardinality(S) \in Nat
  BY ThreadsFinite
<1>2. SUFFICES ASSUME NEW t \in S PROVE Cardinality({u \in S : u > t}) < n
  BY DEF Newest
<1> DEFINE T == {u \in S : u > t}
<1>3. T \in SUBSET (S \ {t})
  BY PagesAssumption DEF Threads
<1>4. IsFiniteSet(S \ {t}) /\ Cardinality(S \ {t}) = Cardinality(S) - 1
  BY <1>1, <1>2, FS_RemoveElement
<1>5. Cardinality(T) <= Cardinality(S \ {t}) /\ Cardinality(T) \in Nat
  BY <1>3, <1>4, FS_Subset, FS_CardinalityType
<1> QED
  BY <1>1, <1>4, <1>5

\* list_threads: a page holds threads before its cursor and nothing newer is
\* left out; without a next cursor it holds all of them, with one it goes down
\* to that cursor.
LEMMA PageFits ==
  ASSUME NEW c \in Nat, NEW n \in Limits
  PROVE  LET I == Items(c, n)
             next == NextCursor(c, n)
         IN  /\ I \subseteq Before(c) /\ I \in SUBSET Threads
             /\ next = NoCursor => I = Before(c)
             /\ next # NoCursor => /\ next \in I /\ \A t \in I : next <= t
                                   /\ \A t \in Before(c) : t > next => t \in I
<1> DEFINE S == Before(c)
           R == Rows(c, n)
           I == Items(c, n)
           next == NextCursor(c, n)
<1>1. S \in SUBSET Threads /\ n \in Nat /\ n >= 1
  BY PagesAssumption DEF Before, Visible, Limits
<1>2. /\ R \subseteq S /\ R \in SUBSET Threads
      /\ \A t \in R, u \in S : u > t => u \in R
  BY <1>1, NewestIsTop DEF Rows
<1>3. /\ I \subseteq R /\ I \in SUBSET Threads
      /\ \A t \in I, u \in R : u > t => u \in I
  BY <1>1, <1>2, NewestIsTop DEF Items
<1>4. IsFiniteSet(R) /\ Cardinality(R) \in Nat
  BY <1>2, ThreadsFinite
<1>5. CASE Cardinality(R) <= n
  <2>1. R = S
    BY <1>1, <1>4, <1>5, ShortPageIsAll DEF Rows
  <2>2. I = R
    BY <1>1, <1>2, <1>5, LongPageIsAll DEF Items
  <2>3. next = NoCursor
    BY <1>1, <1>4, <1>5 DEF NextCursor
  <2> QED
    BY <1>2, <1>3, <2>1, <2>2, <2>3
<1>6. CASE Cardinality(R) > n
  <2>1. I # {}
    <3>1. R # {}
      BY <1>1, <1>6, FS_EmptySet
    <3>2. PICK t \in R : \A u \in R : u <= t
      BY <1>2, <3>1, NewestExists
    <3>3. {u \in R : u > t} = {}
      BY <1>2, <3>2, PagesAssumption DEF Threads
    <3>4. Cardinality({u \in R : u > t}) < n
      BY <1>1, <3>3, FS_EmptySet
    <3> QED
      BY <3>2, <3>4 DEF Items, Newest
  <2>2. next = Oldest(I)
    BY <1>6, <2>1 DEF NextCursor
  <2>3. next \in I /\ \A t \in I : next <= t
    BY <1>3, <2>1, <2>2, OldestExists
  <2>4. next # NoCursor
    BY <1>3, <2>3, PagesAssumption DEF Threads, NoCursor
  <2>5. \A t \in S : t > next => t \in I
    BY <1>2, <1>3, <2>3
  <2> QED
    BY <1>2, <1>3, <2>3, <2>4, <2>5
<1> QED
  BY <1>1, <1>4, <1>5, <1>6

\* A page is never longer than it was asked for.
LEMMA PageLength ==
  ASSUME NEW S \in SUBSET Threads, NEW n \in Nat \ {0}
  PROVE  Cardinality(Newest(n, S)) <= n
<1> DEFINE W == Newest(n, S)
<1>1. W \subseteq S /\ W \in SUBSET Threads /\ IsFiniteSet(W) /\ Cardinality(W) \in Nat
  BY NewestIsTop, ThreadsFinite
<1>2. CASE W = {}
  BY <1>2, FS_EmptySet
<1>3. CASE W # {}
  <2>1. Oldest(W) \in W /\ \A u \in W : Oldest(W) <= u
    BY <1>1, <1>3, OldestExists
  <2> DEFINE m == Oldest(W)
             T == {u \in S : u > m}
  <2> HIDE DEF m
  <2>2. Cardinality(T) < n
    BY <2>1 DEF Newest, m
  <2>3. T \in SUBSET Threads /\ IsFiniteSet(T) /\ Cardinality(T) \in Nat
    <3>1. T \in SUBSET Threads
      OBVIOUS
    <3> QED
      BY <3>1, ThreadsFinite
  <2>4. W \ {m} \in SUBSET T
    <3>1. \A u \in W : u # m => u > m
      BY <1>1, <2>1, ThreadsFinite DEF m
    <3> QED
      BY <1>1, <3>1
  <2>5. Cardinality(W \ {m}) = Cardinality(W) - 1
    BY <1>1, <2>1, FS_RemoveElement DEF m
  <2>6. Cardinality(W \ {m}) <= Cardinality(T)
    BY <2>3, <2>4, FS_Subset
  <2> QED
    BY <1>1, <2>2, <2>3, <2>5, <2>6
<1> QED
  BY <1>2, <1>3

\* A thread is on the first page, or the page is full of newer ones.
LEMMA PageShows ==
  ASSUME NEW n \in Limits, NEW t \in Before(NoCursor), t \notin Items(NoCursor, n)
  PROVE  /\ Cardinality(Items(NoCursor, n)) = n
         /\ \A u \in Items(NoCursor, n) : u > t
<1> DEFINE S == Before(NoCursor)
           R == Rows(NoCursor, n)
           I == Items(NoCursor, n)
<1>1. S \in SUBSET Threads /\ n \in Nat \ {0} /\ n + 1 \in Nat
  BY PagesAssumption DEF Before, Visible, Limits
<1>2. /\ R \subseteq S /\ R \in SUBSET Threads
      /\ \A v \in R, u \in S : u > v => u \in R
  BY <1>1, NewestIsTop DEF Rows
<1>3. /\ I \subseteq R /\ I \in SUBSET Threads
      /\ \A v \in I, u \in R : u > v => u \in I
  BY <1>1, <1>2, NewestIsTop DEF Items
<1>4. \A u \in I : u > t
  <2>1. \A u \in I : ~(t > u)
    BY <1>2, <1>3
  <2>2. S \subseteq Nat /\ I \subseteq Nat
    BY <1>1, <1>3, ThreadsFinite
  <2> QED
    BY <2>1, <2>2
<1>5. Cardinality(I) <= n /\ Cardinality(I) \in Nat /\ Cardinality(R) \in Nat
  BY <1>1, <1>2, <1>3, PageLength, ThreadsFinite DEF Items
<1>6. ASSUME Cardinality(I) < n PROVE FALSE
  <2>1. I = R
    BY <1>1, <1>2, <1>6, ShortPageIsAll DEF Items
  <2>2. R = S
    BY <1>1, <1>5, <1>6, <2>1, ShortPageIsAll DEF Rows
  <2> QED
    BY <2>1, <2>2
<1> QED
  BY <1>1, <1>4, <1>5, <1>6

-----------------------------------------------------------------------------
(* The inductive invariant.                                                 *)

\* A walk has come down to its cursor.
CursorIsLast == walk = "walking" => \A t \in Listed : cursor <= t

\* What useCreateThread stored is in sight unless it was taken away, and what
\* was read for the list since it knows shows it.
Shows(S, t) == \/ t \in S \/ t \in moved
               \/ Cardinality(S) = MaxLimit /\ \A u \in S : u > t
OwnThreadRead == \A t \in Threads :
  /\ post[t] \in {"stored", "known", "missed"} => t \in Visible \cup moved
  /\ post[t] = "known" /\ query.fetch = "read" => Shows(query.answer, t)
  /\ post[t] = "known" /\ query.fetch = "none" /\ query.loaded => Shows(query.shown, t)

WalkInv == WalkMissesNothing /\ NewestFirst /\ CursorIsLast
PInv == TypeOK /\ WalkInv /\ OwnThreadRead

LEMMA InitPInv == Init => PInv
<1> SUFFICES ASSUME Init PROVE PInv
  OBVIOUS
<1>1. /\ walk = "idle" /\ pages = <<>> /\ cursor = NoCursor /\ steady = {} /\ moved = {}
      /\ shelf \in [Threads -> {"unborn", "mine", "others"}]
      /\ query = [fetch |-> "none", answer |-> {}, shown |-> {}, loaded |-> FALSE]
      /\ post = [t \in Threads |-> "none"]
  BY DEF Init
<1>2. TypeOK
  BY <1>1 DEF TypeOK
<1>3. WalkInv
  BY <1>1 DEF WalkInv, WalkMissesNothing, NewestFirst, CursorIsLast
<1>4. OwnThreadRead
  BY <1>1 DEF OwnThreadRead
<1> QED
  BY <1>2, <1>3, <1>4 DEF PInv

\* The walk does not see rows that come, and rows that go are no longer steady.
LEMMA RowKeeps ==
  ASSUME TypeOK, WalkInv, NEW t \in Threads, NEW to \in {"mine", "others", "gone"},
         Row(t, to), UNCHANGED walker
  PROVE  /\ shelf' \in [Threads -> {"unborn", "mine", "others", "gone"}]
         /\ steady' \subseteq Visible' /\ moved' \subseteq Threads
         /\ (pages = <<>> <=> walk = "idle")'
         /\ (IF walk = "walking" THEN cursor \in Listed ELSE cursor = NoCursor)'
         /\ WalkInv'
         /\ \A u \in Threads : u \in Visible \cup moved => u \in (Visible \cup moved)'
<1>1. shelf' = [shelf EXCEPT ![t] = to] /\ steady' \subseteq steady /\ moved \subseteq moved'
  BY DEF Row
<1>2. steady' \subseteq Visible'
  BY DEF Row, TypeOK, Visible
<1>3. Listed' = Listed /\ walk' = walk /\ cursor' = cursor /\ pages' = pages
  BY DEF walker, Listed
<1>4. WalkInv'
  BY <1>1, <1>3 DEF WalkInv, WalkMissesNothing, NewestFirst, CursorIsLast
<1>5. \A u \in Threads : u \in Visible \cup moved => u \in (Visible \cup moved)'
  BY DEF Row, TypeOK, Visible
<1> QED
  BY <1>1, <1>2, <1>3, <1>4, <1>5 DEF TypeOK, Row

LEMMA RowStep ==
  ASSUME PInv, NEW t \in Threads, NEW to \in {"mine", "others", "gone"},
         Row(t, to), UNCHANGED <<walker, hook>>
  PROVE  PInv'
<1> USE DEF PInv
<1>1. /\ shelf' \in [Threads -> {"unborn", "mine", "others", "gone"}]
      /\ steady' \subseteq Visible' /\ moved' \subseteq Threads
      /\ (pages = <<>> <=> walk = "idle")'
      /\ (IF walk = "walking" THEN cursor \in Listed ELSE cursor = NoCursor)'
      /\ WalkInv'
      /\ \A u \in Threads : u \in Visible \cup moved => u \in (Visible \cup moved)'
  BY RowKeeps
<1>2. query' = query /\ post' = post /\ walk' = walk /\ pages' = pages /\ moved \subseteq moved'
  BY DEF hook, walker, Row
<1>3. TypeOK'
  BY <1>1, <1>2 DEF TypeOK
<1>4. OwnThreadRead'
  BY <1>1, <1>2 DEF OwnThreadRead, Shows
<1> QED
  BY <1>1, <1>3, <1>4

\* A page goes on where the pages before it ended.
LEMMA PageStep ==
  ASSUME PInv, NEW n \in Limits, TakePage(n),
         \/ walk = "idle" /\ steady' = Visible
         \/ walk = "walking" /\ UNCHANGED steady
  PROVE  PInv'
<1> USE DEF PInv
<1> DEFINE I == Items(cursor, n)
           next == NextCursor(cursor, n)
<1>1. cursor \in Nat /\ pages \in Seq(SUBSET Threads) /\ Listed \subseteq Nat
  <2>1. pages \in Seq(SUBSET Threads)
    BY DEF TypeOK
  <2>2. Listed \in SUBSET Threads
    BY <2>1 DEF Listed
  <2>3. Listed \subseteq Nat
    BY <2>2, ThreadsFinite
  <2>4. cursor \in Listed \/ cursor = NoCursor
    BY DEF TypeOK
  <2>5. CASE cursor \in Listed
    BY <2>1, <2>3, <2>5
  <2>6. CASE cursor = NoCursor
    BY <2>1, <2>3, <2>6 DEF NoCursor
  <2> QED
    BY <2>4, <2>5, <2>6
<1>2. /\ I \subseteq Before(cursor) /\ I \in SUBSET Threads
      /\ next = NoCursor => I = Before(cursor)
      /\ next # NoCursor => /\ next \in I /\ \A t \in I : next <= t
                            /\ \A t \in Before(cursor) : t > next => t \in I
  BY <1>1, PageFits
<1>3. /\ pages' = Append(pages, I) /\ cursor' = next
      /\ walk' = IF next = NoCursor THEN "done" ELSE "walking"
      /\ UNCHANGED <<shelf, hook, moved>>
  BY DEF TakePage
<1> HIDE DEF I, next
<1>4. /\ pages' \in Seq(SUBSET Threads) /\ pages' # <<>>
      /\ Listed' = Listed \cup I
      /\ \A i \in DOMAIN pages' : \/ i \in DOMAIN pages /\ pages'[i] = pages[i]
                                  \/ i = Len(pages) + 1 /\ pages'[i] = I
      /\ DOMAIN pages = 1 .. Len(pages) /\ Len(pages) \in Nat
  <2>1. /\ Len(pages') = Len(pages) + 1 /\ pages' \in Seq(SUBSET Threads)
        /\ Len(pages) \in Nat /\ DOMAIN pages = 1 .. Len(pages) /\ DOMAIN pages' = 1 .. Len(pages) + 1
        /\ \A i \in 1 .. Len(pages) : pages'[i] = pages[i]
        /\ pages'[Len(pages) + 1] = I
    BY <1>1, <1>2, <1>3
  <2>2. \A i \in DOMAIN pages' : \/ i \in DOMAIN pages /\ pages'[i] = pages[i]
                                 \/ i = Len(pages) + 1 /\ pages'[i] = I
    BY <2>1
  <2>3. Listed' = Listed \cup I
    <3>1. \A i \in DOMAIN pages : i \in DOMAIN pages'
      BY <2>1
    <3>2. Len(pages) + 1 \in DOMAIN pages'
      BY <2>1
    <3> QED
      BY <2>1, <2>2, <3>1, <3>2 DEF Listed
  <2> QED
    BY <2>1, <2>2, <2>3
<1>5. Visible' = Visible /\ steady' \subseteq Visible
  BY <1>3 DEF Visible, TypeOK
<1>6. TypeOK'
  <2>1. IF walk' = "walking" THEN cursor' \in Listed' ELSE cursor' = NoCursor
    BY <1>2, <1>3, <1>4
  <2>2. walk' \in {"walking", "done"}
    BY <1>3
  <2> QED
    BY <1>3, <1>4, <1>5, <2>1, <2>2 DEF TypeOK, hook
<1>7. ASSUME NEW t \in I PROVE /\ walk = "walking" => t < cursor
                               /\ \A u \in Listed : t < u
  <2>1. CASE walk = "idle"
    <3>1. Listed = {}
      BY <2>1 DEF TypeOK, Listed
    <3> QED
      BY <2>1, <3>1
  <2>2. CASE walk = "walking"
    <3>1. cursor \in Listed /\ \A u \in Listed : cursor <= u
      BY <2>2 DEF TypeOK, WalkInv, CursorIsLast
    <3>2. Listed \in SUBSET Threads
      BY <1>1 DEF Listed
    <3>3. cursor # NoCursor
      BY <3>1, <3>2, PagesAssumption DEF Threads, NoCursor
    <3>4. t < cursor /\ t \in Nat
      BY <1>2, <1>7, <3>3, ThreadsFinite DEF Before
    <3> QED
      BY <1>1, <3>1, <3>4
  <2> QED
    BY <2>1, <2>2
<1>8. NewestFirst'
  <2>1. SUFFICES ASSUME NEW i \in DOMAIN pages', NEW j \in DOMAIN pages', i < j,
                        NEW t \in pages'[i], NEW u \in pages'[j]
                 PROVE  u < t
    BY DEF NewestFirst
  <2>2. i \in DOMAIN pages /\ pages'[i] = pages[i]
    BY <1>4, <2>1
  <2>3. CASE j \in DOMAIN pages /\ pages'[j] = pages[j]
    BY <2>1, <2>2, <2>3 DEF WalkInv, NewestFirst
  <2>4. CASE pages'[j] = I
    BY <1>7, <2>1, <2>2, <2>4 DEF Listed
  <2> QED
    BY <1>4, <2>3, <2>4
<1>9. WalkMissesNothing'
  <2>1. SUFFICES ASSUME NEW t \in steady'
                 PROVE  t \in Listed' \/ (walk' = "walking" /\ t < cursor')
    BY DEF WalkMissesNothing
  <2>2. t \in Listed \/ t \in Before(cursor)
    <3>1. CASE walk = "idle"
      BY <1>5, <2>1, <3>1 DEF TypeOK, Before
    <3>2. CASE walk = "walking"
      BY <1>5, <2>1, <3>2 DEF WalkInv, WalkMissesNothing, Before
    <3> QED
      BY <3>1, <3>2
  <2>3. CASE t \in Before(cursor) /\ next = NoCursor
    BY <1>2, <1>4, <2>3
  <2>4. CASE t \in Before(cursor) /\ next # NoCursor
    <3>1. t \in Nat /\ next \in Nat
      BY <1>2, <2>4, ThreadsFinite DEF Before, Visible
    <3>2. t \in I \/ t < next
      BY <1>2, <2>4, <3>1
    <3> QED
      BY <1>3, <1>4, <2>4, <3>2
  <2> QED
    BY <1>4, <2>2, <2>3, <2>4
<1>10. CursorIsLast'
  <2>1. SUFFICES ASSUME next # NoCursor, NEW t \in Listed' PROVE next <= t
    BY <1>3 DEF CursorIsLast
  <2>2. CASE t \in I
    BY <1>2, <2>1, <2>2
  <2>3. CASE t \in Listed
    <3>1. next < t
      BY <1>2, <1>7, <2>1, <2>3
    <3>2. next \in Nat
      BY <1>2, <2>1, ThreadsFinite
    <3> QED
      BY <1>1, <2>3, <3>1, <3>2
  <2> QED
    BY <1>4, <2>1, <2>2, <2>3
<1>11. OwnThreadRead'
  BY <1>3, <1>5 DEF OwnThreadRead, Shows, hook
<1> QED
  BY <1>6, <1>8, <1>9, <1>10, <1>11 DEF WalkInv

\* Nothing of the list's own moves rows or pages.
LEMMA HookFrame ==
  ASSUME PInv, UNCHANGED <<shelf, walker, steady, moved>>,
         post' \in [Threads -> {"none", "asked", "stored", "known", "missed"}],
         query' \in [fetch : {"none", "asked", "read"}, answer : SUBSET Threads, shown : SUBSET Threads,
                     loaded : BOOLEAN],
         OwnThreadRead'
  PROVE  PInv'
<1>1. Listed' = Listed /\ Visible' = Visible
  BY DEF Listed, Visible, walker
<1>2. TypeOK'
  BY <1>1 DEF PInv, TypeOK, walker
<1>3. WalkInv'
  BY <1>1 DEF PInv, WalkInv, WalkMissesNothing, NewestFirst, CursorIsLast, walker
<1> QED
  BY <1>2, <1>3 DEF PInv

LEMMA HookStep ==
  ASSUME PInv,
         \/ FetchList \/ ServeList \/ ListArrives
         \/ \E t \in Own : PostThread(t) \/ PostArrives(t)
  PROVE  PInv'
<1> USE DEF PInv
<1>1. /\ post \in [Threads -> {"none", "asked", "stored", "known", "missed"}]
      /\ query \in [fetch : {"none", "asked", "read"}, answer : SUBSET Threads, shown : SUBSET Threads,
                    loaded : BOOLEAN]
      /\ Own \subseteq Threads
  BY PagesAssumption DEF TypeOK, Threads
<1>2. CASE FetchList
  <2>1. post' \in [Threads -> {"none", "asked", "stored", "known", "missed"}] /\ query'.fetch = "asked"
    BY <1>1, <1>2 DEF FetchList
  <2>2. OwnThreadRead'
    BY <1>1, <1>2, <2>1 DEF OwnThreadRead, FetchList, Visible
  <2> QED
    BY <1>1, <1>2, <2>1, <2>2, HookFrame DEF FetchList
<1>3. CASE ServeList
  <2> DEFINE I == Items(NoCursor, MaxLimit)
  <2>1. I \in SUBSET Threads /\ MaxLimit \in Limits
    BY PageFits, PagesAssumption DEF Limits, NoCursor
  <2>2. query' = [query EXCEPT !.fetch = "read", !.answer = I] /\ UNCHANGED <<shelf, post, moved>>
    BY <1>3 DEF ServeList
  <2>3. \A t \in Visible : t \in I \/ (Cardinality(I) = MaxLimit /\ \A u \in I : u > t)
    BY <2>1, PageShows DEF Before
  <2> HIDE DEF I
  <2>4. OwnThreadRead'
    BY <1>1, <2>2, <2>3 DEF OwnThreadRead, Shows, Visible
  <2> QED
    BY <1>1, <1>3, <2>1, <2>2, <2>4, HookFrame DEF ServeList
<1>4. CASE ListArrives
  <2>1. query.fetch = "read" /\ query' = [query EXCEPT !.fetch = "none", !.answer = {}, !.shown = query.answer,
                                                       !.loaded = TRUE]
    BY <1>4 DEF ListArrives
  <2>2. OwnThreadRead'
    BY <1>1, <1>4, <2>1 DEF OwnThreadRead, Shows, ListArrives, Visible
  <2> QED
    BY <1>1, <1>4, <2>1, <2>2, HookFrame DEF ListArrives
<1>5. ASSUME NEW t \in Own, PostThread(t) PROVE PInv'
  <2>1. t \in Threads /\ post' = [post EXCEPT ![t] = "asked"] /\ query' = query
    BY <1>1, <1>5 DEF PostThread
  <2>2. OwnThreadRead'
    BY <1>1, <1>5, <2>1 DEF OwnThreadRead, Shows, PostThread, Visible
  <2> QED
    BY <1>1, <1>5, <2>1, <2>2, HookFrame DEF PostThread
<1>6. ASSUME NEW t \in Own, PostArrives(t) PROVE PInv'
  <2>1. t \in Threads /\ post[t] = "stored" /\ UNCHANGED <<shelf, walker, steady, moved>>
    BY <1>1, <1>6 DEF PostArrives
  <2>2. CASE Invalidate /\ post' = [post EXCEPT ![t] = "known"]
    <3>1. query' = [query EXCEPT !.fetch = "asked", !.answer = {}]
      BY <2>2 DEF Invalidate
    <3>2. OwnThreadRead'
      BY <1>1, <2>1, <2>2, <3>1 DEF OwnThreadRead, Shows, Visible
    <3> QED
      BY <1>1, <2>1, <2>2, <3>1, <3>2, HookFrame
  <2>3. CASE /\ ~query.loaded /\ UNCHANGED query
             /\ post' = [post EXCEPT ![t] = IF query.fetch = "none" THEN "known" ELSE "missed"]
    <3>1. OwnThreadRead'
      BY <1>1, <2>1, <2>3 DEF OwnThreadRead, Shows, Visible
    <3> QED
      BY <1>1, <2>1, <2>3, <3>1, HookFrame
  <2> QED
    BY <1>6, <2>2, <2>3 DEF PostArrives
<1> QED
  BY <1>2, <1>3, <1>4, <1>5, <1>6

\* The POST stores a row, which is the reader's.
LEMMA ServePostStep ==
  ASSUME PInv, NEW t \in Own, ServePost(t)
  PROVE  PInv'
<1> USE DEF PInv
<1>1. t \in Threads /\ Row(t, "mine") /\ UNCHANGED <<walker, query>> /\ post' = [post EXCEPT ![t] = "stored"]
  BY PagesAssumption DEF ServePost, Threads
<1>2. /\ shelf' \in [Threads -> {"unborn", "mine", "others", "gone"}]
      /\ steady' \subseteq Visible' /\ moved' \subseteq Threads
      /\ (pages = <<>> <=> walk = "idle")'
      /\ (IF walk = "walking" THEN cursor \in Listed ELSE cursor = NoCursor)'
      /\ WalkInv'
      /\ \A u \in Threads : u \in Visible \cup moved => u \in (Visible \cup moved)'
  BY <1>1, RowKeeps
<1>3. t \in Visible' /\ moved' = moved
  BY <1>1 DEF Row, Visible, TypeOK
<1>4. TypeOK'
  BY <1>1, <1>2 DEF TypeOK, walker
<1>5. OwnThreadRead'
  <2>1. post \in [Threads -> {"none", "asked", "stored", "known", "missed"}]
    BY DEF TypeOK
  <2> QED
    BY <1>1, <1>2, <1>3, <2>1 DEF OwnThreadRead, Shows
<1> QED
  BY <1>2, <1>4, <1>5

LEMMA NextPInv == PInv /\ [Next]_vars => PInv'
<1> SUFFICES ASSUME PInv, [Next]_vars PROVE PInv'
  OBVIOUS
<1>1. ASSUME NEW t \in Threads, DeleteThread(t) PROVE PInv'
  BY <1>1, RowStep DEF DeleteThread
<1>2. ASSUME NEW t \in Threads, NEW to \in {"mine", "others"}, StoreThread(t, to) \/ PatchTenant(t, to)
      PROVE  PInv'
  BY <1>2, RowStep DEF StoreThread, PatchTenant
<1>3. ASSUME NEW n \in Limits, FirstPage(n) \/ NextPage(n) PROVE PInv'
  BY <1>3, PageStep DEF FirstPage, NextPage
<1>4. ASSUME NEW t \in Own, ServePost(t) PROVE PInv'
  BY <1>4, ServePostStep
<1>5. ASSUME \/ FetchList \/ ServeList \/ ListArrives
             \/ \E t \in Own : PostThread(t) \/ PostArrives(t)
      PROVE  PInv'
  BY <1>5, HookStep
<1>6. ASSUME UNCHANGED vars PROVE PInv'
  <2>1. Listed' = Listed /\ Visible' = Visible /\ UNCHANGED <<shelf, walker, steady, moved, hook>>
    BY <1>6 DEF vars, Listed, Visible, walker
  <2>2. OwnThreadRead'
    BY <2>1 DEF PInv, OwnThreadRead, Shows, hook
  <2>3. TypeOK'
    BY <2>1 DEF PInv, TypeOK, hook, walker
  <2>4. WalkInv'
    BY <2>1 DEF PInv, WalkInv, WalkMissesNothing, NewestFirst, CursorIsLast, walker
  <2> QED
    BY <2>2, <2>3, <2>4 DEF PInv
<1> QED
  BY <1>1, <1>2, <1>3, <1>4, <1>5, <1>6 DEF Next

-----------------------------------------------------------------------------
(* The theorems.                                                            *)

\* The inductive invariant holds in every reachable state, for any number of
\* threads and any lengths of pages.
THEOREM PagesInvariance == Spec => []PInv
<1>1. Init => PInv
  BY InitPInv
<1>2. PInv /\ [Next]_vars => PInv'
  BY NextPInv
<1> QED
  BY <1>1, <1>2, PTL DEF Spec

\* The variables of list_threads and of its callers keep their types.
THEOREM PagesTypes == Spec => []TypeOK
<1>1. PInv => TypeOK
  BY DEF PInv
<1> QED
  BY <1>1, PagesInvariance, PTL

\* A walk misses no thread that was in sight from its beginning.
THEOREM WalkComplete == Spec => []WalkMissesNothing
<1>1. PInv => WalkMissesNothing
  BY DEF PInv, WalkInv
<1> QED
  BY <1>1, PagesInvariance, PTL

\* A walk lists no thread twice, and none after an older one.
THEOREM WalkDescends == Spec => []NewestFirst
<1>1. PInv => NewestFirst
  BY DEF PInv, WalkInv
<1> QED
  BY <1>1, PagesInvariance, PTL

\* The settled list of useThreads shows what useCreateThread created.
THEOREM OwnThreads == Spec => []OwnThreadShown
<1>1. PInv => OwnThreadShown
  BY DEF PInv, OwnThreadRead, OwnThreadShown, Shows
<1> QED
  BY <1>1, PagesInvariance, PTL
=============================================================================
