----------------------------- MODULE ThreadPages -----------------------------
(***************************************************************************)
(* Lists of threads: list_threads of the store, walked page by page from   *)
(* the cursor each page returns, while threads are stored, given to        *)
(* another tenant, and deleted; and the first page that useThreads caches  *)
(* and useCreateThread invalidates.                                        *)
(*                                                                         *)
(* A thread is its place in the order of (created_at, id), which no update *)
(* changes.  Both are taken before the INSERT, so a thread may be stored   *)
(* after a newer one.  A page asks for one thread at least: with a limit   *)
(* of 0 it is empty and has no cursor.                                     *)
(***************************************************************************)
EXTENDS Naturals, Sequences, FiniteSets

CONSTANTS N,         \* bound: threads
          Own,       \* bound: those useCreateThread may create
          MaxLimit   \* bound

ASSUME PagesAssumption == N \in Nat /\ MaxLimit \in Nat \ {0} /\ Own \subseteq 1 .. N

Threads == 1 .. N
Limits == 1 .. MaxLimit
NoCursor == 0

VARIABLES
  shelf,   \* the row of each thread, as the tenant of the reader sees it
  walk,    \* of somebody who asks for page after page
  cursor,  \* the one they ask with
  pages,   \* what they were given
  steady,  \* the threads they could see ever since they began (history)
  query,   \* of useThreads, for MaxLimit threads: its fetch and what it shows
  post,    \* post[t]: the request of useCreateThread for thread t
  moved    \* the threads that were ever taken from the reader (history)

walker == <<walk, cursor, pages>>
hook == <<query, post>>
vars == <<shelf, walker, steady, hook, moved>>

Init == /\ shelf \in [Threads -> {"unborn", "mine", "others"}]
        /\ walk = "idle" /\ cursor = NoCursor /\ pages = <<>> /\ steady = {}
        /\ query = [fetch |-> "none", answer |-> {}, shown |-> {}, loaded |-> FALSE]
        /\ post = [t \in Threads |-> "none"]
        /\ moved = {}

\* $1::jsonb @> threads.tenant
Visible == {t \in Threads : shelf[t] = "mine"}

-----------------------------------------------------------------------------
(* list_threads.                                                           *)

\* ORDER BY created_at DESC, id DESC LIMIT n
Newest(n, S) == {t \in S : Cardinality({u \in S : u > t}) < n}

\* Mutant: a cursor includes the thread it stands on.
BeforeOrAt(c) == {t \in Visible : c = NoCursor \/ t <= c}

\* (created_at, id) < the cursor
Before(c) == {t \in Visible : c = NoCursor \/ t < c}

\* Mutant: no row is read to see whether there are more.
RowsOfPage(c, n) == Newest(n, Before(c))

Rows(c, n) == Newest(n + 1, Before(c))
Items(c, n) == Newest(n, Rows(c, n))

Oldest(S) == CHOOSE t \in S : \A u \in S : t <= u

\* Mutant: the cursor is the row too many.
CursorOfExcess(c, n) == IF Cardinality(Rows(c, n)) > n /\ Items(c, n) # {} THEN Oldest(Rows(c, n)) ELSE NoCursor

NextCursor(c, n) == IF Cardinality(Rows(c, n)) > n /\ Items(c, n) # {} THEN Oldest(Items(c, n)) ELSE NoCursor

-----------------------------------------------------------------------------
(* Rows of threads.                                                        *)

Row(t, to) == /\ shelf' = [shelf EXCEPT ![t] = to]
              /\ steady' = IF to = "mine" THEN steady ELSE steady \ {t}
              /\ moved' = IF to = "mine" THEN moved ELSE moved \cup {t}

\* POST /threads by somebody else.
StoreThread(t, to) == /\ shelf[t] = "unborn" /\ post[t] = "none"
                      /\ Row(t, to)
                      /\ UNCHANGED <<walker, hook>>

\* PATCH /threads/{id} with another tenant; created_at stays.
PatchTenant(t, to) == /\ shelf[t] \in {"mine", "others"} /\ shelf[t] # to
                      /\ Row(t, to)
                      /\ UNCHANGED <<walker, hook>>

DeleteThread(t) == /\ shelf[t] \in {"mine", "others"}
                   /\ Row(t, "gone")
                   /\ UNCHANGED <<walker, hook>>

-----------------------------------------------------------------------------
(* A walk.  Each page may ask for a number of its own.                     *)

TakePage(n) == /\ pages' = Append(pages, Items(cursor, n))
               /\ cursor' = NextCursor(cursor, n)
               /\ walk' = IF NextCursor(cursor, n) = NoCursor THEN "done" ELSE "walking"
               /\ UNCHANGED <<shelf, hook, moved>>

FirstPage(n) == /\ walk = "idle" /\ TakePage(n)
                /\ steady' = Visible

NextPage(n) == /\ walk = "walking" /\ TakePage(n)
               /\ UNCHANGED steady

-----------------------------------------------------------------------------
(* The cached first page, fetched with limit MaxLimit.                     *)

\* useQuery fetches when it mounts, and again when it pleases.
FetchList == /\ query.fetch = "none" /\ query' = [query EXCEPT !.fetch = "asked"]
             /\ post' = [t \in Threads |-> IF post[t] = "missed" THEN "known" ELSE post[t]]
             /\ UNCHANGED <<shelf, walker, steady, moved>>

ServeList == /\ query.fetch = "asked"
             /\ query' = [query EXCEPT !.fetch = "read", !.answer = Items(NoCursor, MaxLimit)]
             /\ UNCHANGED <<shelf, walker, steady, post, moved>>

ListArrives == /\ query.fetch = "read"
               /\ query' = [query EXCEPT !.fetch = "none", !.answer = {}, !.shown = query.answer, !.loaded = TRUE]
               /\ UNCHANGED <<shelf, walker, steady, post, moved>>

\* useCreateThread posts a thread in the reader's own tenant.
PostThread(t) == /\ shelf[t] = "unborn" /\ post[t] = "none"
                 /\ post' = [post EXCEPT ![t] = "asked"]
                 /\ UNCHANGED <<shelf, walker, steady, query, moved>>

ServePost(t) == /\ post[t] = "asked" /\ Row(t, "mine")
                /\ post' = [post EXCEPT ![t] = "stored"]
                /\ UNCHANGED <<walker, query>>

\* Mutant: a fetch that is under way is taken for the new one.
InvalidateIdle == /\ query.loaded
                  /\ query' = [query EXCEPT !.fetch = IF @ = "none" THEN "asked" ELSE @]

\* invalidateQueries drops a fetch under way and starts another, but not if it
\* is the first one: what that one read before is shown.
Invalidate == /\ query.loaded
              /\ query' = [query EXCEPT !.fetch = "asked", !.answer = {}]

\* onSuccess.
PostArrives(t) == /\ post[t] = "stored"
                  /\ \/ Invalidate /\ post' = [post EXCEPT ![t] = "known"]
                     \/ /\ ~query.loaded /\ UNCHANGED query
                        /\ post' = [post EXCEPT ![t] = IF query.fetch = "none" THEN "known" ELSE "missed"]
                  /\ UNCHANGED <<shelf, walker, steady, moved>>

-----------------------------------------------------------------------------
Next == \/ \E t \in Own : PostThread(t) \/ ServePost(t) \/ PostArrives(t)
        \/ \E t \in Threads : \/ DeleteThread(t)
                              \/ \E to \in {"mine", "others"} : (StoreThread(t, to) \/ PatchTenant(t, to))
        \/ \E n \in Limits : FirstPage(n) \/ NextPage(n)
        \/ FetchList \/ ServeList \/ ListArrives

Spec == Init /\ [][Next]_vars

-----------------------------------------------------------------------------
Listed == UNION {pages[i] : i \in DOMAIN pages}

\* A cursor is a thread that was listed.
TypeOK == /\ shelf \in [Threads -> {"unborn", "mine", "others", "gone"}]
          /\ walk \in {"idle", "walking", "done"}
          /\ pages \in Seq(SUBSET Threads) /\ (pages = <<>> <=> walk = "idle")
          /\ IF walk = "walking" THEN cursor \in Listed ELSE cursor = NoCursor
          /\ steady \subseteq Visible /\ moved \subseteq Threads
          /\ query \in [fetch : {"none", "asked", "read"}, answer : SUBSET Threads, shown : SUBSET Threads,
                        loaded : BOOLEAN]
          /\ post \in [Threads -> {"none", "asked", "stored", "known", "missed"}]

\* Whatever is stored, moved or deleted between two pages, and however long the
\* pages are, a thread that could be seen ever since the walk began is on a page,
\* or still before the cursor.
WalkMissesNothing == walk # "idle" =>
  \A t \in steady : t \in Listed \/ (walk = "walking" /\ t < cursor)

\* Every page is older than the pages before it: no thread is listed twice, and
\* the walk comes to an end.
NewestFirst == \A i, j \in DOMAIN pages : i < j => \A t \in pages[i], u \in pages[j] : u < t

\* Once the list has settled it shows the threads its own user created, unless
\* they were taken away or as many newer ones fill the page, also if it was
\* being fetched meanwhile; only the very first fetch can miss one, which the
\* next fetch makes good.
OwnThreadShown == query.loaded /\ query.fetch = "none" =>
  \A t \in Threads : post[t] = "known" =>
    \/ t \in query.shown \/ t \in moved
    \/ Cardinality(query.shown) = MaxLimit /\ \A u \in query.shown : u > t
=============================================================================
