# A TLA+ verification of rrcp

rrcp runs *assistants* inside chat threads. A thread is a log of events in Postgres; a message
addressed to an assistant, or an explicit invocation, starts a *run* of that assistant's handler; a
handler yields events, streams text, and may call other assistants; what happens is broadcast over
Socket.IO to React clients that keep a copy of the thread. The Python package is
`src/packages/rrcp-py`, the React package `src/packages/rrcp-react`; paths below are relative to
`src/packages/rrcp-py/src/rrcp` (py) or `src/packages/rrcp-react/src` (react).

The server is asynchronous throughout. One event loop runs every request, socket handler and run, and
control passes between them only at an `await`; the database decides what the loop cannot (two unique
indexes on `runs`). What is hard here is what happens *between* two awaits: a cancel or a time-out that
arrives there, a second caller that slips in, a row, a member list or a cursor that is used after
somebody changed it. The modules keep every await as a boundary between actions.

## Contents

1. [Inventory](#1-inventory)
2. [Modules](#2-modules)
3. [What the runs check](#3-what-the-runs-check)
4. [Bounds](#4-bounds)
5. [Fairness](#5-fairness)
6. [Where the code and its documents disagree](#6-where-the-code-and-its-documents-disagree)
7. [What is proved](#7-what-is-proved)
8. [What is not modelled](#8-what-is-not-modelled)
9. [Plan](#9-plan)

## 1. Inventory

| component | state | operations | talks to |
|---|---|---|---|
| run executor, `handler/executor.py` | rows of `runs`, `_tasks`, `_chain_depths`, one task per run | `execute`, `cancel`, `invoke_from_handler`, `_drive` | store, `publish_event`, handlers |
| handler streams, `handler/stream.py`, `handler/send.py` | per stream a buffer; per run the open context managers | `__aenter__`, `append`, `__aexit__`, the event builders | broadcaster, `publish_event` |
| message routing, `server/thread_server.py`, `protocol/recipients.py`, `server/rest/messages.py`, `server/rest/invocations.py` | the log, members, the table of handlers | `publish_event`, `_auto_invoke_recipients`, `POST /messages`, `POST /invocations` and their socket twins | store, executor, broadcaster, `authorize` |
| handler context, `handler/context.py` | the thread the run was started with | `events`, `query_event`, `invoke`, `update_thread` | store, executor |
| event feed, server side, `socketio/server.py`, `broadcast/` | rooms of a socket, cache of namespaces by sid | `thread:join` with replay, `thread:leave`, broadcasts | store, clients |
| event feed, client side, react `hooks/useThreadSession.ts`, `store/threadStore.ts`, `provider/ThreadProvider.tsx` | events by thread, session status, socket | join from the last event, `addEvent`, `setEventsBulk`, leave | server |
| Postgres store, `store/postgres/` | tables `threads`, `events`, `runs`, `thread_members` | create, update, list with cursors | everything on the server |
| threads and tenants, `server/rest/threads.py` | the row of a thread with its tenant | create, list, patch (announces a change of tenant, shows the row), delete | store, `publish_event`, namespaces |
| membership, `server/rest/members.py`, react `hooks/useThreadMembers.ts` | `thread_members`, the client's list | add, remove, list; each change broadcasts the list read after it | store, broadcaster |
| namespaces, `server/namespace.py`, `socketio/server.py` | `_sid_namespaces`, the session of a sid | derive, parse; connect, refuse, disconnect | socket layer, broadcaster |
| lists of threads, `store/postgres/store.py`, react `hooks/useThreads.ts`, `hooks/useCreateThread.ts` | the rows in the order of `(created_at, id)`, a query cache | `list_threads` from a cursor; fetch, create, invalidate | store, REST client |
| analytics, `analytics/collector.py` | a buffer | track, flush | executor |
| authentication and authorization, `server/auth.py`, `server/rest/deps.py` | none | callbacks of the application | every handler |
| mentions, uploads, other client hooks, `rrcp-ts` | React state | hooks and pure functions | REST client |

What makes each of them correct, and what is hard about it:

* **Run executor.** At most one run of an assistant is active in a thread and at most one carries a
  key, although `execute` looks, then inserts, with awaits in between; the loser of a race must find
  the winner. The handler works only while the row holds the assistant. A finished run is over before
  it says so. Whatever cuts a driver off — a cancel in any clause of its `try`, a time-out, a store or
  broadcast failure, a crash, the deletion of the thread — the bookkeeping must not lie: a driver that
  lives can be cancelled, a run that ended never comes back. A cancel before the first step of a task,
  or a second one inside an `except` clause, are the cases no test reaches.
* **Handler streams.** A client must see start, deltas and end of a stream in that order, an event
  only for a stream that ended cleanly, and no placeholder left open by a run that has ended. The
  difficulty is that `__aexit__` itself awaits, that an exception may arrive inside `__aenter__`, where
  there is no `__aexit__` yet, and that a generator suspended at a `yield` is not told of a cancel.
* **Message routing.** Every assistant a message names is called once and has a run that outlives the
  storing of the message, the message is stored before the run that answers it looks for it, and
  assistants that answer one another stop at the cap. Members, runs and depths change between the steps.
* **Event feed.** Replay and live events must meet: nothing published while a join is under way may
  fall between the two. Publishers overtake each other, a leave is not waited for, sockets are lost.
* **Threads and tenants, namespaces.** What is published of a thread goes to the namespace of its tenant,
  and nobody hears of a tenant that is not theirs. But requests, drivers and sockets all keep the thread
  they read earlier while somebody else moves it; the tenant of a row need not have a namespace at all;
  and the cache that remembers the namespace of a sid is written when an event *arrives*, which may be
  after the disconnect that cleaned it.
* **Membership.** A change of members is one statement, the list that is broadcast another, the broadcast
  a third step, and the snapshot a client fetches after its join comes on another connection: the four
  can pass each other. `add_member` inserts, then selects, and asserts that it found something.
* **Lists of threads.** A cursor is a place in an order, not a row. Between two pages rows appear on both
  sides of it (`created_at` is taken before the insert), change their tenant and disappear. A list that
  is being fetched while its own user creates a thread must not hide it.

## 2. Modules

| module | what it is |
|---|---|
| `AssistantSlot` | abstract specification: an assistant of a thread is held by one run at a time |
| `RunRecord` | abstract specification: what rows and log say of the runs of a thread, and in which order |
| `RunExecutor` | the executor; shown to implement `AssistantSlot` and `RunRecord` |
| `RunExecutorProofs` | theorems about `RunExecutor` |
| `StreamContract` | abstract specification: what the streams of one run promise a client |
| `RunStream` | one run whose handler streams: generator, context managers, driver, wire; shown to implement `StreamContract` |
| `RunStreamProofs` | theorems about `RunStream` |
| `MessageRouting` | messages, invocations, recipients, members, chains and what handlers read; proved to implement `AssistantSlot` |
| `MessageRoutingProofs` | theorems about `MessageRouting` |
| `ThreadFeed` | publishers, the room, the join with replay, one client |
| `ThreadFeedProofs` | theorems about `ThreadFeed` |
| `Namespaces` | tenants, paths, `derive_namespace_path` and `parse_namespace_path` |
| `TenantRouting` | one thread that changes its tenant, who publishes about it, who hears it; extends `Namespaces` |
| `TenantRoutingProofs` | theorems about both |
| `ThreadView` | members and row of a thread: the requests that change them, and the client that shows them |
| `ThreadViewProofs` | theorems about `ThreadView` |
| `ThreadPages` | lists of threads, walked page by page, and the cached first page |
| `ThreadPagesProofs` | theorems about `ThreadPages` |
| `MCRunExecutor`, `MCRunStream`, `MCMessageRouting`, `MCTenantRouting` | budgets, drafts, tenants and symmetries of the instances TLC checks; the other modules need none |

**How they compose.** `MessageRouting` does not repeat the executor: its `Execute` answers with the
assistant's active run or inserts one, in one step. That is what `AssistantSlot` says of the executor,
and `RunExecutor` is shown to implement it (by TLC on an instance, by proof for all); `MessageRouting` is
proved to hand out runs in no other way. `RunRecord` and `StreamContract` are what readers are
promised, of the database and of the wire, with the tasks, requests and interrupts left out. In the same way
`RunExecutor` takes a handler as something that works for a while, invokes, and returns or raises;
`RunStream` opens that box. `ThreadFeed` starts where `publish_event` ends: it follows one socket in one
room, while `TenantRouting` asks *which* rooms an event is sent to when the thread, its publishers and its
listeners disagree about its tenant. `ThreadView` follows what else the same client shows of a thread,
and takes from `ThreadFeed` that a socket delivers in order. `MessageRouting`, `ThreadView` and
`ThreadPages` each model the statements of the store they use.

### RunExecutor

State: the rows (`status`, `assistantOf`, `keyOf`, `exists` for the thread row they cascade from);
`rpc`, `ask`, `answer` — where each requester is inside `execute`, and with which arguments; `task` —
where each driver is inside `_drive`; `tasks` and `chainDepths`, the two dictionaries; `log`, the
lifecycle events of each run. Requesters are external calls *and* running handlers, so nested
invocations race with the outer ones.

One action per store call of `execute` (`FindByKey`, `FindActive`, `CreateRun`, `RaceActive`,
`RaceKey`) and one for its end (`Spawn`: the two dictionary entries and `create_task`). `CreateRun`
fails with the violation the two indexes raise, or with a foreign key violation when the thread is
gone, which `execute` does not catch. One action per await of `_drive`; `Handler(pc)` and
`Interrupted(pc)` say which clause an error or a cancellation at that await continues in. `Cancel`
sees a task that has not taken its first step (`ready`): it never enters `_drive`, so neither `except`
nor `finally` runs. `DriverFault` is a failing store call, broadcast or `analytics.flush()`;
`Crash` drops the memory and keeps the rows, as a restart does; `DeleteThread` cascades.

### RunStream

`gen` is where the handler's generator is, `open` the stack of streams it is inside of, `exc` what
travels through it; `wire` is what a client sees. `Emit` puts the frame on the wire and the generator
then waits. An interrupt (`Cancel`, `Timeout`, `Fault`) strikes before the frame is out or behind it:
`Waiting` finds it sent (or finds the handler at an await of its own, which a call that fails before it
sends `stream:start` is indistinguishable from); `DeltaUnsent` leaves the text in the buffer only,
`EndUnsent` a stream whose context manager is gone and whose end nobody will send, `FinalUnsent` an event
in the log that is not broadcast. `Suspended` is the generator at a `yield`: the driver is interrupted,
the generator abandoned and closed later by the loop (`Finalize`).

Behind `_consume` the driver has three places, `update`, `publish` and `announce` (the event is out, the
call has not returned). `CutDriver` strikes at each: as long as the driver is on its way to `completed` it is
inside the `try`, so that an `except` clause updates the row and publishes again; inside an `except` clause
it is abandoned. Hence a client may see `run.completed` and then one failure or cancellation, which is what
`StreamContract!EndRun` allows and no more.

### MessageRouting

`msg[i]` carries a message with the progress of its `publish_event`: written, recipients checked
against a list of members read there (`snap`), stored, then one turn of the loop of
`_auto_invoke_recipients` per recipient. `Normalize` is translated with what it drops: blanks, the
author, repetitions. `run[r]` carries the depth `execute` was given and what `query_event` answered
from the page it read. An interrupted run cuts off what it was publishing, and an append under way
may or may not take effect (`CutOff`). The request that sends a message may fail just so, in the store, in
the broadcast or in an `execute` that raises (`Abandon`).

A request and the runs it starts carry the idempotency key: `Execute` answers with the active run of the
assistant, or with the run that carries the key (`Carrying`), whoever's it is, and the loop of an
invocation (`InvokeNext`) hands one key to every turn. It may also raise, and then the invocation is
refused half-way. `authorize` is a callback of the application, so whether it
refuses is a free choice. `ended`, `asked` and `page` are history variables: they record the log a
run outlived, and steer nothing.

### ThreadFeed

Events are numbered by `created_at`, which is taken where an event is built; appending and
broadcasting come later, so publishers overtake one another. A join enters the room, then reads the replay, then acknowledges;
`channel` is what the server wrote to the socket, in order. The client joins from the largest
`created_at` it holds, and does not wait for its leave.

Neither a publisher nor a join need get to its end. `CutOff` is a run that is cancelled or timed out between
the append and the broadcast: its event is `stored` for good and sent to nobody. `Refuse` answers a join with
an error (thread, namespace, membership, `authorize`), on which the session goes to `error`; `Raise` is
an exception of the store, of `authorize` or of the parsing of the cursor: no answer is written, a room that
was entered is kept, and the session goes on joining, since `emitWithAck` waits without a timeout.

### Namespaces and TenantRouting

A tenant is a function from some keys to values; `Legal` are the values `validate_namespace_value`
accepts, and a path may be padded with slashes `parse_namespace_path` drops. `Derive`, `Parse`,
`Derivable` and `Parseable` are the two functions of `namespace.py` and the conditions under which they
raise.

`past` holds every tenant the row has had, so that "the thread as somebody read it" is a number, a
*version*. `actor[a]` is a request or a run: `held` is the thread the driver and its streams publish with,
which nothing refreshes, `known` that of its context, which `update_thread` does. The actions of an actor
are the awaits of `HandlerContext.update_thread` and of the PATCH route: the `UPDATE`
(`UpdateTenant`, `UpdateMetadata`), the append of `thread.tenant_changed` (`AnnounceTenant`), its
broadcast (`Broadcast`), `publish_thread_updated` (`ShowThread`); and `PublishEvent`, `StreamFrame` with
what it held. A broadcast for a tenant without a namespace raises *after* the event is stored.

`sock[s]` is a sid: `Connect` caches its path, `Refuse` and `Accept` are the ends of `on_connect`,
`BeginJoin` and `EnterRoom` the two sides of the awaits in `on_thread_join`, `LeaveRoom` and `Disconnect`
the ways out. `BeginJoin` may start for a socket that is gone: its task was created before.
`heard` and `shown` are what the sockets received; `stored` in a log entry is a history variable, the
sockets that were in the room when the event was stored.

### ThreadView

`past` and `patches` number the states of `thread_members` and of the thread row. `req[r]` is a POST or
DELETE on the members or a PATCH, from its gate over its statements (`InsertMember`, `SelectMember`,
`DeleteMember`, `ListMembers`, `PatchThread`) to `BroadcastChange`. The client mounts, joins, and on the
acknowledgement starts two fetches (`ReceiveAck`); `ServeFetch` reads, `FetchArrives` answers on a
connection of its own, so that it can pass what is in `channel`, and `FetchFails` is a fetch that is refused
or lost at any point: `useThreadSession` swallows it and nothing asks again. `EnterRoom` and `Acknowledge`
are the two sides of the await in `on_thread_join`, so that a change can be broadcast into the room before
the acknowledgement is written. `excused` and `missed` are history variables: the
registers in which a change overlapped another, or a snapshot, and those whose snapshot failed in this session
and of which nothing was shown since. What the overlaps do is in section 6. A join that is overtaken by
its leave, refused or never answered is `ThreadFeed`'s matter: here an unmount takes the socket out of the
room, and what a session shows is asked of joined ones.

### ThreadPages

A thread is its place in the order of `(created_at, id)`. `Rows` is the statement with its `LIMIT n + 1`,
`Items` and `NextCursor` what `list_threads` makes of it; `FirstPage` and `NextPage` ask with any page
length. `StoreThread`, `PatchTenant` and `DeleteThread` happen between pages. The second half is the query
cache: `FetchList`, `ServeList`, `ListArrives` are one fetch of `useThreads`; `PostThread`, `ServePost`,
`PostArrives` one mutation of `useCreateThread`, whose `onSuccess` invalidates: that cancels a fetch under
way, unless nothing was loaded yet. `steady` and `moved` are history variables.

## 3. What the runs check

| run | checks | and shows |
|---|---|---|
| `executor_safety` | `TypeOK`, `HandlerExclusion`, `FinishedMeansFree`, `LogShape`, `OneRunPerKey`, `AnswerServes`, `LiveDriverCancellable`, `SlotSpec`, `RecordSpec` | two outside calls and nested ones race; a cancel, a store failure, a crash and a deletion strike anywhere: exclusion, bookkeeping and the order of the log hold, and the executor implements `AssistantSlot` and `RunRecord` |
| `executor_liveness` | `DriverEnds`, `ExecuteEnds`, `RunEnds` | nothing in the executor waits for ever; without a mishap a run that was inserted ends |
| `executor_status_rewritten`, `executor_cancelled_early` | `TerminalIsFinal`, `DoneMeansEnded` | violated: see section 6 |
| `stream_frames` | `TypeOK`, `FewOrphans`, `WholeUnlessInterrupted`, `ContractSpec` | under two interrupts anywhere, before a frame is sent, behind it, in the closing of a generator and in the driver's own updates and events, the run implements `StreamContract` and leaves no more placeholders behind than it was interrupted; a run that is not interrupted leaves no stream open and loses no event, whatever its handler raises |
| `stream_never_ended` | `ClosedBeforeTerminal` | violated: see section 6 |
| `routing` | `TypeOK`, `CalledOnce`, `TriggerIsFound`, `AddresseeHasRun`, `InviteeHasRun`, `ChainBounded` | members change, runs end and requests fail between every two steps of a publish, and every addressee is called once, has a run that outlives the message, and finds it; so does every invitee, unless a run carries the key of the invocation; chains stop |
| `routing_oldest_page` | `QueryWalksFromLatest` | violated: see section 6 |
| `feed` | `TypeOK`, `ReplayMeetsLive`, `Delivered`, `JoinEnds` | behind the cursor a rejoin misses nothing that is broadcast meanwhile; who stays joined gets every event whose publisher is not cut off before its broadcast; no join hangs whose handler does not raise |
| `tenants` | `TypeOK`, `NoCrossing`, `SameTenancyMeets`, `CacheFits`, `MovesAnnounced` | a thread moves between tenants, with and without a namespace, while two actors publish with what they read and a socket connects, joins, leaves and is lost: nothing reaches a namespace it does not belong to, who belongs there hears it, the cache is clean, a change is announced |
| `view` | `TypeOK`, `SettledViewIsTrue`, `MembershipAnswers`, `ViewMovesForward`, `ChangesAreShown` | short of overlapping changes and failed snapshots the client's members and row are those of the database in the end, and short of overlaps they never go back; the answers of membership requests are true of a moment at which they ran |
| `pages` | `TypeOK`, `WalkMissesNothing`, `NewestFirst`, `OwnThreadShown` | a walk lists every thread that was there all along, once, whatever changes between its pages; a settled list has the threads its user created |

Each property of a passing run has a mutant: an operator in the module that changes one mapped
definition the way a plausible bug would (the index on active runs missing, `run.completed` published
before the row is written, the cap off by one, a refusal that answers nothing), and under which TLC
finds that property violated. They are marked `Mutant:` and no specification uses them.

Deadlock checking is off where the modelled system comes to rest: all calls, messages, events or
mishaps the bounds allow are used up, and a server with nothing to do is not stuck. That nothing
waits for ever is what the liveness properties say.

## 4. Bounds

| run | bounds | why they are enough |
|---|---|---|
| executor | 2 calls, 2 runs, 2 assistants (1 for liveness), 1 key, cap 1, one mishap of each kind (no store failure for liveness) | A race has two sides, and with two runs each can be the winner, the other's nested callee, or what the other finds. With two assistants one handler can work while another's is refused. One mishap of each kind reaches every clause of `_drive`, also two in a row (a cancel, then a failure in its `except` clause). `SpareRun` bounds calls, not interleavings: a coroutine is let into `execute` only when an id is left for it to insert |
| executor, violations | 1 assistant, 1 call, 1 cancel | the smallest instance that shows each |
| streams | 2 streams, 1 delta each, 1 yield, 2 interrupts | two streams nest or follow one another; the second interrupt hits the clean-up of the first, or the driver's `except` clause |
| routing | 2 messages, 1 request, 1 key, 2 runs, 2 assistants, 1 person, 1 change of members, cap 1, page 2 | a message by a person and one by an assistant in either order; a draft with a blank, a repetition, both assistants and a person in it, so that whoever sends it stands in it (`Normalized` is proved for every list); an invocation of both assistants, with the key and without; the cap is reached and one more link is tried. The page is as long as the log: that the answer goes wrong beyond it is `routing_oldest_page` |
| feed | 3 events, 2 mounts, 1 lost socket, cap 1 | one event to give the cursor, two to be reordered behind it; the second mount is the rejoin; the cap cuts a replay of two |
| tenants | 2 actors, 1 socket, 2 changes of tenant, 2 events; 2 namespace keys; tenants with either legal value of the first key, with an illegal one, and without the second key; an identity with a key that is for no namespace; 4 paths | a publisher that holds the old tenant and one that moves the thread; there and back again, so that versions differ and tenants do not; a path of one segment, a padded one, one of each namespace. Sockets do not meet each other, so one is enough; the theorems of section 7 are for any number |
| view | 2 people, 2 requests, 2 mounts | an add against a remove of the same person, a change against a snapshot, a patch against either; the second mount finds the view of the first |
| pages | 3 threads, 2 of them the user's own, pages of 1 or 2 | a page, the row too many, and one more thread stored behind, on or before the cursor; the own thread and as many newer ones as fill the page |

The bounds are named constants (`MaxMessages`, `MaxJoins`, `Budget`, ...) and stand in guards of the
actions that start something new, never in the middle of one.

## 5. Fairness

`RunExecutor!Fairness`: weak fairness of every coroutine inside `execute` and of every driver. The
event loop runs each ready coroutine, asyncpg answers or raises, and `asyncio.wait_for` with
`run_timeout_seconds` bounds the one wait that is not the code's own, that for the handler:
`Timeout(r)` stays enabled as long as the handler works, so `Drive(r)` needs no more than weak
fairness. There is no fairness for mishaps, for new calls or for what a handler invokes.

`ThreadFeed!Fairness`: an event that was appended is broadcast, the server serves a join and a leave, and the
socket carries what was written to it. None of this is guaranteed against a mishap: `CutOff` and `Raise`
disable what would have come, so weak fairness asks nothing of a publisher that is cut off or a handler that
raised, and the properties name those cases. An event that was built need not be appended. Mounting,
unmounting and losing the socket are free.

`ThreadView!Fairness`: requests, the join and the socket go on, and a fetch is answered unless it fails;
failing, mounting, unmounting and new requests are free. It is stated over `system`, all variables but the history
variable `excused` (what is `missed` changes only in steps of the client), so that recording history is
never taken for progress.

`RunEnds` excludes behaviours with a mishap: a run that is cancelled before its first step, or is cut
off inside an `except` clause, really stays active (section 6), and so do the rows a crash leaves
behind, which nothing looks at when the server starts again.

## 6. Where the code and its documents disagree

Each is a `violation` run that checks the quoted statement and nothing else.

* **`executor_status_rewritten`** — `run.completed` is published inside the `try`
  (`handler/executor.py:218`). A cancel, or a broadcast that fails, after the row says `completed`
  enters an `except` clause that writes `cancelled` or `failed`, and publishes a second terminal event.
  (`RecordSpec` and `ContractSpec` allow exactly this one correction.)
* **`executor_cancelled_early`** — a task cancelled before its first step never enters `_drive`. Its row
  stays `pending`, its entry stays in `_tasks`, and every later call for the assistant is answered with
  the dead run. The test quoted waits for the handler to start before it cancels; nothing makes a caller of
  `cancel` do so.
* **`stream_never_ended`** — an interrupt inside the broadcast of `stream:start` leaves a stream without an
  end: `__aenter__` has not returned, so there is no `__aexit__`.
* **`routing_oldest_page`** — `query_event` walks backwards from the end of the *oldest* page of the log.

More was seen that has no run of its own. The modules show each as a case their properties have to
exclude, and the hazards list it with a note:

* a keyed call that is answered with another active run stores its key nowhere; repeated after that run,
  it creates a new one (`executor.py:108`);
* a key used again for another assistant is answered with the first one's run (`executor.py:105`), although
  the client documents a 409 for it (`ThreadConflictError`, `client/ThreadClient.ts:59-63`), which nothing on
  the server raises. An invocation of several assistants passes its one key to every `execute`
  (`rest/invocations.py:72`, `socketio/server.py:335`), so that the second is not run at all while the request
  succeeds. `AnswerServes` speaks of calls without a key only, and `InviteeHasRun` leaves out invocations whose
  key a run carries;
* a time-out reaches a stream as a `CancelledError`, and its end says `cancelled` (`stream.py:119`);
  a cancel between `stream:end` and the append loses the final event (`stream.py:77`); a `stream:end` that
  fails before it is sent leaves a placeholder, with its text (`stream.py:77`, `stream.py:87`);
* a run that is cut off between the append of an event and its broadcast leaves an event no joined client
  hears of (`thread_server.py:151`);
* when the handler of `thread:join` raises, no acknowledgement is sent and the session stays joining
  (`socketio/server.py:205-230`, `client/ThreadClient.ts:271`);
* when the first fetch of a joined session fails, it shows no members or no row until they change
  (`useThreadSession.ts:46`); the repository's own test accepts that;
* a first join has no cursor and is answered with nothing, and no hook loads the log (`server.py:225`,
  against `streaming-design.md:75`); a rejoin does not ask for events stamped before its cursor and
  broadcast after it (`useThreadSession.ts:27`);
* a message to an assistant whose run has already read the thread starts nothing (`thread_server.py:202`);
* an assistant removed from the thread between the check of the recipients and the call is called all the
  same: the call looks at the list the check read (`thread_server.py:137`), although the plan means to skip
  it (`docs/plans/2026-04-12-recipients-impl.md:481`);
* two overlapping changes of members may be broadcast in the wrong order, and the older list stays
  (`members.py:43`); a snapshot fetched after a join may pass a newer update and replace it
  (`useThreadSession.ts:42`);
* a thread may be stored under a tenant no namespace can be derived from; every later publish stores its
  event, then raises (`rest/threads.py:106`);
* a path with slashes too many is accepted by `on_connect`, joins, and is never sent anything
  (`namespace.py:50`);
* whether a tenant changed is decided against the tenant its author read, so two authors can announce a
  change that was none, or none that was one; and a run cut off after its update announces nothing
  (`executor.py:177`);
* an event dispatched after the disconnect of its socket leaves an entry in `_sid_namespaces` that
  nothing removes (`socketio/server.py:80`);
* a thread created while its list is fetched for the first time is missing until the next fetch
  (`useCreateThread.ts:17`).

## 7. What is proved

Every safety invariant and action property a passing run checks is also a theorem, for every value of the
constants; the runs are instances of it.

`RunExecutorProofs` proves, for every set of runs, calls, assistants and keys and every budget of
mishaps, from `IdsAssumption` (ids of different kinds are different, there is an assistant) and
`BoundsAssumption` (bounds are natural numbers):

| theorem | says |
|---|---|
| `Invariance` | `Spec => []IInv` |
| `TypeCorrect`, `Exclusion`, `FinishedIsFree`, `KeyIsUnique`, `Cancellable` | the invariants `TypeOK`, `HandlerExclusion`, `FinishedMeansFree`, `OneRunPerKey`, `LiveDriverCancellable` |
| `NoReactivation` | the action property `NeverReactivated`: a finished run is never active again |
| `LogShaped`, `AnswersServe` | the invariants `LogShape`, `AnswerServes` |
| `SlotImplemented`, `RecordImplemented` | `Spec => SlotSpec` and `Spec => RecordSpec`: the executor implements `AssistantSlot` and `RunRecord` |
| `DatabaseAgrees` | `Spec => []LogAgrees`: a failure or a cancellation in the log is the status of the row |
| `DriversAdvance`, `RequestsAdvance`, `HandKept` | the action properties `DriverForward`, `RequestForward`, `StaysInHand`: the safety parts of `DriverEnds`, `ExecuteEnds`, `RunEnds` |
| `DepthsBounded` | `Spec => [](DepthBounded /\ InsideHandler)`: the depths the executor keeps stay below the cap, and only a handler at work is inside a nested `execute` |

**The argument.** `HandlerExclusion` is not inductive: it speaks of drivers, while the lock is the
unique index, which speaks of rows. The bridge is `InvHeld` — between the first step of a driver and
its last update the row is active, as long as the thread exists — and `InvExclusive`, which counts as
*occupying* the assistant both an active row and a working handler. When a thread is deleted under a
handler the row is gone and the handler still works; what saves exclusion then is that no row can be
inserted any more (`InvRows`: without the thread every row is absent or deleted). That a driver is
started once needs `InvSpawn`: between the insert and `create_task` the requester is the only one with
that run as its answer, and the run has no driver. `InvOver` says that past its last update a driver's
row is terminal or gone, which gives `FinishedMeansFree`: the row is written before the event. `OneRunPerKey`
and `LiveDriverCancellable` complete `IInv`.

`NextIInv` takes the disjuncts of `Next` one by one. Actions that share a shape share a lemma:
`LookupFrame` for the look-ups, `UnwindFrame` for whatever throws into a driver, `UpdateStep` and
`PublishStep` for the eight updates and publications, parameterised by their program counters. The
refinement maps a working handler to `working`, an active row without one to `holding`, an absent row
to `new`, everything else to `left`; `NextSlot` shows each step to be a step of `AssistantSlot` or a
stutter, with `IInv` where the mapping needs it (a new run finds its assistant free; a handler starts
only from `holding`).

`LogShape` and `AnswerServes` are proved on top of `IInv`. `LogFits` is the log of a run as a function of
where its driver is: empty before the first event, `run.started` alone until `run.completed`, and once
`run.failed` or `run.cancelled` is there the driver is past every publication; and whoever is about to
spawn a driver has a run with an empty log, so nothing is appended behind an end. `AnswerInv` says that whoever has an answer holds an inserted row of the
assistant asked for or, if the request has a key, one with that key; a row never changes assistant or key,
so it goes on serving.

For `RunRecord`, `RowFits` adds what the *row* says at each place of the driver: `pending` until the update to
`running`, that until the next update, and at every publication of an end the very status it names. A
driver thrown out of its `try` has a row that is active or, if the broadcast of `run.completed` was cut
off, `completed`; hence the one correction `Revise` allows. `DatabaseAgrees` then needs
nothing of the executor any more: it is an invariant of `RunRecord`, and `Spec` implements that.

Termination without fairness is a rank. `DriverRank` counts the awaits a driver has ahead of it at most,
`StepsLeft` puts a driver that may still be started above them all, and each action, the interrupting ones
included, lowers the rank of the one driver it moves; that nobody is started twice is `InvSpawn` again.
`StaysInHand` is the other half: while `left` is the whole budget, a driver reaches its `finally` clause
only with an ended row (`FlushEnded`), and the request that inserted a run is not dropped before
`create_task`. It is about clients' calls, since the time-out of a handler does drop what *it* inserted.
`DepthInv` carries the cap through nested calls: the depth of a run that waits in `execute` for a message
is below the cap, and cannot change until it returns.

`MessageRoutingProofs` proves, for every set of people and assistants, all drafts and invitations, every
cap and page size and all bounds, from `RoutingAssumption` (people, assistants and blanks are
different; bounds are natural numbers, the cap and the page are not zero):

| theorem | says |
|---|---|
| `Normalized` | `Normalize` returns no blank, not the author, nobody twice |
| `RoutingInvariance` | `Spec => []RInv` |
| `RoutingTypes`, `OneCallPerMessage`, `TriggerReadable`, `AddresseeServed`, `InviteeServed`, `ChainsEnd` | the invariants `TypeOK`, `CalledOnce`, `TriggerIsFound`, `AddresseeHasRun`, `InviteeHasRun`, `ChainBounded` |
| `PublishersDriven` | `Spec => []PublishersDrive`: a run publishes one message at a time, and none once it is over |
| `RoutesThroughSlot` | `Spec => SlotSpec`: runs are handed out as `AssistantSlot` allows |

**The argument.** The properties speak of a message that is done, or of a run that exists; what must be
kept is what holds in the middle of the loop. `InvServed` says that every assistant behind the place
where the loop is has a run that outlives the message, and `InvInvited` the same of explicit requests,
where `Execute` may have answered with a run that carries the key instead (`Carrying`);
when the loop ends they become `AddresseeHasRun` and `InviteeHasRun`. `InvCause` says of a run that a
message called that its assistant stands on the list *before* that place: since nobody stands on the
list twice (`InvNames`, from `Normalized`) and the next turn is for the next place, no run of that
message is called for the same assistant again, which is `CalledOnce`. `InvCause` also says that the
run's trigger is the author of a stored message that names it, so that a page as long as the log
contains it, and the newest match on the page is no older: `TriggerIsFound`. `InvTurn` keeps a message
that is calling below the cap, and the depth it is compared with does not change, because a run keeps
its depth when it ends and is there before it writes anything (`InvWriter`): `ChainBounded`.

The step from one state to the next is cut in two. `Facts` says what any action may do to messages,
runs and requests, without saying which action it is; `Preserved` shows that such a step keeps `RInv`,
one lemma for each part, and one lemma per action shows that the action is such a step (`NextFacts`).

`RunStreamProofs` proves, for any set of streams and any bounds on deltas, yields and interrupts, from
`StreamAssumption`:

| theorem | says |
|---|---|
| `StreamInvariance` | `Spec => []IInv` |
| `StreamTypes`, `WholeRuns`, `OrphansCounted` | the invariants `TypeOK`, `WholeUnlessInterrupted`, `FewOrphans` |
| `OrderOnTheWire`, `EventFollowsEnd` | `StreamOrder` and `FinalFollowsEnd`: the frames of a stream come in order, its event behind a clean end |
| `ContractKept` | `Spec => ContractSpec`: the run implements `StreamContract` |

**The argument.** The wire of a stream is a function of where its context manager is. `InvOpen` says that a
stream the generator is inside of was started and has not ended, and stands on the stack once, so that its
next frame is a delta or the end; `InvCur` says the same of a stream that is being entered or left, where no
`__aexit__` is responsible for it. That is all the order needs, and it holds under any interrupt.
`InvWhole` is for runs without one: a stream that was started has ended, is open, or is being entered, and the
driver publishes its terminal event only when the generator is through. Each `Emit` puts its frame
behind all others, so what was said about the order of earlier frames stays true.

A stream becomes an orphan in two ways: an interrupt finds `__aenter__` waiting for its broadcast, or it
comes between the end of the `async with` and the sending of `stream:end`. Either way one stream joins the
orphans and `interrupts` grows by one (`OrphansGrow`, `InvOrphans`), and nothing is ever sent in that stream
again. `InvAfter` and `InvEvents` add that only the clean-up of an abandoned generator follows the terminal
event, and that an event is sent once; `InvEnds` says which terminal events are on the wire at each place of
the driver: none up to `publish`, at most the `run.completed` that was cut off in an `except` clause. From
these, `ContractFrame` reads a frame put on the wire as one step of `StreamContract`: the phase of a stream
is computed from the frames the client has received.

`ThreadFeedProofs` proves, for any number of events, mounts and lost sockets and any cap, from
`FeedAssumption`:

| theorem | says |
|---|---|
| `FeedInvariance` | `Spec => []FInv` |
| `FeedTypes`, `ReplayMeets` | the invariants `TypeOK`, `ReplayMeetsLive` |
| `AnswersCome` | `Spec => []AnswerComes`: a session that joins has its join at work or an answer, which may be a refusal, in its socket, unless the handler of the join raised; the safety part of `JoinEnds` |
| `NothingSlipsPast` | the action property `KeptOnItsWay`: an event passes a client that listens only if its publisher is cut off; the safety part of `Delivered` |

**The argument.** Only the latest join of a mounted client counts (`Live`). `InvRoom`: from the moment such a
join enters the room the socket is in it, and no leave is pending that could take it out. `InvMeet`: from
the moment it has read the replay, every event the log has behind its cursor is in the replay, in the store,
on its way, or not broadcast: not yet, and then `InvRoom` puts it on the way, or never, since its
publisher was cut off. What is on its way when the
acknowledgement is written arrives before it, and `InvJoined` says that a joined client has taken the replay. That a replay
which was not truncated holds all there is (`UncutReplay`) is a lemma about cardinalities. If the order of `enter_room` and the read were
swapped, `InvMeet` would have nothing to begin with. `InvRoom` is also why no event slips past a client that
listens: a broadcast finds the socket in the room. For `AnswersCome`, `InvAnswer` follows the latest join from
`thread:join` to its answer, unless it raised; only the client takes that off the channel, and then it has
joined or was refused.

`ThreadViewProofs` proves, for any people and any number of requests and mounts, from `ViewAssumption`:

| theorem | says |
|---|---|
| `ViewInvariance` | `Spec => []VInv` |
| `ViewTypes`, `SettledShowsTruth`, `AnswersWereTrue` | the invariants `TypeOK`, `SettledViewIsTrue`, `MembershipAnswers` |
| `ViewNeverGoesBack` | the action property `ViewMovesForward` |

**The argument.** A register that is not excused is changed by one request at a time and not fetched meanwhile
(`Apart`, which every step restores because `excused` records the overlaps of the state it leads to). Hence a
change about to be broadcast and a snapshot that was read are the newest version (`Newest`), what is on its
way is in order and no older than what is shown (`Ordered`: nothing goes back), and once nothing
else is waited for the last message on its way, or if there is none the view, is the newest (`Settled`). A
snapshot that fails leaves its register `missed`; the next change that arrives is the newest by the same
argument, and from then on the register counts again.
`Settled` needs that whoever takes a view for final is in the room (`InvRoom`), since otherwise a broadcast
passes it by. Requests share one frame: `Moves` says what a step of a request may write and broadcast, and
each statement is shown to be such a move. For `MembershipAnswers` the history matters: who was a
member when the insert met a conflict and is none when the row is selected was removed in between
(`RemovedMeanwhile`, by well-founded induction on how long ago they were seen).

`ThreadPagesProofs` proves, for any number of threads, any page lengths and any set of own threads:

| theorem | says |
|---|---|
| `PagesInvariance` | `Spec => []PInv` |
| `PagesTypes`, `WalkComplete`, `WalkDescends`, `OwnThreads` | the invariants `TypeOK`, `WalkMissesNothing`, `NewestFirst`, `OwnThreadShown` |

**The argument.** The lemmas about `Newest` are about cardinalities: a page is upward closed in what it is
taken from (`NewestIsTop`), a page that is not full is everything (`ShortPageIsAll`), and a page taken from
a page with one row more is the page itself (`LongPageIsAll`). Together they give `PageFits`: whatever was
before the cursor is on the page or before the next cursor, and the next cursor is on the page. `PInv` adds
to the properties that everything listed is no older than the cursor, which makes `NewestFirst` inductive.
For the cached page it says what an answer under way contains: every thread that is `known`, unless it was
taken away or newer ones fill the page; `Invalidate` drops an answer that could be older.

`TenantRoutingProofs` proves, for any namespace keys and legal values, any tenants, actors and sockets, and
any bounds, from `NamespaceAssumption` (namespace keys are not repeated) and `RoutingAssumption`:

| theorem | says |
|---|---|
| `DerivedIsParsed`, `ParsedIsDerived` | deriving and parsing are inverse, but for the padding |
| `TenantInvariance` | `Spec => []IInv` |
| `TenantTypes`, `NothingCrosses`, `SocketMeetsEvent`, `CacheIsFit`, `ChangesAnnounced` | the invariants `TypeOK`, `NoCrossing`, `SameTenancyMeets`, `CacheFits`, `MovesAnnounced` |

**The argument.** A socket that is reached is in the namespace derived from the tenant of the event; it
was let in because its identity matches what `parse` reads from that namespace; `DerivedIsParsed` says that
these are the values of the tenant, so tenant and identity agree (`ReachedAgrees`). Conversely a socket
whose join read a tenant that agrees with that of the event has a path whose segments are those of both, so
by `ParsedIsDerived` it is reached if the path is not padded (`MetIsReached`). What must be kept for this is
`InvSock`: whoever is in a room, or between the two steps of a join, is let in and saw the thread in its
own namespace. The current tenant is nowhere in the argument, which is why moves do not disturb it: `past`
only grows, and a version names the same tenant for ever (`Grown`). `MovesAnnounced` needs `InvMoves`, which
says of a change that it is announced *or* its author is about to, and `InvActor`, that an author about to
announce knew another, older tenant. Each action keeps `IInv` by one of a few frames: an actor alone,
an actor that stores, a frame that is shown, an event that is sent, a socket (`SocketGoes`).

**Only model-checked**: the liveness properties (`DriverEnds`, `ExecuteEnds`, `RunEnds`, `Delivered`,
`JoinEnds`, `ChangesAreShown`), since fairness and `ENABLED` are beyond the prover; and, in the violation
runs, what the code does not do. Of the first five the part that is a safety property is proved: what is waited
for is still there, and no move leads back; of `ChangesAreShown` it is `SettledViewIsTrue`. That the next
move is made is what TLC shows.

## 8. What is not modelled

* `authenticate` and `authorize` are callbacks of the application. `authorize` is a free choice where it
  steers control (`MessageRouting`), the identity `authenticate` returns one in `TenantRouting`; a refused
  request changes no state elsewhere. The gates of routes that only read are left out.
* Analytics: its buffer is a list; that its flush may fail in the `finally` clause is in `RunExecutor`.
* Wire formats and mappers: field by field, without state.
* Mentions: a scan of one string for names after `@`. At the level of tokens nothing is left of it, at
  the level of characters a unit test is the better tool.
* Uploads: one list in the state of one component, which every update maps or filters by the id of one
  upload; that uploads do not disturb each other is the form of the code.
* Client hooks that wrap one call of the client or select from the store hold no state of their own.
  `upsertRun` waits for messages no server sends (`thread_server.py:233` has no caller).
* `RecordingBroadcaster` is a list for tests. `rrcp-ts` is a scaffold of six lines.
* Several server processes. `_tasks` and `_sid_namespaces` are memory of one process, and `cancel`
  reaches that one only; the unique indexes would still serialise inserts.

## 9. Plan

Of the components the inventory lists, those that are left out are so for the reasons of section 8, and
every safety property a passing run checks is proved. When the code changes, this is where to go on:

1. **A start-up sweep.** Once the server ends the active rows a crash left behind, `Crash` gets an action of
   its own after it, and `RunEnds` need no longer exclude crashes.
2. **`thread:join` without a cursor.** Once a first join loads the log, `ReplayMeetsLive` loses its condition
   on `since`.
3. **A version on members and thread updates.** Once a client can tell an older list from a newer one,
   `excused` goes, and `ViewMovesForward` holds without exception.
