---------------------------- MODULE TenantRouting ----------------------------
(***************************************************************************)
(* One thread whose tenant changes, and who hears of it: the routes of     *)
(* rest/threads.py, HandlerContext.update_thread, what publish_event and   *)
(* the other broadcasts do with the thread they are given, and the sockets *)
(* of ThreadNamespace, registered under "*" (namespace_keys are set).      *)
(*                                                                         *)
(* Requests and runs are alike here: both read the thread when they start  *)
(* and publish with what they read; a run does more than one thing.  Who   *)
(* is a member and what authorize says is left open, as is what            *)
(* authenticate answers.  Nobody is cut off between two steps (see         *)
(* RunExecutor): a run cancelled after its update announces nothing.       *)
(***************************************************************************)
EXTENDS Namespaces

CONSTANTS Actors, Sockets,
          Bodies,      \* the tenants a request or a handler may give the thread
          Identities,  \* the tenants an identity may carry
          Addresses,   \* the paths a client may connect to
          MaxMoves,    \* bound: changes of tenant
          MaxEvents    \* bound

ASSUME RoutingAssumption == /\ {MaxMoves, MaxEvents} \subseteq Nat
                            /\ Bodies \cup Identities \subseteq Tenants
                            /\ Addresses \subseteq Paths
NoVersion == 0
NoPath == [segments |-> <<>>, padded |-> TRUE]
NoOne == << >>

VARIABLES
  past,    \* the tenants of the row so far; the last is in the row
  alive,   \* the row is there
  actor,   \* actor[a]: held and known are versions, numbers into past
  log,     \* the events stored, each with the version it is published under
  sock,    \* sock[s]: a sid, its namespace, its session, its rooms
  cached,  \* _sid_namespaces
  heard,   \* heard[s]: the events s received
  shown    \* shown[s]: the version of which s received a frame last

vars == <<past, alive, actor, log, sock, cached, heard, shown>>
rows == <<past, alive>>
wire == <<sock, cached>>

Now == Len(past)
Idle == [pc |-> "idle", held |-> NoVersion, known |-> NoVersion, new |-> NoVersion, at |-> 0]
Unborn == [pc |-> "unborn", ns |-> NoPath, who |-> NoOne, joining |-> FALSE,
           seen |-> NoVersion, room |-> FALSE, late |-> FALSE]

Init == /\ past = <<>> /\ alive = FALSE /\ log = <<>>
        /\ actor = [a \in Actors |-> Idle]
        /\ sock = [s \in Sockets |-> Unborn]
        /\ cached = [s \in Sockets |-> NoPath]
        /\ heard = [s \in Sockets |-> {}] /\ shown = [s \in Sockets |-> NoVersion]

-----------------------------------------------------------------------------
(* The thread.                                                             *)

\* POST /threads asks for the keys, not for legal values.
CreateThread(t) == /\ past = <<>> /\ Keys \subseteq DOMAIN t
                   /\ past' = <<[tenant |-> t, knew |-> NoVersion]>> /\ alive' = TRUE
                   /\ UNCHANGED <<actor, log, wire, heard, shown>>

DeleteThread == /\ alive /\ alive' = FALSE
                /\ UNCHANGED <<past, actor, log, wire, heard, shown>>

Tenant(v) == past[v].tenant
Goes(a, to) == actor' = [actor EXCEPT ![a] = to]

\* A request passes its gate, a run starts: get_thread.
Start(a) == /\ actor[a].pc = "idle" /\ alive
            /\ Goes(a, [Idle EXCEPT !.pc = "ready", !.held = Now, !.known = Now])
            /\ UNCHANGED <<rows, log, wire, heard, shown>>

Finish(a) == /\ actor[a].pc = "ready" /\ Goes(a, Idle)
             /\ UNCHANGED <<rows, log, wire, heard, shown>>

\* What raises ends a request; a handler may go on.
Raises(a) == \/ Goes(a, Idle)
             \/ Goes(a, [actor[a] EXCEPT !.pc = "ready", !.new = NoVersion, !.at = 0])

\* Room for one more event, besides those that will be announced.
Spare == Len(log) + Cardinality({a \in Actors : actor[a].pc = "announcing"}) < MaxEvents

\* UPDATE threads ... RETURNING, in a PATCH or in ctx.update_thread; a patch
\* without a tenant leaves it.  LookupError if the row is gone.
Gone(a) == /\ ~alive /\ Goes(a, Idle)
           /\ UNCHANGED <<rows, log>>

\* Mutant: the tenant is compared with the one the thread was created with.
ChangedSinceFirst(a, t) == t # Tenant(1)

Changed(a, t) == t # Tenant(actor[a].known)

UpdateTenant(a, t) ==
  /\ actor[a].pc = "ready" /\ Spare /\ Now <= MaxMoves
  /\ \/ Gone(a)
     \/ /\ alive
        /\ past' = IF t = Tenant(Now) THEN past ELSE Append(past, [tenant |-> t, knew |-> actor[a].known])
        /\ Goes(a, [actor[a] EXCEPT !.pc = IF Changed(a, t) THEN "announcing" ELSE "showing", !.new = Len(past')])
        /\ UNCHANGED <<alive, log>>
  /\ UNCHANGED <<wire, heard, shown>>

UpdateMetadata(a) ==
  /\ actor[a].pc = "ready"
  /\ \/ Gone(a)
     \/ /\ alive
        /\ Goes(a, [actor[a] EXCEPT !.pc = "showing", !.new = Now])
        /\ UNCHANGED <<rows, log>>
  /\ UNCHANGED <<wire, heard, shown>>

-----------------------------------------------------------------------------
(* Publishing.                                                             *)

InRoom == {s \in Sockets : sock[s].pc = "open" /\ sock[s].room}

\* emit() to the thread's room in the namespace derived from version v.
Reaches(v, s) == s \in InRoom /\ Derivable(Tenant(v)) /\ sock[s].ns = Derive(Tenant(v))

\* append_event in publish_event(event, thread=...).
Stores(a, as, from, to) ==
  /\ log' = Append(log, [as |-> as, from |-> from, to |-> to, stored |-> InRoom, sent |-> FALSE])
  /\ Goes(a, [actor[a] EXCEPT !.pc = "sending", !.at = Len(log) + 1])

\* Mutant: the event is sent without being stored.
PublishUnstored(a) == /\ actor[a].pc = "ready" /\ alive
                      /\ Goes(a, [actor[a] EXCEPT !.pc = "sending", !.at = Len(log) + 1])
                      /\ UNCHANGED <<rows, log, wire, heard, shown>>

\* A message, or an event of a run: published with the thread that was held.
PublishEvent(a) ==
  /\ actor[a].pc = "ready" /\ Spare
  /\ \/ Gone(a)
     \/ /\ alive /\ UNCHANGED rows
        /\ Stores(a, actor[a].held, NoVersion, NoVersion)
  /\ UNCHANGED <<wire, heard, shown>>

\* thread.tenant_changed, from what the actor knew, under the new tenant.
AnnounceTenant(a) ==
  /\ actor[a].pc = "announcing"
  /\ \/ Gone(a)
     \/ /\ alive /\ UNCHANGED rows
        /\ Stores(a, actor[a].new, actor[a].known, actor[a].new)
  /\ UNCHANGED <<wire, heard, shown>>

\* Its broadcast; derive_namespace_path raises before it, and the event stays
\* stored.
Broadcast(a) ==
  /\ actor[a].pc = "sending"
  /\ LET v == log[actor[a].at].as
     IN  \/ /\ Derivable(Tenant(v))
            /\ heard' = [s \in Sockets |-> IF Reaches(v, s) THEN heard[s] \cup {actor[a].at} ELSE heard[s]]
            /\ log' = [log EXCEPT ![actor[a].at].sent = TRUE]
            /\ Goes(a, [actor[a] EXCEPT !.pc = IF actor[a].new = NoVersion THEN "ready" ELSE "showing", !.at = 0])
         \/ /\ ~Derivable(Tenant(v))
            /\ Raises(a) /\ UNCHANGED <<log, heard>>
  /\ UNCHANGED <<rows, wire, shown>>

\* A frame about version of that is sent in the namespace of version v.
Frame(of, v) == shown' = [s \in Sockets |-> IF Reaches(v, s) THEN of ELSE shown[s]]

\* stream:start, stream:delta and stream:end, through _BoundStreamSink.
StreamFrame(a) == /\ actor[a].pc = "ready" /\ Derivable(Tenant(actor[a].held))
                  /\ Frame(actor[a].held, actor[a].held)
                  /\ UNCHANGED <<rows, actor, log, wire, heard>>

\* Mutant: the updated thread is shown where the thread was held.
ShowThreadWhereHeld(a) ==
  /\ actor[a].pc = "showing" /\ Derivable(Tenant(actor[a].held))
  /\ Frame(actor[a].new, actor[a].held)
  /\ Goes(a, [actor[a] EXCEPT !.pc = "ready", !.known = actor[a].new, !.new = NoVersion])
  /\ UNCHANGED <<rows, log, wire, heard>>

\* publish_thread_updated with the row UPDATE returned.  ctx.thread is then
\* that row; the thread the driver and its streams publish with is not.
ShowThread(a) ==
  /\ actor[a].pc = "showing"
  /\ \/ /\ Derivable(Tenant(actor[a].new))
        /\ Frame(actor[a].new, actor[a].new)
        /\ Goes(a, [actor[a] EXCEPT !.pc = "ready", !.known = actor[a].new, !.new = NoVersion])
     \/ /\ ~Derivable(Tenant(actor[a].new))
        /\ Raises(a) /\ UNCHANGED shown
  /\ UNCHANGED <<rows, log, wire, heard>>

-----------------------------------------------------------------------------
(* Sockets.  A sid is used once.                                           *)

Becomes(s, to) == sock' = [sock EXCEPT ![s] = to]

\* trigger_event("connect") stores the namespace, then on_connect asks
\* authenticate.  What it raises but a refusal leaves the sid as it is here.
Connect(s, p) == /\ sock[s].pc = "unborn"
                 /\ Becomes(s, [Unborn EXCEPT !.pc = "connecting", !.ns = p])
                 /\ cached' = [cached EXCEPT ![s] = p]
                 /\ UNCHANGED <<rows, actor, log, heard, shown>>

\* The namespace of the path must be that of the identity.
Admissible(p, who) == Parseable(p) /\ Matches(Parse(p), who)

\* Mutant: a refusal forgets to clean up.
RefuseForgets(s) == /\ sock[s].pc = "connecting"
                    /\ Becomes(s, [Unborn EXCEPT !.pc = "refused"])
                    /\ UNCHANGED <<rows, actor, log, cached, heard, shown>>

\* unauthenticated, namespace_invalid or namespace_mismatch.
Refuse(s) == /\ sock[s].pc = "connecting"
             /\ Becomes(s, [Unborn EXCEPT !.pc = "refused"])
             /\ cached' = [cached EXCEPT ![s] = NoPath]
             /\ UNCHANGED <<rows, actor, log, heard, shown>>

Accept(s, who) == /\ sock[s].pc = "connecting" /\ Admissible(cached[s], who)
                  /\ Becomes(s, [sock[s] EXCEPT !.pc = "open", !.who = who])
                  /\ UNCHANGED <<rows, actor, log, cached, heard, shown>>

Leaves(s) == log' = [i \in DOMAIN log |-> [log[i] EXCEPT !.stored = @ \ {s}]]

\* Also during on_connect, when the ping times out.
Disconnect(s) == /\ sock[s].pc \in {"connecting", "open"}
                 /\ Becomes(s, [sock[s] EXCEPT !.pc = "gone", !.room = FALSE, !.seen = NoVersion,
                                               !.ns = IF sock[s].pc = "open" THEN @ ELSE NoPath])
                 /\ cached' = [cached EXCEPT ![s] = NoPath] /\ Leaves(s)
                 /\ UNCHANGED <<rows, actor, heard, shown>>

\* on_thread_join up to is_member and check_authorize, on the thread it read.
MayJoin(s) == alive /\ Matches(Tenant(Now), sock[s].who) /\ Matches(Parse(sock[s].ns), Tenant(Now))

\* Every event is a task of its own: it may start when the socket is gone, then
\* caches a namespace nobody removes, and fails for want of a session.
BeginJoin(s) ==
  /\ ~sock[s].joining
  /\ \/ /\ sock[s].pc = "open" /\ MayJoin(s)
        /\ Becomes(s, [sock[s] EXCEPT !.joining = TRUE, !.seen = IF sock[s].room THEN @ ELSE Now])
     \/ /\ sock[s].pc = "gone" /\ sock[s].ns # NoPath
        /\ Becomes(s, [sock[s] EXCEPT !.late = TRUE])
  /\ cached' = [cached EXCEPT ![s] = sock[s].ns]
  /\ UNCHANGED <<rows, actor, log, heard, shown>>

\* enter_room, or RuntimeError without a cached namespace.
EnterRoom(s) == /\ sock[s].joining
                /\ Becomes(s, [sock[s] EXCEPT !.joining = FALSE, !.room = sock[s].pc = "open"])
                /\ UNCHANGED <<rows, actor, log, cached, heard, shown>>

LeaveRoom(s) == /\ sock[s].pc = "open" /\ sock[s].room
                /\ Becomes(s, [sock[s] EXCEPT !.room = FALSE]) /\ Leaves(s)
                /\ UNCHANGED <<rows, actor, cached, heard, shown>>

-----------------------------------------------------------------------------
Act(a) == \/ Start(a) \/ Finish(a) \/ UpdateMetadata(a) \/ PublishEvent(a) \/ AnnounceTenant(a)
          \/ Broadcast(a) \/ StreamFrame(a) \/ ShowThread(a)
          \/ \E t \in Bodies : UpdateTenant(a, t)
Talk(s) == \/ Refuse(s) \/ Disconnect(s) \/ BeginJoin(s) \/ EnterRoom(s) \/ LeaveRoom(s)
           \/ \E p \in Addresses : Connect(s, p)
           \/ \E who \in Identities : Accept(s, who)

Next == \/ \E a \in Actors : Act(a)
        \/ \E s \in Sockets : Talk(s)
        \/ \E t \in Bodies : CreateThread(t)
        \/ DeleteThread

Spec == Init /\ [][Next]_vars

-----------------------------------------------------------------------------
TypeOK ==
  /\ past \in Seq([tenant : Tenants, knew : Nat])
  /\ alive \in BOOLEAN /\ (alive => past # <<>>)
  /\ actor \in [Actors -> [pc : {"idle", "ready", "sending", "announcing", "showing"},
                            held : 0 .. Now, known : 0 .. Now, new : 0 .. Now, at : 0 .. Len(log)]]
  /\ log \in Seq([as : 1 .. Now, from : 0 .. Now, to : 0 .. Now, stored : SUBSET Sockets, sent : BOOLEAN])
  /\ sock \in [Sockets -> [pc : {"unborn", "connecting", "refused", "open", "gone"},
                            ns : Paths \cup {NoPath}, who : Tenants, joining : BOOLEAN,
                            seen : 0 .. Now, room : BOOLEAN, late : BOOLEAN]]
  /\ cached \in [Sockets -> Paths \cup {NoPath}]
  /\ heard \in [Sockets -> SUBSET DOMAIN log] /\ shown \in [Sockets -> 0 .. Now]

\* A tenant agrees with an identity on every namespace key.
Agrees(t, who) == Derivable(t) /\ \A k \in Keys : k \in DOMAIN who /\ who[k] = t[k]

\* test_namespace_integration.py: what is broadcast in one namespace "never
\* leaks" into another.  Whatever a socket hears was published under a tenant
\* that agrees with its identity, and so was the thread it is shown, however
\* often the thread moves between join, update and broadcast.
NoCrossing == \A s \in Sockets :
  /\ \A i \in heard[s] : Agrees(Tenant(log[i].as), sock[s].who)
  /\ shown[s] # NoVersion => Agrees(Tenant(shown[s]), sock[s].who)

\* A socket that is in the room from before an event is stored until it has
\* been sent hears it, if the tenants its join and the publisher read have the
\* same namespace: what else changes in between does not matter.  A padded path
\* is read like any other, but nothing is ever sent to it.
SameTenancyMeets == \A i \in DOMAIN log : log[i].sent =>
  \A s \in log[i].stored :
    ~sock[s].ns.padded /\ Agrees(Tenant(log[i].as), Tenant(sock[s].seen)) => i \in heard[s]

\* A live socket finds its namespace in the cache, a refused or closed one has
\* no entry left, unless an event of its was dispatched too late.
CacheFits == \A s \in Sockets :
  /\ sock[s].pc \in {"connecting", "open"} => cached[s] = sock[s].ns
  /\ cached[s] # NoPath => sock[s].pc \in {"connecting", "open"} \/ sock[s].late

\* A change of tenant by somebody who knew the tenant it replaced is announced with
\* the tenants before and after, and an announcement names two tenants the thread
\* had, the older one first.
AtRest == \A a \in Actors : actor[a].pc \in {"idle", "ready"}
Announced(v) == \E i \in DOMAIN log : log[i].from = v - 1 /\ log[i].to = v
MovesAnnounced ==
  /\ alive /\ AtRest => \A v \in 2 .. Now : past[v].knew = v - 1 => Announced(v)
  /\ \A i \in DOMAIN log : log[i].to # NoVersion =>
       log[i].from < log[i].to /\ Tenant(log[i].from) # Tenant(log[i].to)

=============================================================================
