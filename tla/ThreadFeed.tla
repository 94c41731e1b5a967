----------------------------- MODULE ThreadFeed -----------------------------
(***************************************************************************)
(* How the events of one thread reach one React client: publish_event of   *)
(* the server, thread:join and thread:leave of the socket namespace,       *)
(* useThreadSession and the Zustand store of the client.                   *)
(*                                                                         *)
(* An event gets its created_at where it is built, before it is appended,  *)
(* and the log is read in the order of created_at; events are numbered by  *)
(* it.  The server answers one socket in the order it writes to it         *)
(* (channel).  A publisher may be cut off at any await, by the cancel or   *)
(* the timeout of its run or by an exception; the handler of a join may    *)
(* raise, and then nobody answers.                                         *)
(***************************************************************************)
EXTENDS Naturals, Sequences, FiniteSets, FiniteSetsExt

CONSTANTS MaxEvents,   \* bound
          MaxJoins,    \* bound: how often the client mounts the thread
          MaxDrops,    \* bound: how often the socket is lost
          ReplayCap    \* replay_cap of ThreadServer

ASSUME FeedAssumption == /\ {MaxEvents, MaxJoins, MaxDrops} \subseteq Nat
                         /\ ReplayCap \in Nat \ {0}

VARIABLES
  pub,       \* pub[e]: how far publish_event(e) has come
  room,      \* the client's socket is in the thread's room
  join,      \* join[j]: the j-th thread:join request
  leaving,   \* a thread:leave is on its way
  channel,   \* what the server has written to the socket
  cache,     \* events[threadId] of the store
  session,   \* status of useThreadSession
  drops

vars == <<pub, room, join, leaving, channel, cache, session, drops>>

Events == 1 .. MaxEvents
Joins == 1 .. MaxJoins
NoSince == 0

\* "appended" waits for its broadcast, "stored" was cut off before it.
Log == {e \in Events : pub[e] \in {"appended", "sent", "stored"}}

\* The join the client waits for or lives by: the last one it sent.
Sent == {j \in Joins : join[j].pc # "unsent"}
Current == Max(Sent)

Init == /\ pub = [e \in Events |-> "unborn"]
        /\ room = FALSE /\ leaving = FALSE
        /\ join = [j \in Joins |-> [pc |-> "unsent", since |-> NoSince,
                                    replay |-> {}, truncated |-> FALSE]]
        /\ channel = <<>> /\ cache = {} /\ session = "idle" /\ drops = 0

client == <<cache, session>>
-----------------------------------------------------------------------------
(* publish_event, called by any number of coroutines at once.              *)

\* The event is built: created_at is now().
Build(e) == /\ pub[e] = "unborn" /\ \A f \in 1 .. e - 1 : pub[f] # "unborn"
            /\ pub' = [pub EXCEPT ![e] = "built"]
            /\ UNCHANGED <<room, join, leaving, channel, client, drops>>

AppendEvent(e) == /\ pub[e] = "built"
                  /\ pub' = [pub EXCEPT ![e] = "appended"]
                  /\ UNCHANGED <<room, join, leaving, channel, client, drops>>

\* Mutant: the broadcast does not wait for the append.
BroadcastUnstored(e) ==
  /\ pub[e] \in {"built", "appended"}
  /\ pub' = [pub EXCEPT ![e] = IF @ = "built" THEN "built" ELSE "sent"]
  /\ channel' = IF room THEN Append(channel, [kind |-> "event", event |-> e]) ELSE channel
  /\ UNCHANGED <<room, join, leaving, client, drops>>

\* broadcast_event emits to whoever is in the room now.
Broadcast(e) ==
  /\ pub[e] = "appended"
  /\ pub' = [pub EXCEPT ![e] = "sent"]
  /\ channel' = IF room THEN Append(channel, [kind |-> "event", event |-> e]) ELSE channel
  /\ UNCHANGED <<room, join, leaving, client, drops>>

\* The coroutine is cut off between the append and the broadcast, and nobody
\* takes the broadcast up again.  One that is cut off earlier never appends.
CutOff(e) == /\ pub[e] = "appended"
             /\ pub' = [pub EXCEPT ![e] = "stored"]
             /\ UNCHANGED <<room, join, leaving, channel, client, drops>>

-----------------------------------------------------------------------------
(* The server's side of a join and a leave.                                *)

\* Mutant: the early return of a failed check carries no error.
RefuseSilently(j) ==
  /\ join[j].pc = "checks"
  /\ join' = [join EXCEPT ![j].pc = "refused"]
  /\ UNCHANGED <<pub, room, leaving, channel, client, drops>>

\* A check fails: no such thread for this caller, no member, not authorized.
Refuse(j) ==
  /\ join[j].pc = "checks"
  /\ join' = [join EXCEPT ![j].pc = "refused"]
  /\ channel' = Append(channel, [kind |-> "error", join |-> j])
  /\ UNCHANGED <<pub, room, leaving, client, drops>>

\* The store, authorize or the parsing of the cursor raises: no answer is
\* written, and a socket that has entered the room stays in it.
Raise(j) ==
  /\ join[j].pc \in {"checks", "entered"}
  /\ join' = [join EXCEPT ![j].pc = "raised"]
  /\ UNCHANGED <<pub, room, leaving, channel, client, drops>>

\* Mutant: the join overtakes a leave that was sent before it.
EnterRoomOvertakes(j) ==
  /\ join[j].pc = "checks"
  /\ room' = TRUE
  /\ join' = [join EXCEPT ![j].pc = "entered"]
  /\ UNCHANGED <<pub, leaving, channel, client, drops>>

\* on_thread_join after its checks.  A leave sent before it is handled first.
EnterRoom(j) ==
  /\ join[j].pc = "checks" /\ ~(leaving /\ session # "idle" /\ j = Current)
  /\ room' = TRUE
  /\ join' = [join EXCEPT ![j].pc = "entered"]
  /\ UNCHANGED <<pub, leaving, channel, client, drops>>

\* Mutant: the cursor is the first event to replay plus one.
AfterOffByOne(c) == {e \in Log : e > c + 1}

\* list_events(since, limit = cap + 1), cut to the cap.
After(c) == {e \in Log : e > c}
Oldest(S, n) == {e \in S : Cardinality({f \in S : f < e}) < n}

ReadReplay(j) ==
  /\ join[j].pc = "entered"
  /\ LET found == IF join[j].since = NoSince THEN {} ELSE After(join[j].since)
     IN  join' = [join EXCEPT ![j].pc = "read",
                              ![j].replay = Oldest(found, ReplayCap),
                              ![j].truncated = Cardinality(found) > ReplayCap]
  /\ UNCHANGED <<pub, room, leaving, channel, client, drops>>

Acknowledge(j) ==
  /\ join[j].pc = "read"
  /\ join' = [join EXCEPT ![j].pc = "answered"]
  /\ channel' = Append(channel, [kind |-> "ack", join |-> j])
  /\ UNCHANGED <<pub, room, leaving, client, drops>>

LeaveRoom == /\ leaving
             /\ leaving' = FALSE /\ room' = FALSE
             /\ UNCHANGED <<pub, join, channel, client, drops>>

-----------------------------------------------------------------------------
(* The client.                                                             *)

\* The effect of useThreadSession: join from the last event in the store.
Last == IF cache = {} THEN NoSince ELSE Max(cache)

Mount(j) == /\ session = "idle"
            /\ join[j].pc = "unsent" /\ \A i \in Joins : i < j => join[i].pc # "unsent"
            /\ join' = [join EXCEPT ![j].pc = "checks", ![j].since = Last]
            /\ session' = "joining"
            /\ UNCHANGED <<pub, room, leaving, channel, cache, drops>>

\* Its cleanup: the join in flight is cancelled, the leave is not waited for.
\* An error is left the same way.
Unmount == /\ session # "idle" /\ ~leaving
           /\ session' = "idle" /\ leaving' = TRUE
           /\ UNCHANGED <<pub, room, join, channel, cache, drops>>

\* addEvent takes every event, setEventsBulk the replay of a join that still
\* counts; an error answer ends such a join as well.
Receive ==
  /\ channel # <<>>
  /\ channel' = Tail(channel)
  /\ LET m == Head(channel) IN
       \/ /\ m.kind = "event"
          /\ cache' = cache \cup {m.event}
          /\ UNCHANGED session
       \/ /\ m.kind = "ack" /\ session = "joining" /\ m.join = Current
          /\ cache' = cache \cup join[m.join].replay
          /\ session' = "joined"
       \/ /\ m.kind = "error" /\ session = "joining" /\ m.join = Current
          /\ session' = "error"
          /\ UNCHANGED cache
       \/ /\ m.kind # "event" /\ ~(session = "joining" /\ m.join = Current)
          /\ UNCHANGED client
  /\ UNCHANGED <<pub, room, join, leaving, drops>>

\* The socket is lost and comes back under a new sid.  A join that was not
\* answered fails; a session that was joined does not join again.
DropSocket ==
  /\ drops < MaxDrops /\ drops' = drops + 1
  /\ room' = FALSE /\ leaving' = FALSE /\ channel' = <<>>
  /\ join' = [j \in Joins |-> IF join[j].pc = "unsent" THEN join[j]
                              ELSE [join[j] EXCEPT !.pc = "lost"]]
  /\ session' = IF session = "joining" THEN "error" ELSE session
  /\ UNCHANGED <<pub, cache>>

-----------------------------------------------------------------------------
Publish(e) == Build(e) \/ AppendEvent(e) \/ Broadcast(e) \/ CutOff(e)
Serve(j) == Refuse(j) \/ EnterRoom(j) \/ ReadReplay(j) \/ Acknowledge(j)

Next == \/ \E e \in Events : Publish(e)
        \/ \E j \in Joins : Serve(j) \/ Raise(j) \/ Mount(j)
        \/ LeaveRoom \/ Unmount \/ Receive \/ DropSocket

Spec == Init /\ [][Next]_vars

\* Coroutines run, the socket carries what was written; but an event that is built
\* need not be appended, a publisher may be cut off before it broadcasts, and the
\* handler of a join may raise before it answers.
Fairness == /\ \A e \in Events : WF_vars(Broadcast(e))
            /\ \A j \in Joins : WF_vars(Serve(j))
            /\ WF_vars(LeaveRoom) /\ WF_vars(Receive)

FairSpec == Spec /\ Fairness

-----------------------------------------------------------------------------
TypeOK ==
  /\ pub \in [Events -> {"unborn", "built", "appended", "stored", "sent"}]
  /\ room \in BOOLEAN /\ leaving \in BOOLEAN
  /\ join \in [Joins -> [pc : {"unsent", "checks", "refused", "raised", "entered", "read", "answered", "lost"},
                         since : Events \cup {NoSince}, replay : SUBSET Events, truncated : BOOLEAN]]
  /\ \A i \in DOMAIN channel : \/ channel[i].kind = "event" /\ channel[i].event \in Events
                               \/ channel[i].kind \in {"ack", "error"} /\ channel[i].join \in Joins
  /\ cache \subseteq Log /\ session \in {"idle", "joining", "joined", "error"}
  /\ drops \in 0 .. MaxDrops

Coming == {channel[i].event : i \in {n \in DOMAIN channel : channel[n].kind = "event"}}

\* In a session that joined from a cursor, the replay and the live events meet:
\* every event of the log behind the cursor is in the store, on its way, or not
\* broadcast - not yet, or never when its publisher was cut off at the await
\* before -, in whatever order publishers append and broadcast.
ReplayMeetsLive ==
  session = "joined" /\ join[Current].pc = "answered"
    /\ join[Current].since # NoSince /\ ~join[Current].truncated =>
      \A e \in Log : e > join[Current].since =>
        e \in cache \cup Coming \/ pub[e] \in {"appended", "stored"}

\* A client whose socket holds, and which stays joined, gets every event of the
\* log that is still to be broadcast, unless the publisher of the event is cut off
\* between its append and its broadcast.
Delivered == \A e \in Events :
  session = "joined" /\ join[Current].pc = "answered" /\ pub[e] = "appended"
    ~> e \in cache \/ pub[e] = "stored" \/ session # "joined" \/ join[Current].pc = "lost"

\* A thread:join that was sent is answered, with the replay or with an error, or
\* the session has given it up; only a handler that raised leaves it waiting, for
\* emitWithAck has no timeout.
JoinEnds == session = "joining" ~> session # "joining" \/ join[Current].pc = "raised"
=============================================================================
