----------------------------- MODULE ThreadView -----------------------------
(***************************************************************************)
(* What a React client shows of a thread besides its events: the list of   *)
(* its members and its row.  Both are changed by requests, each of which   *)
(* then broadcasts what it read or wrote; the client takes whatever        *)
(* arrives, and fetches both once after it joined.                         *)
(*                                                                         *)
(* Values are versions: a number into past for the members, the number of  *)
(* patches so far for the row.  A snapshot that fails is swallowed, and    *)
(* nothing asks for it again.  The socket is not lost here, a leave ends   *)
(* its join at once and a join is answered (see ThreadFeed for what else   *)
(* may happen to them); the thread keeps its namespace (TenantRouting).    *)
(***************************************************************************)
EXTENDS Naturals, Sequences, FiniteSets

CONSTANTS People, Creator,
          MaxRequests,  \* bound
          MaxMounts     \* bound

ASSUME ViewAssumption == {MaxRequests, MaxMounts} \subseteq Nat /\ Creator \in People

Requests == 1 .. MaxRequests

VARIABLES
  past,     \* the rows of thread_members so far; the last are there now
  patches,  \* updates of the row of the thread
  req,      \* req[r]: POST or DELETE /members, or PATCH
  channel,  \* what the server wrote to the client's socket
  room,     \* the socket is in the thread's room
  mount,    \* how often useThreadSession was mounted
  session,
  fetch,    \* fetch[k]: the snapshot the session asked for after its join
  view,     \* members and threadMeta of the store
  missed,   \* the registers whose snapshot failed, with nothing shown since (history)
  excused   \* the registers in which two operations overlapped (history)

client == <<mount, session, fetch, view, missed>>
system == <<past, patches, req, channel, room, client>>
vars == <<system, excused>>

Registers == {"members", "thread"}
Now == Len(past)
Members == past[Now]
Version(k) == IF k = "members" THEN Now ELSE patches
Kind(r) == IF req[r].kind = "patch" THEN "thread" ELSE "members"

Init == /\ past = <<{Creator}>> /\ patches = 1
        /\ req = [r \in Requests |-> [pc |-> "unborn", kind |-> "none", who |-> Creator, n |-> 0, began |-> 0]]
        /\ channel = <<>> /\ room = FALSE /\ mount = 0 /\ session = "idle"
        /\ fetch = [k \in Registers |-> [pc |-> "none", n |-> 0]]
        /\ view = [k \in Registers |-> 0]
        /\ missed = {} /\ excused = {}

\* A change is under way from its write to its broadcast, for the client until
\* it arrives; a snapshot from the question to the answer.
Changing(k) == {r \in Requests : req[r].pc \in {"written", "sending"} /\ Kind(r) = k}
Coming(k) == {i \in DOMAIN channel : channel[i].kind = k}
Overlap(k) == \/ Cardinality(Changing(k)) > 1
              \/ fetch[k].pc # "none" /\ Changing(k) \cup Coming(k) # {}

-----------------------------------------------------------------------------
(* The server.                                                             *)

Goes(r, pc) == req' = [req EXCEPT ![r].pc = pc]

\* _gate, passed by somebody who is a member now.
Gate(r, kind, x) ==
  /\ req[r].pc = "unborn" /\ Members # {} /\ \A q \in 1 .. r - 1 : req[q].pc # "unborn"
  /\ req' = [req EXCEPT ![r] = [pc |-> "gated", kind |-> kind, who |-> x, n |-> 0, began |-> Now]]
  /\ UNCHANGED <<past, patches, channel, room, client>>

\* INSERT ... ON CONFLICT DO NOTHING.
InsertMember(r) ==
  /\ req[r].pc = "gated" /\ req[r].kind = "add"
  /\ \/ req[r].who \in Members /\ Goes(r, "conflict") /\ UNCHANGED past
     \/ /\ req[r].who \notin Members /\ Goes(r, "written")
        /\ past' = Append(past, Members \cup {req[r].who})
  /\ UNCHANGED <<patches, channel, room, client>>

\* Mutant: add_member gives up on a conflict.
SelectNothing(r) == /\ req[r].pc = "conflict" /\ Goes(r, "failed")
                    /\ UNCHANGED <<past, patches, channel, room, client>>

\* After a conflict the row is selected; if it is gone the assertion fails.
SelectMember(r) ==
  /\ req[r].pc = "conflict"
  /\ Goes(r, IF req[r].who \in Members THEN "written" ELSE "failed")
  /\ UNCHANGED <<past, patches, channel, room, client>>

DeleteMember(r) ==
  /\ req[r].pc = "gated" /\ req[r].kind = "remove" /\ Goes(r, "written")
  /\ past' = IF req[r].who \in Members THEN Append(past, Members \ {req[r].who}) ELSE past
  /\ UNCHANGED <<patches, channel, room, client>>

\* list_members, a statement of its own.
ListMembers(r) ==
  /\ req[r].pc = "written"
  /\ req' = [req EXCEPT ![r].pc = "sending", ![r].n = Now]
  /\ UNCHANGED <<past, patches, channel, room, client>>

\* Mutant: the patch is broadcast though no row was written.
PatchUnwritten(r) ==
  /\ req[r].pc = "gated" /\ req[r].kind = "patch"
  /\ req' = [req EXCEPT ![r].pc = "sending", ![r].n = patches + 1]
  /\ UNCHANGED <<past, patches, channel, room, client>>

\* UPDATE threads ... RETURNING.
PatchThread(r) ==
  /\ req[r].pc = "gated" /\ req[r].kind = "patch"
  /\ patches' = patches + 1
  /\ req' = [req EXCEPT ![r].pc = "sending", ![r].n = patches + 1]
  /\ UNCHANGED <<past, channel, room, client>>

\* Mutant: the members are broadcast as they were at the gate.
BroadcastGated(r) ==
  /\ req[r].pc = "sending" /\ Goes(r, "done")
  /\ channel' = IF room THEN Append(channel, [kind |-> Kind(r), n |-> IF Kind(r) = "members" THEN req[r].began
                                                                      ELSE req[r].n])
                ELSE channel
  /\ UNCHANGED <<past, patches, room, client>>

\* publish_members_updated, publish_thread_updated.
BroadcastChange(r) ==
  /\ req[r].pc = "sending" /\ Goes(r, "done")
  /\ channel' = IF room THEN Append(channel, [kind |-> Kind(r), n |-> req[r].n]) ELSE channel
  /\ UNCHANGED <<past, patches, room, client>>

\* on_thread_join, which lets the socket in before it reads what to replay.
EnterRoom == /\ session = "joining" /\ ~room
             /\ room' = TRUE
             /\ UNCHANGED <<past, patches, req, channel, client>>

Answered == \E i \in DOMAIN channel : channel[i].kind = "ack" /\ channel[i].n = mount

Acknowledge == /\ session = "joining" /\ room /\ ~Answered
               /\ channel' = Append(channel, [kind |-> "ack", n |-> mount])
               /\ UNCHANGED <<past, patches, req, room, client>>

ServeJoin == EnterRoom \/ Acknowledge

\* GET /threads/{id} and GET /threads/{id}/members.
ServeFetch(k) == /\ fetch[k].pc = "asked"
                 /\ fetch' = [fetch EXCEPT ![k] = [pc |-> "read", n |-> Version(k)]]
                 /\ UNCHANGED <<past, patches, req, channel, room, mount, session, view, missed>>

-----------------------------------------------------------------------------
(* The client.                                                             *)

NoFetch == [k \in Registers |-> [pc |-> "none", n |-> 0]]

Mount == /\ session = "idle" /\ mount < MaxMounts
         /\ mount' = mount + 1 /\ session' = "joining"
         /\ UNCHANGED <<past, patches, req, channel, room, fetch, view, missed>>

\* Its cleanup: what was asked for is ignored when it comes.
Unmount == /\ session # "idle"
           /\ session' = "idle" /\ room' = FALSE /\ fetch' = NoFetch /\ missed' = {}
           /\ UNCHANGED <<past, patches, req, channel, mount, view>>

Shows(k, n) == view' = [view EXCEPT ![k] = n] /\ missed' = missed \ {k}

\* Mutant: the session starts no fetch.
ReceiveAckOnly == /\ session' = IF session = "joining" /\ Head(channel).n = mount THEN "joined" ELSE session
                  /\ UNCHANGED <<fetch, view, missed>>

\* setMembers and setThreadMeta by the handlers of ThreadProvider, mounted or
\* not; the acknowledgement of a join, which starts the two fetches.
ReceiveAck == IF session = "joining" /\ Head(channel).n = mount
              THEN /\ session' = "joined"
                   /\ fetch' = [k \in Registers |-> [pc |-> "asked", n |-> 0]]
                   /\ UNCHANGED <<view, missed>>
              ELSE UNCHANGED <<session, fetch, view, missed>>

Receive == /\ channel # <<>> /\ channel' = Tail(channel)
           /\ IF Head(channel).kind = "ack" THEN ReceiveAck
              ELSE Shows(Head(channel).kind, Head(channel).n) /\ UNCHANGED <<session, fetch>>
           /\ UNCHANGED <<past, patches, req, room, mount>>

\* The answer to a fetch is on no socket: it may pass what is in channel.
FetchArrives(k) == /\ fetch[k].pc = "read"
                   /\ Shows(k, fetch[k].n)
                   /\ fetch' = [fetch EXCEPT ![k] = NoFetch[k]]
                   /\ UNCHANGED <<past, patches, req, channel, room, mount, session>>

\* The fetch is refused or lost, before or after it was served.
FetchFails(k) == /\ fetch[k].pc # "none"
                 /\ fetch' = [fetch EXCEPT ![k] = NoFetch[k]]
                 /\ missed' = missed \cup {k}
                 /\ UNCHANGED <<past, patches, req, channel, room, mount, session, view>>

-----------------------------------------------------------------------------
Serve(r) == \/ InsertMember(r) \/ SelectMember(r) \/ DeleteMember(r) \/ ListMembers(r)
            \/ PatchThread(r) \/ BroadcastChange(r)

Next == /\ \/ \E r \in Requests : Serve(r)
           \/ \E r \in Requests, x \in People, kind \in {"add", "remove"} : Gate(r, kind, x)
           \/ \E r \in Requests : Gate(r, "patch", Creator)
           \/ \E k \in Registers : ServeFetch(k) \/ FetchArrives(k) \/ FetchFails(k)
           \/ ServeJoin \/ Mount \/ Unmount \/ Receive
        /\ excused' = excused \cup {k \in Registers : Overlap(k)'}

Spec == Init /\ [][Next]_vars

\* Coroutines run, and a fetch is served and answered if it does not fail;
\* excused is no part of the system.
Fairness == /\ WF_system(\E r \in Requests : Serve(r))
            /\ WF_system(\E k \in Registers : ServeFetch(k) \/ FetchArrives(k))
            /\ WF_system(ServeJoin) /\ WF_system(Receive)

FairSpec == Spec /\ Fairness
-----------------------------------------------------------------------------
TypeOK ==
  /\ past \in Seq(SUBSET People) /\ past # <<>> /\ patches \in Nat \ {0}
  /\ req \in [Requests -> [pc : {"unborn", "gated", "conflict", "failed", "written", "sending", "done"},
                           kind : {"none", "add", "remove", "patch"}, who : People,
                           n : Nat, began : 0 .. Now]]
  /\ \A r \in Requests : req[r].n <= Version(Kind(r))
  /\ \A i \in DOMAIN channel : \/ channel[i].kind = "ack" /\ channel[i].n \in 1 .. mount
                               \/ channel[i].kind \in Registers /\ channel[i].n \in 1 .. Version(channel[i].kind)
  /\ room \in BOOLEAN /\ mount \in 0 .. MaxMounts /\ session \in {"idle", "joining", "joined"}
  /\ DOMAIN fetch = Registers /\ DOMAIN view = Registers /\ missed \subseteq Registers
  /\ excused \subseteq Registers
  /\ \A k \in Registers : /\ fetch[k].pc \in {"none", "asked", "read"}
                          /\ fetch[k].n \in 0 .. Version(k) /\ view[k] \in 0 .. Version(k)

\* Once nothing is under way, a joined client shows the members and the row the
\* database has, unless two changes overlapped, or a change and the snapshot,
\* or the snapshot failed and no change came since: joining first and asking
\* then leaves no gap, however often it is mounted.
SettledViewIsTrue ==
  session = "joined" /\ channel = <<>> =>
    \A k \in Registers \ (excused \cup missed) :
      Changing(k) = {} /\ fetch[k].pc = "none" => view[k] = Version(k)

\* Short of such an overlap no member list and no row a client has shown is
\* replaced by an older one, neither by a late broadcast nor by a snapshot.
ViewMovesForward == [][\A k \in Registers \ excused' : view'[k] >= view[k]]_vars

\* A request to add somebody is answered if there was a moment while it ran at
\* which they were a member, and fails on its assertion only if somebody removed
\* them meanwhile; a removal is answered if they were no member at some moment.
MembershipAnswers == \A r \in Requests :
  LET during == req[r].began .. Now
      x == req[r].who
      added == req[r].kind = "add" /\ req[r].pc = "done"
  IN  /\ added => \E i \in during : x \in past[i]
      /\ req[r].pc = "failed" => \E i \in during : i < Now /\ x \in past[i] /\ x \notin past[i + 1]
      /\ req[r].kind = "remove" /\ req[r].pc = "done" => \E i \in during : x \notin past[i]

\* Whatever the members or the row become, a client that stays joined shows it
\* after a while (changes come to an end here), unless its snapshot failed and
\* no change came after that.
ChangesAreShown == \A k \in Registers :
  session = "joined" ~> view[k] = Version(k) \/ k \in excused \cup missed \/ session # "joined"
=============================================================================
