--------------------------- MODULE MessageRouting ---------------------------
(***************************************************************************)
(* How a message finds the assistants it is addressed to:                  *)
(* ThreadServer.publish_event and _auto_invoke_recipients, the routes that *)
(* send a message or invoke assistants, invoke_from_handler, and what a    *)
(* handler reads of the thread (HandlerContext.query_event).               *)
(*                                                                         *)
(* A run is admitted as AssistantSlot promises and RunExecutor is shown to *)
(* do: the assistant's active run, or else a new one, in one step.         *)
(* Messages are numbered by created_at; the other events of the log and    *)
(* the broadcasts are left out (see ThreadFeed).                           *)
(***************************************************************************)
EXTENDS Naturals, Sequences, FiniteSets, FiniteSetsExt, SequencesExt

CONSTANTS
  People, Assistants,
  NoOne,          \* an entry of recipients that is no id
  Drafts,         \* the recipients a draft may carry
  Invitations,    \* the assistants an explicit invocation may name
  Keys, NoKey,    \* idempotency keys of explicit invocations
  MaxMessages,    \* bound
  MaxRequests,    \* bound: explicit invocations
  MaxRuns,        \* bound
  MaxChanges,     \* bound: members added or removed
  ChainDepthCap,  \* MAX_AUTO_INVOKE_CHAIN_DEPTH
  Lookback        \* _QUERY_LOOKBACK

ASSUME RoutingAssumption ==
  /\ {MaxMessages, MaxRequests, MaxRuns, MaxChanges} \subseteq Nat
  /\ {ChainDepthCap, Lookback} \subseteq Nat \ {0}
  /\ NoKey \notin Keys
  /\ People \cap Assistants = {} /\ NoOne \notin People \cup Assistants
  /\ Drafts \cup Invitations \subseteq Seq(People \cup Assistants \cup {NoOne})

Identities == People \cup Assistants
Messages == 1 .. MaxMessages
Requests == 1 .. MaxRequests
Runs == 1 .. MaxRuns
NoRun == 0
NoMessage == 0
NotAsked == MaxMessages + 1

VARIABLES
  members,  \* the rows of thread_members
  msg,      \* msg[i]: the message and how far publish_event has come
  req,      \* req[q]: an explicit invocation
  run,      \* run[r]
  changes

vars == <<members, msg, req, run, changes>>

Log == {i \in Messages : msg[i].pc \in {"calling", "done", "aborted"}}
Active(r) == run[r].pc = "driving"
Publishing(r) == \E i \in Messages :
                   msg[i].run = r /\ msg[i].pc \in {"built", "checked", "calling"}

NewMessage == [pc |-> "unborn", author |-> NoOne, run |-> NoRun, to |-> <<>>,
               snap |-> {}, at |-> 1, refused |-> {}]
NewRequest == [pc |-> "unborn", by |-> NoOne, to |-> <<>>, snap |-> {}, at |-> 1,
               key |-> NoKey]
NewRun == [pc |-> "unborn", assistant |-> NoOne, by |-> NoOne, depth |-> 0, key |-> NoKey,
           cause |-> NoMessage, answer |-> NotAsked, page |-> {}, ended |-> {}, asked |-> {}]

Init == /\ members = Identities
        /\ msg = [i \in Messages |-> NewMessage]
        /\ req = [q \in Requests |-> NewRequest]
        /\ run = [r \in Runs |-> NewRun]
        /\ changes = 0

\* Mutants: an id given twice stays twice; entries that are no id stay.
NormalizeKeepsTwice(s, author) == SelectSeq(s, LAMBDA x : x \notin {NoOne, author})
NormalizeKeepsBlanks(s, author) == SelectSeq(s, LAMBDA x : x # author)

\* normalize_recipients: the author, blanks and repetitions are dropped.
Normalize(s, author) ==
  LET first(i) == s[i] \notin {NoOne, author} /\ \A j \in 1 .. i - 1 : s[j] # s[i]
  IN  [n \in 1 .. Cardinality({i \in DOMAIN s : first(i)}) |->
         s[CHOOSE i \in DOMAIN s : first(i) /\ Cardinality({j \in 1 .. i : first(j)}) = n]]

\* Mutant: a finished run is taken for an active one.
AnswersStale(a) == {r \in Runs : run[r].pc # "unborn" /\ run[r].assistant = a}

\* RunExecutor.execute: AssistantSlot admits one run at a time.  The run that
\* carries the key is the answer too, whatever its assistant and its state; an
\* active run that answers does not take the key.
Answers(a) == {r \in Runs : Active(r) /\ run[r].assistant = a}
Carrying(k) == {r \in Runs : k # NoKey /\ run[r].key = k}
Fresh == {r \in Runs : run[r].pc = "unborn" /\ \A s \in Runs : s < r => run[s].pc # "unborn"}
Execute(a, by, depth, cause, k) ==
  \/ Answers(a) \cup Carrying(k) # {} /\ UNCHANGED run
  \/ /\ Answers(a) \cup Carrying(k) = {}
     /\ \E r \in Fresh :
          run' = [run EXCEPT ![r] = [NewRun EXCEPT !.pc = "driving", !.assistant = a, !.by = by,
                                       !.depth = depth, !.cause = cause, !.key = k]]

\* A driver ends; ended and asked: the messages and requests it outlived.
End(r) == [run EXCEPT ![r].pc = "over", ![r].ended = Log,
                      ![r].asked = {q \in Requests : req[q].pc # "unborn"}]

\* A message whose publisher is cut off: an append under way may take effect.
Left(i, stored) ==
  [msg[i] EXCEPT !.pc = IF @ = "calling" \/ (@ = "checked" /\ stored) THEN "aborted" ELSE "lost",
                 !.at = 1, !.snap = {}]
CutOff(r, stored) ==
  [i \in Messages |-> IF msg[i].run = r /\ msg[i].pc \in {"built", "checked", "calling"}
                      THEN Left(i, stored) ELSE msg[i]]

-----------------------------------------------------------------------------
(* publish_event.                                                          *)

NextMessage == {i \in Messages : msg[i].pc = "unborn" /\ \A j \in Messages : j < i => msg[j].pc # "unborn"}
Write(i, author, r, draft) ==
  msg' = [msg EXCEPT ![i] = [NewMessage EXCEPT !.pc = "built", !.author = author, !.run = r,
                               !.to = Normalize(draft, author)]]

\* POST /messages and message:send, past their gate.
Send(p, draft) == /\ p \in members
                  /\ \E i \in NextMessage : Write(i, p, NoRun, draft)
                  /\ UNCHANGED <<members, req, run, changes>>

\* A handler yields a message.
Say(r, draft) == /\ Active(r) /\ ~Publishing(r)
                 /\ \E i \in NextMessage : Write(i, run[r].assistant, r, draft)
                 /\ UNCHANGED <<members, req, run, changes>>

\* Every recipient must be a member; the list read here serves the invocations
\* too.  RecipientNotMemberError answers a request and fails a run.
CheckRecipients(i) ==
  /\ msg[i].pc = "built"
  /\ \/ /\ ToSet(msg[i].to) \subseteq members
        /\ msg' = [msg EXCEPT ![i].pc = "checked", ![i].snap = members]
        /\ UNCHANGED run
     \/ /\ ~(ToSet(msg[i].to) \subseteq members)
        /\ msg' = [msg EXCEPT ![i].pc = "lost"]
        /\ run' = IF msg[i].run = NoRun THEN run ELSE End(msg[i].run)
  /\ UNCHANGED <<members, req, changes>>

\* chain_depth_for the run that publishes; it is in the table until it ends.
ParentDepth(i) == IF msg[i].run = NoRun THEN 0 ELSE run[msg[i].run].depth

\* Mutant: the cap lets one more link through.
ToInvokeOneMore(i) == msg[i].to # <<>> /\ (msg[i].run = NoRun \/ ParentDepth(i) <= ChainDepthCap)

\* Whether _auto_invoke_recipients is entered and goes on.
ToInvoke(i) == msg[i].to # <<>> /\ (msg[i].run = NoRun \/ ParentDepth(i) < ChainDepthCap)

AppendMessage(i) == /\ msg[i].pc = "checked"
                    /\ msg' = IF ToInvoke(i) THEN [msg EXCEPT ![i].pc = "calling"]
                              ELSE [msg EXCEPT ![i].pc = "done", ![i].snap = {}]
                    /\ UNCHANGED <<members, req, run, changes>>

\* One turn of the loop: no assistant, refused by authorize, or executed.
Advance(i, no) ==
  LET last == msg[i].at = Len(msg[i].to)
  IN  msg' = [msg EXCEPT ![i].at = IF last THEN 1 ELSE @ + 1, ![i].snap = IF last THEN {} ELSE @,
                         ![i].pc = IF last THEN "done" ELSE @, ![i].refused = @ \cup no]
AutoInvoke(i) ==
  /\ msg[i].pc = "calling"
  /\ LET a == msg[i].to[msg[i].at]
     IN  \/ /\ a \notin Assistants
            /\ Advance(i, {}) /\ UNCHANGED run
         \/ /\ a \in Assistants
            /\ Advance(i, {a})
            /\ UNCHANGED run
         \/ /\ a \in Assistants \cap msg[i].snap
            /\ Execute(a, msg[i].author, ParentDepth(i) + 1, i, NoKey)
            /\ Advance(i, {})
  /\ UNCHANGED <<members, req, changes>>

\* The store, the broadcast or execute() raises under a request that sends a
\* message: it fails there.  Under a run, that is an Interrupt.
Abandon(i) ==
  /\ msg[i].run = NoRun /\ msg[i].pc \in {"built", "checked", "calling"}
  /\ \E stored \in BOOLEAN : msg' = [msg EXCEPT ![i] = Left(i, stored)]
  /\ UNCHANGED <<members, req, run, changes>>

-----------------------------------------------------------------------------
(* Explicit invocations.                                                   *)

\* POST /invocations and assistant:invoke, past their gate.
Invoke(p, to) ==
  /\ p \in members /\ to # <<>>
  /\ \E q \in Requests, k \in Keys \cup {NoKey} :
       /\ req[q].pc = "unborn" /\ \A s \in Requests : s < q => req[s].pc # "unborn"
       /\ req' = [req EXCEPT ![q] = [NewRequest EXCEPT !.pc = "calling", !.by = p, !.to = to,
                                                       !.snap = members, !.key = k]]
  /\ UNCHANGED <<members, msg, run, changes>>

\* The first id that is no assistant of the thread ends the request, and so does
\* an execute() that raises; the runs it started before go on.  Every execute()
\* of the loop is given the one key of the request.
InvokeNext(q) ==
  /\ req[q].pc = "calling"
  /\ LET a == req[q].to[req[q].at]
     IN  \/ /\ req' = [req EXCEPT ![q].pc = "refused", ![q].at = 1, ![q].snap = {}]
            /\ UNCHANGED run
         \/ /\ a \in Assistants \cap req[q].snap
            /\ Execute(a, req[q].by, 0, NoMessage, req[q].key)
            /\ req' = IF req[q].at = Len(req[q].to)
                      THEN [req EXCEPT ![q].pc = "done", ![q].at = 1, ![q].snap = {}]
                      ELSE [req EXCEPT ![q].at = @ + 1]
  /\ UNCHANGED <<members, msg, changes>>

-----------------------------------------------------------------------------
(* Handlers.                                                               *)

Oldest(S, n) == {i \in S : Cardinality({j \in S : j < i}) < n}

\* query_event: the last message of whoever triggered the run, to all or to
\* this assistant, of the page list_events gives: the first Lookback events.
ForMe(r) == {i \in Oldest(Log, Lookback) :
               msg[i].author = run[r].by /\ (msg[i].to = <<>> \/ run[r].assistant \in ToSet(msg[i].to))}

\* Mutant: the page is walked forwards.
QueryEventForwards(r) ==
  /\ Active(r) /\ ~Publishing(r) /\ run[r].answer = NotAsked
  /\ run' = [run EXCEPT ![r].answer = IF ForMe(r) = {} THEN NoMessage ELSE Min(ForMe(r)), ![r].page = Log]
  /\ UNCHANGED <<members, msg, req, changes>>

QueryEvent(r) == /\ Active(r) /\ ~Publishing(r) /\ run[r].answer = NotAsked
                 /\ run' = [run EXCEPT ![r].answer = Max(ForMe(r) \cup {NoMessage}), ![r].page = Log]
                 /\ UNCHANGED <<members, msg, req, changes>>

\* ctx.invoke: execute() with the default chain_depth.  It raises for an id
\* that is no assistant of the thread, and the run fails.
ChainInvoke(r, a) ==
  /\ Active(r) /\ ~Publishing(r)
  /\ \/ /\ a \in Assistants \cap members
        /\ Execute(a, run[r].assistant, 0, NoMessage, NoKey)
     \/ /\ a \notin Assistants \cap members
        /\ run' = End(r)
  /\ UNCHANGED <<members, msg, req, changes>>

Return(r) == /\ Active(r) /\ ~Publishing(r)
             /\ run' = End(r)
             /\ UNCHANGED <<members, msg, req, changes>>

\* A cancel, a time-out or an error.
Interrupt(r) == /\ Active(r)
                /\ \E stored \in BOOLEAN : msg' = CutOff(r, stored)
                /\ run' = End(r)
                /\ UNCHANGED <<members, req, changes>>

\* POST and DELETE /members.
ChangeMember(x) == /\ changes < MaxChanges /\ changes' = changes + 1
                   /\ members' = IF x \in members THEN members \ {x} ELSE members \cup {x}
                   /\ UNCHANGED <<msg, req, run>>

-----------------------------------------------------------------------------
Publish(i) == CheckRecipients(i) \/ AppendMessage(i) \/ AutoInvoke(i) \/ Abandon(i)
Handle(r) == \/ QueryEvent(r) \/ Return(r) \/ Interrupt(r)
             \/ \E a \in Identities : ChainInvoke(r, a)
             \/ \E draft \in Drafts : Say(r, draft)
Ask(p) == \/ \E draft \in Drafts : Send(p, draft)
          \/ \E to \in Invitations : Invoke(p, to)

Next == \/ \E i \in Messages : Publish(i)
        \/ \E q \in Requests : InvokeNext(q)
        \/ \E r \in Runs : Handle(r)
        \/ \E p \in People : Ask(p)
        \/ \E x \in Identities : ChangeMember(x)

Spec == Init /\ [][Next]_vars

-----------------------------------------------------------------------------
TypeOK ==
  /\ members \subseteq Identities /\ changes \in 0 .. MaxChanges
  /\ msg \in [Messages -> [pc : {"unborn", "built", "checked", "calling", "done", "aborted", "lost"},
                           author : Identities \cup {NoOne}, run : Runs \cup {NoRun}, to : Seq(Identities),
                           snap : SUBSET Identities, at : Nat \ {0}, refused : SUBSET Assistants]]
  /\ req \in [Requests -> [pc : {"unborn", "calling", "done", "refused"}, by : People \cup {NoOne},
                           to : Seq(Identities \cup {NoOne}), snap : SUBSET Identities, at : Nat \ {0},
                           key : Keys \cup {NoKey}]]
  /\ run \in [Runs -> [pc : {"unborn", "driving", "over"}, assistant : Assistants \cup {NoOne},
                       by : Identities \cup {NoOne}, depth : Nat, key : Keys \cup {NoKey},
                       cause : Messages \cup {NoMessage}, answer : Messages \cup {NoMessage, NotAsked},
                       page : SUBSET Messages, ended : SUBSET Messages,
                       asked : SUBSET Requests]]

Called(r) == run[r].cause # NoMessage

\* What is stored names every recipient once and never its author, so one
\* message calls an assistant at most once and none calls itself.
CalledOnce ==
  /\ \A i \in Log : msg[i].author \notin ToSet(msg[i].to) /\ IsInjective(msg[i].to)
  /\ \A r, s \in Runs : Called(r) /\ run[r].cause = run[s].cause /\ run[r].assistant = run[s].assistant => r = s
  /\ \A r \in Runs : Called(r) => run[r].by # run[r].assistant

\* An assistant that is called finds the message: it is stored before the run
\* exists, and query_event then answers with it or a later one, as long as the
\* thread is no longer than the page it reads.
TriggerIsFound ==
  \A r \in Runs : Called(r) =>
    /\ run[r].cause \in Log
    /\ run[r].answer # NotAsked /\ Cardinality(run[r].page) <= Lookback => run[r].answer >= run[r].cause

\* Every assistant a message names has a run, its own or another message's,
\* that goes on after the message was stored: none is called in vain.
AddresseeHasRun ==
  \A i \in Messages : msg[i].pc = "done" /\ (msg[i].run = NoRun \/ ParentDepth(i) < ChainDepthCap) =>
    \A a \in (ToSet(msg[i].to) \cap Assistants) \ msg[i].refused :
      \E r \in Runs : run[r].assistant = a /\ (Active(r) \/ i \in run[r].ended)

\* So has every assistant an explicit request names that was answered.  With an
\* idempotency key the request may instead have been given, for this assistant
\* as for the others, the one run that carries the key.
InviteeHasRun ==
  \A q \in Requests : req[q].pc = "done" =>
    \A a \in ToSet(req[q].to) :
      \/ \E r \in Runs : run[r].assistant = a /\ (Active(r) \/ q \in run[r].asked)
      \/ Carrying(req[q].key) # {}

\* Runs that call each other by messages form chains of at most ChainDepthCap
\* links, counted from a person's message or an explicit invocation, whichever
\* of them ended meanwhile and whoever answers to a call.
ChainBounded ==
  \A r \in Runs : /\ run[r].depth <= ChainDepthCap
                  /\ Called(r) => run[r].depth = ParentDepth(run[r].cause) + 1

\* A run publishes one message at a time and never past its end: the chain depth
\* _auto_invoke_recipients looks up is that of a run still in the table.
PublishersDrive ==
  LET underway == {i \in Messages : /\ msg[i].run # NoRun
                                    /\ msg[i].pc \in {"built", "checked", "calling"}}
  IN  \A i \in underway : /\ Active(msg[i].run)
                           /\ \A j \in underway : msg[j].run = msg[i].run => j = i

-----------------------------------------------------------------------------
(* Routing hands out runs as AssistantSlot promises.                       *)

phase == [r \in Runs |-> IF run[r].pc = "unborn" THEN "new"
                         ELSE IF run[r].pc = "driving" THEN "holding" ELSE "left"]

Slot == INSTANCE AssistantSlot
          WITH slot <- [r \in Runs |-> run[r].assistant], closed <- FALSE, NoAssistant <- NoOne

\* The runs messages, invocations and handlers ask for are admitted and given
\* back as RunExecutor does it, who implements the same AssistantSlot.
SlotSpec == Slot!SlotSpec

-----------------------------------------------------------------------------
\* query_event's comment: history is walked backwards from the most recent
\* event, so what it answers is the last message to this assistant.
QueryWalksFromLatest ==
  \A r \in Runs : run[r].answer # NotAsked =>
    \A i \in run[r].page : msg[i].author = run[r].by /\ run[r].assistant \in ToSet(msg[i].to)
      => i <= run[r].answer
=============================================================================
