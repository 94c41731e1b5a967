------------------------ MODULE TenantRoutingProofs ------------------------
(* Theorems about Namespaces and TenantRouting.                               *)
EXTENDS TenantRouting, SequenceTheorems, TLAPS

-----------------------------------------------------------------------------
(* Namespaces: parse_namespace_path and derive_namespace_path are inverse.    *)

\* The namespace keys are numbered, each by one number.
LEMMA KeysNumbered ==
  /\ Depth \in Nat \ {0}
  /\ \A i \in 1 .. Depth : NamespaceKeys[i] \in Keys
  /\ \A k \in Keys : \E i \in 1 .. Depth : NamespaceKeys[i] = k
  /\ \A i, j \in 1 .. Depth : NamespaceKeys[i] = NamespaceKeys[j] => i = j
<1>1. DOMAIN NamespaceKeys = 1 .. Depth /\ Depth \in Nat
  BY NamespaceAssumption, LenProperties DEF Depth
<1>2. Depth # 0
  BY NamespaceAssumption, EmptySeq DEF Depth
<1> QED
  BY <1>1, <1>2, NamespaceAssumption DEF Keys, Range, IsInjective

\* What is read at a key is the segment with its number.
LEMMA ParseReads ==
  ASSUME NEW p, NEW i \in 1 .. Depth
  PROVE  Parse(p)[NamespaceKeys[i]] = p.segments[i]
<1>1. NamespaceKeys[i] \in Keys
  BY KeysNumbered
<1>2. (CHOOSE j \in 1 .. Depth : NamespaceKeys[j] = NamespaceKeys[i]) = i
  BY KeysNumbered
<1> QED
  BY <1>1, <1>2 DEF Parse

\* A socket that connects to the namespace derived from a tenant is asked for
\* the values of that tenant at every namespace key.
THEOREM DerivedIsParsed ==
  ASSUME NEW t \in Tenants, Derivable(t)
  PROVE  /\ Parseable(Derive(t))
         /\ \A k \in Keys : Parse(Derive(t))[k] = t[k]
<1>1. \A i \in 1 .. Depth : NamespaceKeys[i] \in Keys /\ Derive(t).segments[i] = t[NamespaceKeys[i]]
  BY KeysNumbered DEF Derive
<1>2. DOMAIN Derive(t).segments = 1 .. Depth
  BY DEF Derive
<1>3. Len(Derive(t).segments) = Depth
  <2> DEFINE f == [i \in 1 .. Depth |-> t[NamespaceKeys[i]]]
  <2>1. \A i \in 1 .. Depth : f[i] \in Values
    BY <1>1, NamespaceAssumption DEF Derivable, Derive
  <2>2. f \in Seq(Values)
    BY <2>1, KeysNumbered, SeqDef
  <2>3. Len(f) \in Nat /\ DOMAIN f = 1 .. Len(f) /\ DOMAIN f = 1 .. Depth
    BY <2>2, LenProperties
  <2>4. Len(f) = Depth
    BY <2>3, KeysNumbered
  <2> QED
    BY <2>4 DEF Derive
<1>4. Parseable(Derive(t))
  BY <1>1, <1>2, <1>3 DEF Parseable, Derivable
<1>5. ASSUME NEW k \in Keys PROVE Parse(Derive(t))[k] = t[k]
  <2>1. PICK i \in 1 .. Depth : NamespaceKeys[i] = k
    BY KeysNumbered
  <2> QED
    BY <1>1, <2>1, ParseReads
<1> QED
  BY <1>4, <1>5

\* A namespace is derived from one combination of values only: a path that is
\* read back is, but for the padding, the path of every tenant that has what
\* was read.
THEOREM ParsedIsDerived ==
  ASSUME NEW p \in Paths, Parseable(p), NEW t, \A k \in Keys : t[k] = Parse(p)[k]
  PROVE  Derive(t).segments = p.segments
<1>1. PICK n \in 0 .. Depth + 1 : p.segments \in [1 .. n -> Values]
  BY DEF Paths
<1>2. p.segments \in Seq(Values)
  BY <1>1, SeqDef, KeysNumbered
<1>3. DOMAIN p.segments = 1 .. Depth
  BY <1>2, LenProperties DEF Parseable
<1>4. \A i \in 1 .. Depth : t[NamespaceKeys[i]] = p.segments[i]
  BY KeysNumbered, ParseReads
<1> QED
  BY <1>1, <1>3, <1>4 DEF Derive

-----------------------------------------------------------------------------
(* The inductive invariant.                                                   *)

\* What an actor holds where it is.
ActorFits(x) ==
  /\ x.pc # "idle" => x.held \in 1 .. Now /\ x.known \in 1 .. Now
  /\ x.pc \in {"announcing", "showing"} => x.new \in 1 .. Now
  /\ x.pc = "announcing" => x.known < x.new /\ Tenant(x.known) # Tenant(x.new)
  /\ x.pc = "sending" => x.at \in 1 .. Len(log)
InvActor == \A a \in Actors : ActorFits(actor[a])

\* Whoever is in a room, or will be, came from a namespace that is its own and
\* saw the thread in it.
SockFits(x) ==
  /\ x.pc = "open" => Admissible(x.ns, x.who)
  /\ x.room => x.pc = "open"
  /\ x.pc = "open" /\ (x.room \/ x.joining) => x.seen \in 1 .. Now /\ Matches(Parse(x.ns), Tenant(x.seen))
  /\ x.pc \in {"unborn", "connecting", "refused"} => ~x.joining
InvSock == \A s \in Sockets : SockFits(sock[s])

\* Nothing reaches a socket before it is accepted.
InvDeaf == \A s \in Sockets :
  sock[s].pc \in {"unborn", "connecting", "refused"} => heard[s] = {} /\ shown[s] = NoVersion

\* The sockets an event counts on are in the room.
InvStored == \A i \in DOMAIN log : \A s \in log[i].stored : sock[s].room

\* A change is announced, or its author is about to.
WillAnnounce(v) == \E a \in Actors : actor[a].pc = "announcing" /\ actor[a].known = v - 1 /\ actor[a].new = v
InvMoves == alive => \A v \in 2 .. Now : past[v].knew = v - 1 => Announced(v) \/ WillAnnounce(v)
InvNames == \A i \in DOMAIN log : log[i].to # NoVersion =>
              log[i].from # NoVersion /\ log[i].from < log[i].to /\ Tenant(log[i].from) # Tenant(log[i].to)

Meetings == InvSock /\ InvDeaf /\ InvStored /\ NoCrossing /\ SameTenancyMeets /\ CacheFits
IInv == TypeOK /\ InvActor /\ Meetings /\ InvMoves /\ InvNames

Pasts == [tenant : Tenants, knew : Nat]
ActorSet(n, k) == [pc : {"idle", "ready", "sending", "announcing", "showing"},
                   held : 0 .. n, known : 0 .. n, new : 0 .. n, at : 0 .. k]
Entries(n) == [as : 1 .. n, from : 0 .. n, to : 0 .. n, stored : SUBSET Sockets, sent : BOOLEAN]
SocketSet(n) == [pc : {"unborn", "connecting", "refused", "open", "gone"},
                 ns : Paths \cup {NoPath}, who : Tenants, joining : BOOLEAN,
                 seen : 0 .. n, room : BOOLEAN, late : BOOLEAN]

\* TypeOK with its sets named.
TypeNamed ==
  /\ past \in Seq(Pasts) /\ alive \in BOOLEAN /\ (alive => past # <<>>)
  /\ actor \in [Actors -> ActorSet(Now, Len(log))]
  /\ log \in Seq(Entries(Now))
  /\ sock \in [Sockets -> SocketSet(Now)]
  /\ cached \in [Sockets -> Paths \cup {NoPath}]
  /\ heard \in [Sockets -> SUBSET DOMAIN log] /\ shown \in [Sockets -> 0 .. Now]

LEMMA Named == TypeOK <=> TypeNamed
BY DEF TypeOK, TypeNamed, Pasts, ActorSet, Entries, SocketSet

LEMMA Lengths ==
  ASSUME TypeOK
  PROVE  /\ Now \in Nat /\ DOMAIN past = 1 .. Now /\ \A v \in 1 .. Now : past[v] \in Pasts
         /\ Len(log) \in Nat /\ DOMAIN log = 1 .. Len(log) /\ \A i \in 1 .. Len(log) : log[i] \in Entries(Now)
BY Named, LenProperties, ElementOfSeq DEF TypeNamed, Now

\* The tenants a thread had stay what they were.
Grown == /\ Now' \in Nat /\ Now <= Now'
         /\ \A v \in 1 .. Now : past'[v] = past[v]

\* A path without a value is none that a client is let in with.
LEMMA NothingHasType == NoOne \in Tenants
<1>1. NoOne \in [{} -> Values]
  BY DEF NoOne
<1> QED
  BY <1>1 DEF Tenants

LEMMA StartTyped == Init => IInv
<1> SUFFICES ASSUME Init PROVE IInv
  OBVIOUS
<1>1. Now = 0 /\ Len(log) = 0 /\ DOMAIN log = {} /\ log \in Seq(Entries(0)) /\ past \in Seq(Pasts)
  BY EmptySeq, LenProperties DEF Init, Now
<1>2. Idle \in ActorSet(0, 0)
  BY DEF Idle, ActorSet, NoVersion
<1>3. Unborn \in SocketSet(0)
  BY NothingHasType DEF Unborn, SocketSet, NoVersion
<1>4. TypeOK
  <2>1. actor \in [Actors -> ActorSet(0, 0)] /\ sock \in [Sockets -> SocketSet(0)]
    BY <1>2, <1>3 DEF Init
  <2>2. cached \in [Sockets -> Paths \cup {NoPath}] /\ heard \in [Sockets -> SUBSET DOMAIN log]
    BY DEF Init
  <2>3. shown \in [Sockets -> 0 .. 0] /\ alive = FALSE
    BY DEF Init, NoVersion
  <2> QED
    BY <1>1, <2>1, <2>2, <2>3, Named DEF TypeNamed
<1>5. InvActor
  BY DEF Init, InvActor, ActorFits, Idle
<1>6. InvSock /\ InvDeaf /\ CacheFits
  BY DEF Init, InvSock, SockFits, InvDeaf, Unborn, CacheFits
<1>7. InvStored /\ SameTenancyMeets /\ InvMoves /\ InvNames
  BY <1>1 DEF InvStored, SameTenancyMeets, InvMoves, InvNames, Init
<1>8. NoCrossing
  BY DEF NoCrossing, Init
<1> QED
  BY <1>4, <1>5, <1>6, <1>7, <1>8 DEF IInv, Meetings

-----------------------------------------------------------------------------
(* What a step of the server leaves as it was.                                *)

\* Types grow with the versions and the log.
LEMMA SetsGrow ==
  ASSUME NEW n \in Nat, NEW m \in Nat, n <= m, NEW k \in Nat, NEW l \in Nat, k <= l
  PROVE  /\ ActorSet(n, k) \subseteq ActorSet(m, l)
         /\ Entries(n) \subseteq Entries(m) /\ SocketSet(n) \subseteq SocketSet(m)
<1>1. 0 .. n \subseteq 0 .. m /\ 1 .. n \subseteq 1 .. m /\ 0 .. k \subseteq 0 .. l
  OBVIOUS
<1> QED
  BY <1>1 DEF ActorSet, Entries, SocketSet

\* What an actor held it still holds, and the tenants it held are the same.
LEMMA FitsOn ==
  ASSUME TypeOK, Grown, Len(log') \in Nat, Len(log) <= Len(log'),
         NEW x \in ActorSet(Now, Len(log)), ActorFits(x)
  PROVE  ActorFits(x)'
<1>1. Now \in Nat /\ Now' \in Nat /\ Now <= Now' /\ Len(log) \in Nat
  BY Lengths DEF Grown
<1>2. \A v \in 1 .. Now : v \in 1 .. Now' /\ Tenant(v)' = Tenant(v)
  BY <1>1 DEF Grown, Tenant
<1>3. x.at \in 1 .. Len(log) => x.at \in 1 .. Len(log')
  BY <1>1
<1> QED
  BY <1>2, <1>3 DEF ActorFits

\* One actor goes on; the others are where they were.
LEMMA ActorGoes ==
  ASSUME IInv, Grown, Len(log') \in Nat, Len(log) <= Len(log'),
         NEW a \in Actors, NEW to \in ActorSet(Now', Len(log')), Goes(a, to), ActorFits(to)'
  PROVE  /\ actor' \in [Actors -> ActorSet(Now', Len(log'))]
         /\ InvActor'
         /\ actor'[a] = to /\ \A b \in Actors \ {a} : actor'[b] = actor[b]
<1>1. TypeOK /\ TypeNamed /\ InvActor
  BY Named DEF IInv
<1>2. actor \in [Actors -> ActorSet(Now, Len(log))]
  BY <1>1 DEF TypeNamed
<1>3. actor' = [actor EXCEPT ![a] = to]
  BY DEF Goes
<1>4. actor'[a] = to /\ \A b \in Actors \ {a} : actor'[b] = actor[b]
  BY <1>2, <1>3
<1>5. ActorSet(Now, Len(log)) \subseteq ActorSet(Now', Len(log'))
  BY <1>1, Lengths, SetsGrow DEF Grown
<1>6. actor' \in [Actors -> ActorSet(Now', Len(log'))]
  BY <1>2, <1>3, <1>5
<1>7. ASSUME NEW b \in Actors PROVE ActorFits(actor[b])'
  <2>1. CASE b = a
    BY <1>4, <2>1 DEF ActorFits
  <2>2. CASE b # a
    <3>1. PICK x : x = actor[b]
      OBVIOUS
    <3>2. x \in ActorSet(Now, Len(log)) /\ ActorFits(x)
      BY <1>1, <1>2, <3>1 DEF InvActor
    <3>3. ActorFits(x)'
      BY <1>1, <3>2, FitsOn
    <3>4. actor'[b] = x
      BY <1>4, <2>2, <3>1
    <3> QED
      BY <3>3, <3>4 DEF ActorFits
  <2> QED
    BY <2>1, <2>2
<1>8. InvActor'
  BY <1>7 DEF InvActor
<1> QED
  BY <1>4, <1>6, <1>8

\* Sockets that are left alone stay what they are.
LEMMA SocketsStay ==
  ASSUME IInv, Grown, UNCHANGED wire
  PROVE  InvSock' /\ CacheFits'
<1>1. \A v \in 1 .. Now : v \in 1 .. Now' /\ Tenant(v)' = Tenant(v)
  BY Lengths DEF Grown, Tenant, IInv
<1>2. InvSock /\ CacheFits
  BY DEF IInv, Meetings
<1>3. InvSock'
  BY <1>1, <1>2 DEF InvSock, SockFits, wire
<1> QED
  BY <1>2, <1>3 DEF CacheFits, wire

\* A tenant is changed, a thread created or deleted, an actor goes on alone.
LEMMA QuietMeetings ==
  ASSUME IInv, Grown, UNCHANGED <<log, wire, heard, shown>>
  PROVE  Meetings'
<1>1. InvSock' /\ CacheFits'
  BY SocketsStay
<1>2. Meetings /\ TypeOK /\ TypeNamed
  BY Named DEF IInv
<1>3. \A v \in 1 .. Now : Tenant(v)' = Tenant(v)
  BY DEF Grown, Tenant
<1>4. \A i \in DOMAIN log : log[i].as \in 1 .. Now
  BY <1>2, Lengths DEF Entries
<1>5. InvDeaf' /\ InvStored'
  BY <1>2 DEF Meetings, InvDeaf, InvStored, wire
<1>6. NoCrossing'
  <2> SUFFICES ASSUME NEW s \in Sockets
               PROVE  /\ \A i \in heard[s] : Agrees(Tenant(log[i].as)', sock[s].who)
                      /\ shown[s] # NoVersion => Agrees(Tenant(shown[s])', sock[s].who)
    BY DEF NoCrossing, wire, Agrees
  <2>1. \A i \in heard[s] : i \in DOMAIN log /\ Agrees(Tenant(log[i].as), sock[s].who)
    BY <1>2 DEF Meetings, NoCrossing, TypeNamed
  <2>2. shown[s] # NoVersion => shown[s] \in 1 .. Now /\ Agrees(Tenant(shown[s]), sock[s].who)
    BY <1>2, Lengths DEF Meetings, NoCrossing, TypeNamed, NoVersion
  <2> QED
    BY <1>3, <1>4, <2>1, <2>2
<1>7. SameTenancyMeets'
  <2> SUFFICES ASSUME NEW i \in DOMAIN log, log[i].sent, NEW s \in log[i].stored, ~sock[s].ns.padded,
                      Agrees(Tenant(log[i].as)', Tenant(sock[s].seen)')
               PROVE  i \in heard[s]
    BY DEF SameTenancyMeets, wire, Agrees
  <2>1. s \in Sockets /\ sock[s].seen \in 1 .. Now
    <3>1. s \in Sockets
      BY <1>2, Lengths DEF Entries
    <3>2. sock[s].room
      BY <1>2 DEF Meetings, InvStored
    <3> QED
      BY <1>2, <3>1, <3>2 DEF Meetings, InvSock, SockFits
  <2>2. Agrees(Tenant(log[i].as), Tenant(sock[s].seen))
    BY <1>3, <1>4, <2>1 DEF wire
  <2> QED
    BY <1>2, <2>2 DEF Meetings, SameTenancyMeets
<1> QED
  BY <1>1, <1>5, <1>6, <1>7 DEF Meetings

\* An event is stored, and not sent yet.
LEMMA StoreMeetings ==
  ASSUME IInv, UNCHANGED <<past, wire, heard, shown>>,
         NEW e \in Entries(Now), e.stored = InRoom, ~e.sent, log' = Append(log, e)
  PROVE  Meetings'
<1>1. Meetings /\ TypeOK /\ TypeNamed /\ Grown
  BY Named, Lengths DEF IInv, Grown, Now
<1>2. InvSock' /\ CacheFits'
  BY <1>1, SocketsStay
<1>3. /\ DOMAIN log = 1 .. Len(log) /\ Len(log) \in Nat
      /\ DOMAIN log' = 1 .. Len(log) + 1
      /\ \A i \in 1 .. Len(log) : log'[i] = log[i]
      /\ log'[Len(log) + 1] = e
  BY <1>1, Lengths, AppendProperties, LenProperties DEF TypeNamed
<1>4. InvDeaf'
  BY <1>1 DEF Meetings, InvDeaf, wire
<1>5. InvStored'
  <2> SUFFICES ASSUME NEW i \in DOMAIN log', NEW s \in log'[i].stored PROVE sock[s].room
    BY DEF InvStored, wire
  <2>1. CASE i \in DOMAIN log
    BY <1>1, <1>3, <2>1 DEF Meetings, InvStored
  <2>2. CASE i = Len(log) + 1
    BY <1>3, <2>2 DEF InRoom
  <2> QED
    BY <1>3, <2>1, <2>2
<1>6. NoCrossing'
  <2> SUFFICES ASSUME NEW s \in Sockets
               PROVE  /\ \A i \in heard[s] : Agrees(Tenant(log'[i].as), sock[s].who)
                      /\ shown[s] # NoVersion => Agrees(Tenant(shown[s]), sock[s].who)
    BY DEF NoCrossing, wire, Agrees, Tenant
  <2>1. heard[s] \subseteq DOMAIN log
    BY <1>1 DEF TypeNamed
  <2> QED
    BY <1>1, <1>3, <2>1 DEF Meetings, NoCrossing
<1>7. SameTenancyMeets'
  <2> SUFFICES ASSUME NEW i \in DOMAIN log', log'[i].sent, NEW s \in log'[i].stored, ~sock[s].ns.padded,
                      Agrees(Tenant(log'[i].as), Tenant(sock[s].seen))
               PROVE  i \in heard[s]
    BY DEF SameTenancyMeets, wire, Agrees, Tenant
  <2>1. i \in DOMAIN log
    BY <1>3
  <2> QED
    BY <1>1, <1>3, <2>1 DEF Meetings, SameTenancyMeets
<1> QED
  BY <1>2, <1>4, <1>5, <1>6, <1>7 DEF Meetings

\* What reaches a socket is what its identity has: the namespace it came from is
\* the one of the tenant, and it was let in because it has those values.
LEMMA ReachedAgrees ==
  ASSUME IInv, NEW v \in 1 .. Now, NEW s \in Sockets, Reaches(v, s)
  PROVE  Agrees(Tenant(v), sock[s].who) /\ sock[s].pc = "open"
<1>1. Tenant(v) \in Tenants
  BY Lengths DEF IInv, Tenant, Pasts
<1>2. sock[s].pc = "open" /\ Derivable(Tenant(v)) /\ sock[s].ns = Derive(Tenant(v))
  BY DEF Reaches, InRoom
<1>3. Admissible(sock[s].ns, sock[s].who)
  BY <1>2 DEF IInv, Meetings, InvSock, SockFits
<1>4. \A k \in Keys : k \in DOMAIN sock[s].who /\ sock[s].who[k] = Parse(sock[s].ns)[k]
  BY <1>3 DEF Admissible, Matches, Parse
<1>5. \A k \in Keys : Parse(sock[s].ns)[k] = Tenant(v)[k]
  BY <1>1, <1>2, DerivedIsParsed
<1> QED
  BY <1>2, <1>4, <1>5 DEF Agrees

\* A socket is reached if it joined in the namespace of a tenant that has the
\* same one.
LEMMA MetIsReached ==
  ASSUME IInv, NEW v \in 1 .. Now, NEW s \in Sockets, sock[s].room,
         ~sock[s].ns.padded, Agrees(Tenant(v), Tenant(sock[s].seen))
  PROVE  Reaches(v, s)
<1>1. sock[s].pc = "open" /\ Parseable(sock[s].ns) /\ Matches(Parse(sock[s].ns), Tenant(sock[s].seen))
  BY DEF IInv, Meetings, InvSock, SockFits, Admissible
<1>2. sock[s].ns \in Paths
  <2>1. sock[s].ns \in Paths \cup {NoPath}
    BY Named DEF IInv, TypeNamed, SocketSet
  <2> QED
    BY <2>1 DEF NoPath
<1>3. \A k \in Keys : Tenant(v)[k] = Parse(sock[s].ns)[k]
  BY <1>1 DEF Agrees, Matches, Parse
<1>4. Derive(Tenant(v)).segments = sock[s].ns.segments
  BY <1>1, <1>2, <1>3, ParsedIsDerived
<1>5. sock[s].ns = [segments |-> sock[s].ns.segments, padded |-> FALSE]
  BY <1>2 DEF Paths
<1>6. Derive(Tenant(v)) = [segments |-> Derive(Tenant(v)).segments, padded |-> FALSE]
  BY DEF Derive
<1>7. sock[s].ns = Derive(Tenant(v))
  BY <1>4, <1>5, <1>6
<1> QED
  BY <1>1, <1>7 DEF Reaches, InRoom, Agrees

\* Frames are shown.
LEMMA FrameMeetings ==
  ASSUME IInv, UNCHANGED <<past, log, wire, heard>>, NEW v \in 1 .. Now, Frame(v, v)
  PROVE  Meetings' /\ shown' \in [Sockets -> 0 .. Now]
<1>1. Meetings /\ TypeOK /\ TypeNamed /\ Grown
  BY Named, Lengths DEF IInv, Grown, Now
<1>2. InvSock' /\ CacheFits'
  BY <1>1, SocketsStay
<1>3. \A s \in Sockets : shown'[s] = IF Reaches(v, s) THEN v ELSE shown[s]
  BY DEF Frame
<1>4. shown' \in [Sockets -> 0 .. Now]
  BY <1>1 DEF Frame, TypeNamed
<1>5. InvDeaf'
  BY <1>1, <1>3, ReachedAgrees DEF Meetings, InvDeaf, wire
<1>6. InvStored' /\ SameTenancyMeets'
  BY <1>1 DEF Meetings, InvStored, SameTenancyMeets, wire, Agrees, Tenant
<1>7. NoCrossing'
  <2> SUFFICES ASSUME NEW s \in Sockets
               PROVE  /\ \A i \in heard[s] : Agrees(Tenant(log[i].as), sock[s].who)
                      /\ shown'[s] # NoVersion => Agrees(Tenant(shown'[s]), sock[s].who)
    BY DEF NoCrossing, wire, Agrees, Tenant
  <2>1. CASE Reaches(v, s)
    BY <1>1, <1>3, <2>1, ReachedAgrees DEF Meetings, NoCrossing
  <2>2. CASE ~Reaches(v, s)
    BY <1>1, <1>3, <2>2 DEF Meetings, NoCrossing
  <2> QED
    BY <2>1, <2>2
<1> QED
  BY <1>2, <1>4, <1>5, <1>6, <1>7 DEF Meetings

\* An event is sent.
LEMMA SendMeetings ==
  ASSUME IInv, UNCHANGED <<past, wire, shown>>, NEW n \in 1 .. Len(log), NEW v, v = log[n].as,
         heard' = [s \in Sockets |-> IF Reaches(v, s) THEN heard[s] \cup {n} ELSE heard[s]],
         log' = [log EXCEPT ![n].sent = TRUE]
  PROVE  /\ Meetings' /\ log' \in Seq(Entries(Now)) /\ Len(log') = Len(log)
         /\ heard' \in [Sockets -> SUBSET DOMAIN log']
         /\ \A i \in DOMAIN log : /\ i \in DOMAIN log' /\ log'[i].from = log[i].from
                                  /\ log'[i].to = log[i].to /\ log'[i].as = log[i].as
<1>1. Meetings /\ TypeOK /\ TypeNamed /\ Grown
  BY Named, Lengths DEF IInv, Grown, Now
<1>2. InvSock' /\ CacheFits'
  BY <1>1, SocketsStay
<1> DEFINE e == [log[n] EXCEPT !.sent = TRUE]
<1>3. log[n] \in Entries(Now)
  BY <1>1, Lengths
<1>4. /\ e \in Entries(Now) /\ e.as = log[n].as /\ e.from = log[n].from
      /\ e.to = log[n].to /\ e.stored = log[n].stored
  BY <1>3 DEF Entries
<1>5. log' = [log EXCEPT ![n] = e]
  OBVIOUS
<1> HIDE DEF e
<1>6. /\ log' \in Seq(Entries(Now)) /\ Len(log') = Len(log)
      /\ \A i \in 1 .. Len(log) : log'[i] = IF i = n THEN e ELSE log[i]
  <2>1. log \in Seq(Entries(Now))
    BY <1>1 DEF TypeNamed
  <2>2. PICK q : q = [log EXCEPT ![n] = e]
    OBVIOUS
  <2>3. /\ q \in Seq(Entries(Now)) /\ Len(q) = Len(log)
        /\ \A i \in 1 .. Len(log) : q[i] = IF i = n THEN e ELSE log[i]
    BY <1>4, <2>1, <2>2, ExceptSeq
  <2> QED
    BY <1>5, <2>2, <2>3
<1>7. DOMAIN log' = DOMAIN log /\ DOMAIN log = 1 .. Len(log)
  BY <1>1, <1>6, LenProperties DEF TypeNamed
<1>8. \A i \in DOMAIN log : /\ log'[i].as = log[i].as /\ log'[i].stored = log[i].stored
                            /\ log'[i].from = log[i].from /\ log'[i].to = log[i].to
                            /\ i # n => log'[i].sent = log[i].sent
  BY <1>4, <1>6, <1>7
<1>9. \A s \in Sockets : heard'[s] = IF Reaches(v, s) THEN heard[s] \cup {n} ELSE heard[s]
  OBVIOUS
<1>10. heard' \in [Sockets -> SUBSET DOMAIN log']
  BY <1>1, <1>7 DEF TypeNamed
<1>11. v \in 1 .. Now
  BY <1>3 DEF Entries
<1>12. InvDeaf'
  BY <1>1, <1>9, <1>11, ReachedAgrees DEF Meetings, InvDeaf, wire
<1>13. InvStored'
  BY <1>1, <1>7, <1>8 DEF Meetings, InvStored, wire
<1>14. NoCrossing'
  <2> SUFFICES ASSUME NEW s \in Sockets
               PROVE  /\ \A i \in heard'[s] : Agrees(Tenant(log'[i].as), sock[s].who)
                      /\ shown[s] # NoVersion => Agrees(Tenant(shown[s]), sock[s].who)
    BY DEF NoCrossing, wire, Agrees, Tenant
  <2>1. \A i \in heard[s] : i \in DOMAIN log /\ Agrees(Tenant(log'[i].as), sock[s].who)
    BY <1>1, <1>8 DEF Meetings, NoCrossing, TypeNamed
  <2>2. Reaches(v, s) => Agrees(Tenant(log'[n].as), sock[s].who)
    BY <1>7, <1>8, <1>11, ReachedAgrees
  <2> QED
    BY <1>1, <1>9, <2>1, <2>2 DEF Meetings, NoCrossing
<1>15. SameTenancyMeets'
  <2> SUFFICES ASSUME NEW i \in DOMAIN log', log'[i].sent, NEW s \in log'[i].stored, ~sock[s].ns.padded,
                      Agrees(Tenant(log'[i].as), Tenant(sock[s].seen))
               PROVE  i \in heard'[s]
    BY DEF SameTenancyMeets, wire, Agrees, Tenant
  <2>1. s \in Sockets /\ s \in log[i].stored /\ sock[s].room
    <3>1. log[i] \in Entries(Now)
      BY <1>1, <1>7, Lengths
    <3> QED
      BY <1>1, <1>7, <1>8, <3>1 DEF Meetings, InvStored, Entries
  <2>2. CASE i = n
    BY <1>7, <1>8, <1>9, <1>11, <2>1, <2>2, MetIsReached
  <2>3. CASE i # n
    BY <1>1, <1>7, <1>8, <1>9, <2>1, <2>3 DEF Meetings, SameTenancyMeets
  <2> QED
    BY <2>2, <2>3
<1> QED
  BY <1>2, <1>6, <1>7, <1>8, <1>10, <1>12, <1>13, <1>14, <1>15 DEF Meetings

-----------------------------------------------------------------------------
(* The steps of actors.                                                       *)

LEMMA NamedNext == TypeOK' <=> TypeNamed'
BY DEF TypeOK, TypeNamed, Pasts, ActorSet, Entries, SocketSet

\* Entries of the log keep the versions they name.
LogKept == \A i \in DOMAIN log : i \in DOMAIN log' /\ log'[i].from = log[i].from /\ log'[i].to = log[i].to

\* What remains to be shown of an actor's step.
LEMMA ActorStep ==
  ASSUME IInv, Grown, past' \in Seq(Pasts), alive' = alive, alive => past' # <<>>,
         log' \in Seq(Entries(Now')), Len(log) <= Len(log'),
         heard' \in [Sockets -> SUBSET DOMAIN log'], shown' \in [Sockets -> 0 .. Now'], UNCHANGED wire,
         NEW a \in Actors, NEW to \in ActorSet(Now', Len(log')), Goes(a, to), ActorFits(to)',
         Meetings', InvMoves', InvNames'
  PROVE  IInv'
<1>1. Len(log') \in Nat
  BY LenProperties
<1>2. actor' \in [Actors -> ActorSet(Now', Len(log'))] /\ InvActor'
  BY <1>1, ActorGoes
<1>3. TypeNamed /\ Now \in Nat
  BY Named, Lengths DEF IInv
<1>4. sock' \in [Sockets -> SocketSet(Now')]
  <2>1. SocketSet(Now) \subseteq SocketSet(Now')
    BY <1>1, <1>3, SetsGrow DEF Grown
  <2> QED
    BY <1>3, <2>1 DEF TypeNamed, wire
<1>5. TypeNamed'
  BY <1>2, <1>3, <1>4 DEF TypeNamed, wire
<1> QED
  BY <1>2, <1>5, NamedNext DEF IInv

\* No tenant is added: a change that was to be announced still is, or the thread
\* is gone, or there is its announcement.
LEMMA MovesKept ==
  ASSUME IInv, past' = past, alive' => alive, LogKept,
         \A a \in Actors : actor[a].pc = "announcing" /\ alive' =>
           \/ actor'[a] = actor[a]
           \/ \E i \in DOMAIN log' : log'[i].from = actor[a].known /\ log'[i].to = actor[a].new
  PROVE  InvMoves'
<1> SUFFICES ASSUME alive', NEW v \in 2 .. Now, past[v].knew = v - 1
             PROVE  Announced(v)' \/ WillAnnounce(v)'
  BY DEF InvMoves, Now, Announced, WillAnnounce
<1>1. Announced(v) \/ WillAnnounce(v)
  BY DEF IInv, InvMoves
<1>2. CASE Announced(v)
  BY <1>2 DEF Announced, LogKept
<1>3. CASE WillAnnounce(v)
  BY <1>3 DEF WillAnnounce, Announced
<1> QED
  BY <1>1, <1>2, <1>3

\* New entries name two tenants, the older first, or none.
LEMMA NamesKept ==
  ASSUME IInv, Grown, LogKept,
         \A i \in DOMAIN log' \ DOMAIN log : log'[i].to # NoVersion =>
           log'[i].from # NoVersion /\ log'[i].from < log'[i].to /\ past'[log'[i].from].tenant # past'[log'[i].to].tenant
  PROVE  InvNames'
<1> SUFFICES ASSUME NEW i \in DOMAIN log', log'[i].to # NoVersion
             PROVE  log'[i].from # NoVersion /\ log'[i].from < log'[i].to /\ past'[log'[i].from].tenant # past'[log'[i].to].tenant
  BY DEF InvNames, Tenant
<1>1. CASE i \in DOMAIN log
  <2>1. log'[i].from = log[i].from /\ log'[i].to = log[i].to
    BY <1>1 DEF LogKept
  <2>2. log[i].from # NoVersion /\ log[i].from < log[i].to /\ Tenant(log[i].from) # Tenant(log[i].to)
    BY <1>1, <2>1 DEF IInv, InvNames
  <2>3. log[i].from \in 0 .. Now /\ log[i].to \in 0 .. Now /\ Now \in Nat
    BY <1>1, Lengths DEF Entries, IInv
  <2>4. log[i].to \in 1 .. Now /\ log[i].from \in 1 .. Now
    BY <2>2, <2>3 DEF NoVersion
  <2> QED
    BY <2>1, <2>2, <2>3, <2>4 DEF Grown, Tenant
<1> QED
  BY <1>1

\* The thread is left as it is.
LEMMA SamePast ==
  ASSUME IInv, UNCHANGED rows
  PROVE  Grown /\ Now' = Now /\ past' \in Seq(Pasts) /\ alive' = alive /\ (alive => past' # <<>>)
BY Named, Lengths DEF IInv, TypeNamed, Grown, Now, rows

\* Nothing but the actor changes.
LEMMA AloneStep ==
  ASSUME IInv, UNCHANGED <<rows, log, wire, heard, shown>>,
         NEW a \in Actors, actor[a].pc # "announcing" \/ ~alive,
         NEW to \in ActorSet(Now, Len(log)), Goes(a, to), ActorFits(to)
  PROVE  IInv'
<1>1. Grown /\ Now' = Now /\ past' \in Seq(Pasts) /\ alive' = alive /\ (alive => past' # <<>>) /\ past' = past
  BY SamePast DEF rows
<1>2. TypeOK /\ TypeNamed /\ Len(log) \in Nat
  BY Named, Lengths DEF IInv
<1>3. ActorFits(to)'
  BY <1>1 DEF ActorFits, Tenant
<1>4. /\ log' \in Seq(Entries(Now')) /\ Len(log) <= Len(log')
      /\ heard' \in [Sockets -> SUBSET DOMAIN log'] /\ shown' \in [Sockets -> 0 .. Now']
  BY <1>1, <1>2 DEF TypeNamed
<1>5. Meetings'
  BY <1>1, QuietMeetings
<1>6. \A b \in Actors : actor[b].pc = "announcing" /\ alive' => actor'[b] = actor[b]
  BY <1>1, <1>2 DEF Goes, TypeNamed
<1>7. LogKept
  BY DEF LogKept
<1>8. InvMoves'
  BY <1>1, <1>6, <1>7, MovesKept
<1>9. InvNames'
  BY <1>1, <1>7, NamesKept
<1>10. UNCHANGED wire
  OBVIOUS
<1> QED
  BY <1>1, <1>3, <1>4, <1>5, <1>8, <1>9, <1>10, ActorStep

\* What is known of an actor before its step.
LEMMA Holds ==
  ASSUME IInv, NEW a \in Actors
  PROVE  actor[a] \in ActorSet(Now, Len(log)) /\ ActorFits(actor[a]) /\ Now \in Nat /\ Len(log) \in Nat
BY Named, Lengths DEF IInv, InvActor, TypeNamed

LEMMA IdleFits == ASSUME IInv PROVE Idle \in ActorSet(Now, Len(log)) /\ ActorFits(Idle)
<1>1. Now \in Nat /\ Len(log) \in Nat
  BY Lengths DEF IInv
<1> QED
  BY <1>1 DEF Idle, ActorSet, ActorFits, NoVersion

LEMMA StartStep ==
  ASSUME IInv, NEW a \in Actors, Start(a)
  PROVE  IInv'
<1>1. PICK to : to = [Idle EXCEPT !.pc = "ready", !.held = Now, !.known = Now]
  OBVIOUS
<1>2. Now \in 1 .. Now
  <2>1. alive /\ past # <<>> /\ past \in Seq(Pasts)
    BY Named DEF IInv, TypeNamed, Start
  <2> QED
    BY <2>1, EmptySeq, LenProperties DEF Now
<1>3. /\ to.pc = "ready" /\ to.held = Now /\ to.known = Now
      /\ to \in ActorSet(Now, Len(log))
  <2>1. to \in [pc : {"ready"}, held : {Now}, known : {Now}, new : {0}, at : {0}]
    BY <1>1 DEF Idle, NoVersion
  <2>2. Now \in Nat /\ Len(log) \in Nat
    BY Lengths DEF IInv
  <2> QED
    BY <2>1, <2>2 DEF ActorSet
<1>4. ActorFits(to)
  BY <1>2, <1>3 DEF ActorFits
<1>5. Goes(a, to) /\ actor[a].pc # "announcing" /\ UNCHANGED <<rows, log, wire, heard, shown>>
  BY <1>1 DEF Start
<1> QED
  BY <1>3, <1>4, <1>5, AloneStep

LEMMA FinishStep ==
  ASSUME IInv, NEW a \in Actors, Finish(a)
  PROVE  IInv'
<1>1. PICK to : to = Idle
  OBVIOUS
<1>2. Goes(a, to) /\ actor[a].pc # "announcing" /\ UNCHANGED <<rows, log, wire, heard, shown>>
  BY <1>1 DEF Finish
<1> QED
  BY <1>1, <1>2, IdleFits, AloneStep

\* An actor that finds the row gone.
LEMMA GoneStep ==
  ASSUME IInv, NEW a \in Actors, Gone(a), UNCHANGED <<wire, heard, shown>>
  PROVE  IInv'
<1>1. PICK to : to = Idle
  OBVIOUS
<1>2. Goes(a, to) /\ ~alive /\ UNCHANGED <<rows, log, wire, heard, shown>>
  BY <1>1 DEF Gone
<1> QED
  BY <1>1, <1>2, IdleFits, AloneStep

\* An actor whose step raised.
LEMMA RaisesStep ==
  ASSUME IInv, NEW a \in Actors, Raises(a), actor[a].pc \in {"sending", "showing"},
         UNCHANGED <<rows, log, wire, heard, shown>>
  PROVE  IInv'
<1>1. CASE Goes(a, Idle)
  <2>1. PICK to : to = Idle
    OBVIOUS
  <2> QED
    BY <1>1, <2>1, IdleFits, AloneStep
<1>2. CASE Goes(a, [actor[a] EXCEPT !.pc = "ready", !.new = NoVersion, !.at = 0])
  <2>1. PICK to : to = [actor[a] EXCEPT !.pc = "ready", !.new = NoVersion, !.at = 0]
    OBVIOUS
  <2>2. /\ to \in ActorSet(Now, Len(log)) /\ to.pc = "ready"
        /\ to.held = actor[a].held /\ to.known = actor[a].known
    <3>1. actor[a] \in ActorSet(Now, Len(log)) /\ Now \in Nat /\ Len(log) \in Nat
      BY Holds
    <3>2. to \in [pc : {"ready"}, held : {actor[a].held}, known : {actor[a].known}, new : {0}, at : {0}]
      BY <2>1, <3>1 DEF ActorSet, NoVersion
    <3> QED
      BY <3>1, <3>2 DEF ActorSet
  <2>3. ActorFits(to)
    BY <2>2, Holds DEF ActorFits
  <2> QED
    BY <1>2, <2>1, <2>2, <2>3, AloneStep
<1> QED
  BY <1>1, <1>2 DEF Raises

LEMMA MetadataStep ==
  ASSUME IInv, NEW a \in Actors, UpdateMetadata(a)
  PROVE  IInv'
<1>1. CASE Gone(a)
  BY <1>1, GoneStep DEF UpdateMetadata
<1>2. CASE alive /\ Goes(a, [actor[a] EXCEPT !.pc = "showing", !.new = Now]) /\ UNCHANGED <<rows, log>>
  <2>1. PICK to : to = [actor[a] EXCEPT !.pc = "showing", !.new = Now]
    OBVIOUS
  <2>2. actor[a].pc = "ready" /\ actor[a] \in ActorSet(Now, Len(log)) /\ ActorFits(actor[a]) /\ Now \in Nat
    BY Holds DEF UpdateMetadata
  <2>3. /\ to \in ActorSet(Now, Len(log)) /\ to.pc = "showing" /\ to.new = Now
        /\ to.held = actor[a].held /\ to.known = actor[a].known
    <3>1. to \in [pc : {"showing"}, held : {actor[a].held}, known : {actor[a].known}, new : {Now},
                  at : {actor[a].at}]
      BY <2>1, <2>2 DEF ActorSet
    <3> QED
      BY <2>2, <3>1 DEF ActorSet
  <2>4. Now \in 1 .. Now /\ actor[a].held \in 1 .. Now /\ actor[a].known \in 1 .. Now
    BY <2>2 DEF ActorFits
  <2>5. ActorFits(to)
    BY <2>3, <2>4 DEF ActorFits
  <2>6. UNCHANGED <<rows, log, wire, heard, shown>>
    BY <1>2 DEF UpdateMetadata
  <2> QED
    BY <1>2, <2>1, <2>2, <2>3, <2>5, <2>6, AloneStep
<1> QED
  BY <1>1, <1>2 DEF UpdateMetadata

\* A version is added, or is there already.
LEMMA PastGrows ==
  ASSUME TypeOK, NEW x \in Pasts, past' = Append(past, x)
  PROVE  /\ Grown /\ Now' = Now + 1 /\ past' \in Seq(Pasts) /\ past' # <<>>
         /\ past'[Now + 1] = x
<1>1. past \in Seq(Pasts)
  BY Named DEF TypeNamed
<1>2. past' \in Seq(Pasts) /\ Len(past') = Len(past) + 1 /\ past'[Len(past) + 1] = x
      /\ \A v \in 1 .. Len(past) : past'[v] = past[v]
  BY <1>1, AppendProperties
<1>3. past' # <<>>
  BY <1>1, <1>2, EmptySeq, LenProperties
<1> QED
  BY <1>2, <1>3, Lengths DEF Grown, Now

LEMMA TenantStep ==
  ASSUME IInv, NEW a \in Actors, NEW t \in Bodies, UpdateTenant(a, t)
  PROVE  IInv'
<1>1. CASE Gone(a)
  BY <1>1, GoneStep DEF UpdateTenant
<1>2. CASE ~Gone(a)
  <2> DEFINE x == [tenant |-> t, knew |-> actor[a].known]
  <2>1. /\ actor[a].pc = "ready" /\ alive /\ alive' = alive /\ UNCHANGED <<log, wire, heard, shown>>
        /\ past' = IF t = Tenant(Now) THEN past ELSE Append(past, x)
        /\ Goes(a, [actor[a] EXCEPT !.pc = IF Changed(a, t) THEN "announcing" ELSE "showing", !.new = Len(past')])
    BY <1>2 DEF UpdateTenant
  <2>2. actor[a] \in ActorSet(Now, Len(log)) /\ ActorFits(actor[a]) /\ Now \in Nat /\ Len(log) \in Nat
    BY Holds
  <2>3. actor[a].held \in 1 .. Now /\ actor[a].known \in 1 .. Now /\ actor[a].at \in 0 .. Len(log)
    BY <2>1, <2>2 DEF ActorFits, ActorSet
  <2>4. x \in Pasts
    BY <2>3, RoutingAssumption DEF Pasts
  <2>5. TypeOK /\ TypeNamed
    BY Named DEF IInv
  <2>6. /\ Grown /\ past' \in Seq(Pasts) /\ past' # <<>>
        /\ Now' \in {Now, Now + 1} /\ past'[Now'].tenant = t
        /\ Now' = Now => past' = past
        /\ Now' = Now + 1 => t # Tenant(Now) /\ past'[Now + 1] = x
    <3>1. CASE t = Tenant(Now)
      <4>1. past' = past /\ Now' = Now /\ past \in Seq(Pasts) /\ past # <<>>
        BY <2>1, <2>5, <3>1 DEF Now, TypeNamed
      <4>2. Now' # Now + 1
        BY <2>2, <4>1
      <4> QED
        BY <2>2, <3>1, <4>1, <4>2 DEF Grown, Tenant
    <3>2. CASE t # Tenant(Now)
      <4>1. past' = Append(past, x)
        BY <2>1, <3>2
      <4>2. /\ Grown /\ Now' = Now + 1 /\ past' \in Seq(Pasts) /\ past' # <<>> /\ past'[Now + 1] = x
        BY <2>4, <2>5, <4>1, PastGrows
      <4>3. Now' # Now /\ past'[Now'].tenant = t
        BY <2>2, <4>2
      <4> QED
        BY <3>2, <4>2, <4>3
    <3> QED
      BY <3>1, <3>2
  <2> HIDE DEF x
  <2>7. PICK to : to = [actor[a] EXCEPT !.pc = IF Changed(a, t) THEN "announcing" ELSE "showing", !.new = Len(past')]
    OBVIOUS
  <2>8. /\ to.pc = (IF Changed(a, t) THEN "announcing" ELSE "showing")
        /\ to.held = actor[a].held /\ to.known = actor[a].known /\ to.new = Now' /\ to.at = actor[a].at
        /\ to \in ActorSet(Now', Len(log'))
    <3> DEFINE p == IF Changed(a, t) THEN "announcing" ELSE "showing"
    <3>1. to \in [pc : {p}, held : {actor[a].held}, known : {actor[a].known}, new : {Now'}, at : {actor[a].at}]
      BY <2>2, <2>7 DEF ActorSet, Now
    <3>2. p \in {"announcing", "showing"}
      OBVIOUS
    <3>3. {Now'} \subseteq 0 .. Now' /\ {actor[a].held} \subseteq 0 .. Now' /\ {actor[a].known} \subseteq 0 .. Now'
          /\ {actor[a].at} \subseteq 0 .. Len(log')
      BY <2>1, <2>2, <2>3, <2>6
    <3> HIDE DEF p
    <3>4. to.pc = p /\ to \in ActorSet(Now', Len(log'))
      BY <3>1, <3>2, <3>3 DEF ActorSet
    <3> QED
      BY <3>1, <3>4 DEF p
  <2>9. Goes(a, to)
    BY <2>1, <2>7
  <2>10. Changed(a, t) => to.known < to.new /\ past'[to.known].tenant # past'[to.new].tenant
    <3>1. ASSUME Changed(a, t) PROVE actor[a].known # Now'
      <4>1. CASE Now' = Now
        BY <2>6, <3>1, <4>1 DEF Changed, Tenant
      <4>2. CASE Now' = Now + 1
        BY <2>2, <2>3, <4>2
      <4> QED
        BY <2>6, <4>1, <4>2
    <3>2. actor[a].known <= Now'
      BY <2>2, <2>3, <2>6
    <3>3. past'[actor[a].known].tenant = Tenant(actor[a].known)
      BY <2>3, <2>6 DEF Grown, Tenant
    <3>4. Changed(a, t) => past'[to.known].tenant # past'[to.new].tenant
      BY <2>6, <2>8, <3>3 DEF Changed
    <3>5. Changed(a, t) => actor[a].known < Now'
      BY <2>2, <2>3, <2>6, <3>1, <3>2
    <3> QED
      BY <2>8, <3>4, <3>5
  <2>11. ActorFits(to)'
    <3>1. to.held \in 1 .. Now' /\ to.known \in 1 .. Now' /\ to.new \in 1 .. Now'
      BY <2>2, <2>3, <2>6, <2>8
    <3>2. to.pc # "sending" /\ (to.pc = "announcing" => Changed(a, t))
      BY <2>8
    <3> QED
      BY <2>10, <3>1, <3>2 DEF ActorFits, Tenant
  <2>12. /\ log' \in Seq(Entries(Now')) /\ Len(log) <= Len(log')
         /\ heard' \in [Sockets -> SUBSET DOMAIN log'] /\ shown' \in [Sockets -> 0 .. Now']
    <3>1. Entries(Now) \subseteq Entries(Now') /\ 0 .. Now \subseteq 0 .. Now'
      BY <2>2, <2>6, SetsGrow DEF Grown
    <3>2. log \in Seq(Entries(Now'))
      BY <2>5, <3>1, SeqMonotonic DEF TypeNamed
    <3> QED
      BY <2>1, <2>2, <2>5, <3>1, <3>2 DEF TypeNamed
  <2>13. Meetings'
    BY <2>1, <2>6, QuietMeetings
  <2>14. LogKept
    BY <2>1 DEF LogKept
  <2>15. InvNames'
    BY <2>1, <2>6, <2>14, NamesKept
  <2>16. /\ actor'[a] = to
         /\ \A b \in Actors \ {a} : actor'[b] = actor[b]
    BY <2>5, <2>9 DEF Goes, TypeNamed
  <2>17. InvMoves'
    <3> SUFFICES ASSUME NEW v \in 2 .. Now', past'[v].knew = v - 1
                 PROVE  Announced(v)' \/ WillAnnounce(v)'
      BY DEF InvMoves
    <3>1. CASE v \in 2 .. Now
      <4>1. past[v].knew = v - 1
        BY <2>2, <2>6, <3>1 DEF Grown
      <4>2. Announced(v) \/ WillAnnounce(v)
        BY <2>1, <3>1, <4>1 DEF IInv, InvMoves
      <4>3. CASE Announced(v)
        BY <2>1, <4>3 DEF Announced
      <4>4. CASE WillAnnounce(v)
        <5>1. PICK b \in Actors : actor[b].pc = "announcing" /\ actor[b].known = v - 1 /\ actor[b].new = v
          BY <4>4 DEF WillAnnounce
        <5>2. actor'[b] = actor[b]
          BY <2>1, <2>16, <5>1
        <5> QED
          BY <5>1, <5>2 DEF WillAnnounce
      <4> QED
        BY <4>2, <4>3, <4>4
    <3>2. CASE v = Now + 1 /\ Now' = Now + 1
      <4>1. actor[a].known = Now /\ t # Tenant(Now)
        BY <2>2, <2>6, <3>2 DEF x
      <4>2. Changed(a, t)
        BY <4>1 DEF Changed
      <4>3. actor'[a].pc = "announcing" /\ actor'[a].known = v - 1 /\ actor'[a].new = v
        BY <2>2, <2>8, <2>16, <3>2, <4>1, <4>2
      <4> QED
        BY <4>3 DEF WillAnnounce
    <3> QED
      BY <2>2, <2>6, <3>1, <3>2
  <2> QED
    BY <2>1, <2>6, <2>8, <2>9, <2>11, <2>12, <2>13, <2>15, <2>17, ActorStep
<1> QED
  BY <1>1, <1>2

\* An event is stored, by who publishes or by who announces.
LEMMA StoreStep ==
  ASSUME IInv, NEW a \in Actors, UNCHANGED <<rows, wire, heard, shown>>,
         NEW as \in 1 .. Now, NEW from \in 0 .. Now, NEW to \in 0 .. Now, Stores(a, as, from, to),
         actor[a].pc \in {"ready", "announcing"},
         actor[a].pc = "announcing" => from = actor[a].known /\ to = actor[a].new,
         to # NoVersion => from # NoVersion /\ from < to /\ Tenant(from) # Tenant(to)
  PROVE  IInv'
<1> DEFINE e == [as |-> as, from |-> from, to |-> to, stored |-> InRoom, sent |-> FALSE]
<1>1. Grown /\ Now' = Now /\ past' \in Seq(Pasts) /\ alive' = alive /\ (alive => past' # <<>>) /\ past' = past
  BY SamePast DEF rows
<1>2. TypeOK /\ TypeNamed /\ Now \in Nat /\ Len(log) \in Nat /\ DOMAIN log = 1 .. Len(log)
  BY Named, Lengths DEF IInv
<1>3. /\ e \in Entries(Now) /\ e.stored = InRoom /\ ~e.sent /\ e.from = from /\ e.to = to
      /\ log' = Append(log, e)
  <2>1. InRoom \subseteq Sockets
    BY DEF InRoom
  <2>2. e \in Entries(Now)
    BY <2>1 DEF Entries
  <2> QED
    BY <2>2 DEF Stores
<1> HIDE DEF e
<1>4. /\ log' \in Seq(Entries(Now)) /\ Len(log') = Len(log) + 1 /\ DOMAIN log' = 1 .. Len(log) + 1
      /\ log'[Len(log) + 1] = e /\ \A i \in DOMAIN log : log'[i] = log[i]
  BY <1>2, <1>3, AppendProperties, LenProperties DEF TypeNamed
<1>5. Meetings'
  BY <1>1, <1>3, StoreMeetings
<1>6. PICK b : b = [actor[a] EXCEPT !.pc = "sending", !.at = Len(log) + 1]
  OBVIOUS
<1>7. actor[a] \in ActorSet(Now, Len(log)) /\ ActorFits(actor[a])
  BY Holds
<1>8. /\ b \in ActorSet(Now', Len(log')) /\ b.pc = "sending" /\ b.at = Len(log) + 1
      /\ b.held = actor[a].held /\ b.known = actor[a].known
  <2>1. b \in [pc : {"sending"}, held : {actor[a].held}, known : {actor[a].known}, new : {actor[a].new},
               at : {Len(log) + 1}]
    BY <1>6, <1>7 DEF ActorSet
  <2>2. /\ {actor[a].held} \subseteq 0 .. Now /\ {actor[a].known} \subseteq 0 .. Now
        /\ {actor[a].new} \subseteq 0 .. Now /\ {Len(log) + 1} \subseteq 0 .. Len(log')
    BY <1>2, <1>4, <1>7 DEF ActorSet
  <2> QED
    BY <1>1, <2>1, <2>2 DEF ActorSet
<1>9. Goes(a, b)
  BY <1>6 DEF Stores
<1>10. ActorFits(b)'
  <2>1. actor[a].held \in 1 .. Now /\ actor[a].known \in 1 .. Now
    BY <1>7 DEF ActorFits
  <2>2. Len(log) + 1 \in 1 .. Len(log')
    BY <1>2, <1>4
  <2> QED
    BY <1>1, <1>8, <2>1, <2>2 DEF ActorFits
<1>11. /\ heard' \in [Sockets -> SUBSET DOMAIN log'] /\ shown' \in [Sockets -> 0 .. Now']
       /\ Len(log) <= Len(log') /\ log' \in Seq(Entries(Now'))
  <2>1. DOMAIN log \subseteq DOMAIN log'
    BY <1>2, <1>4
  <2> QED
    BY <1>1, <1>2, <1>4, <2>1 DEF TypeNamed
<1>12. LogKept
  BY <1>2, <1>4 DEF LogKept
<1>13. \A c \in Actors : actor[c].pc = "announcing" /\ alive' =>
         \/ actor'[c] = actor[c]
         \/ \E i \in DOMAIN log' : log'[i].from = actor[c].known /\ log'[i].to = actor[c].new
  <2> SUFFICES ASSUME NEW c \in Actors, actor[c].pc = "announcing", actor'[c] # actor[c]
               PROVE  \E i \in DOMAIN log' : log'[i].from = actor[c].known /\ log'[i].to = actor[c].new
    OBVIOUS
  <2>1. c = a
    BY <1>2, <1>9 DEF Goes, TypeNamed
  <2>2. Len(log) + 1 \in DOMAIN log'
    BY <1>2, <1>4
  <2> QED
    BY <1>3, <1>4, <2>1, <2>2
<1>14. InvMoves'
  BY <1>1, <1>12, <1>13, MovesKept
<1>15. InvNames'
  <2>1. ASSUME NEW i \in DOMAIN log' \ DOMAIN log, log'[i].to # NoVersion
        PROVE  /\ log'[i].from # NoVersion /\ log'[i].from < log'[i].to
               /\ past'[log'[i].from].tenant # past'[log'[i].to].tenant
    <3>1. i = Len(log) + 1
      BY <1>2, <1>4
    <3>2. log'[i].from = from /\ log'[i].to = to
      BY <1>3, <1>4, <3>1
    <3> QED
      BY <1>1, <2>1, <3>2 DEF Tenant
  <2> QED
    BY <1>1, <1>12, <2>1, NamesKept
<1>16. UNCHANGED wire
  OBVIOUS
<1> QED
  BY <1>1, <1>5, <1>8, <1>9, <1>10, <1>11, <1>14, <1>15, <1>16, ActorStep

LEMMA PublishStep ==
  ASSUME IInv, NEW a \in Actors, PublishEvent(a)
  PROVE  IInv'
<1>1. CASE Gone(a)
  BY <1>1, GoneStep DEF PublishEvent
<1>2. CASE UNCHANGED rows /\ Stores(a, actor[a].held, NoVersion, NoVersion)
  <2>1. actor[a].pc = "ready" /\ UNCHANGED <<rows, wire, heard, shown>>
    BY <1>2 DEF PublishEvent
  <2>2. actor[a].held \in 1 .. Now /\ NoVersion \in 0 .. Now
    BY <2>1, Holds DEF ActorFits, NoVersion
  <2> QED
    BY <1>2, <2>1, <2>2, StoreStep
<1> QED
  BY <1>1, <1>2 DEF PublishEvent

LEMMA AnnounceStep ==
  ASSUME IInv, NEW a \in Actors, AnnounceTenant(a)
  PROVE  IInv'
<1>1. CASE Gone(a)
  BY <1>1, GoneStep DEF AnnounceTenant
<1>2. CASE UNCHANGED rows /\ Stores(a, actor[a].new, actor[a].known, actor[a].new)
  <2>1. actor[a].pc = "announcing" /\ UNCHANGED <<rows, wire, heard, shown>>
    BY <1>2 DEF AnnounceTenant
  <2>2. /\ actor[a].new \in 1 .. Now /\ actor[a].known \in 1 .. Now /\ actor[a].known < actor[a].new
        /\ Tenant(actor[a].known) # Tenant(actor[a].new) /\ Now \in Nat
    BY <2>1, Holds DEF ActorFits
  <2>3. actor[a].new \in 0 .. Now /\ actor[a].known \in 0 .. Now /\ actor[a].known # NoVersion
    BY <2>2 DEF NoVersion
  <2> QED
    BY <1>2, <2>1, <2>2, <2>3, StoreStep
<1> QED
  BY <1>1, <1>2 DEF AnnounceTenant

\* An event is sent, or sending it raises.
LEMMA SendStep ==
  ASSUME IInv, NEW a \in Actors, Broadcast(a)
  PROVE  IInv'
<1> DEFINE n == actor[a].at
           v == log[n].as
           p == IF actor[a].new = NoVersion THEN "ready" ELSE "showing"
<1>1. actor[a].pc = "sending" /\ UNCHANGED <<rows, wire, shown>>
  BY DEF Broadcast
<1>2. actor[a] \in ActorSet(Now, Len(log)) /\ ActorFits(actor[a]) /\ Now \in Nat /\ Len(log) \in Nat
  BY Holds
<1>3. n \in 1 .. Len(log) /\ actor[a].held \in 1 .. Now /\ actor[a].known \in 1 .. Now /\ actor[a].new \in 0 .. Now
  BY <1>1, <1>2 DEF ActorFits, ActorSet
<1>4. CASE Raises(a) /\ UNCHANGED <<log, heard>>
  <2>1. UNCHANGED <<rows, log, wire, heard, shown>>
    BY <1>1, <1>4
  <2> QED
    BY <1>1, <1>4, <2>1, RaisesStep
<1>5. CASE /\ heard' = [s \in Sockets |-> IF Reaches(v, s) THEN heard[s] \cup {n} ELSE heard[s]]
           /\ log' = [log EXCEPT ![n].sent = TRUE]
           /\ Goes(a, [actor[a] EXCEPT !.pc = p, !.at = 0])
  <2>1. Grown /\ Now' = Now /\ past' \in Seq(Pasts) /\ alive' = alive /\ (alive => past' # <<>>) /\ past' = past
    BY <1>1, SamePast DEF rows
  <2>2. /\ Meetings' /\ log' \in Seq(Entries(Now)) /\ Len(log') = Len(log)
        /\ heard' \in [Sockets -> SUBSET DOMAIN log']
        /\ \A i \in DOMAIN log : i \in DOMAIN log' /\ log'[i].from = log[i].from /\ log'[i].to = log[i].to
    <3>1. PICK u : u = v
      OBVIOUS
    <3>2. /\ heard' = [s \in Sockets |-> IF Reaches(u, s) THEN heard[s] \cup {n} ELSE heard[s]]
          /\ log' = [log EXCEPT ![n].sent = TRUE] /\ u = log[n].as
          /\ UNCHANGED <<past, wire, shown>>
      BY <1>1, <1>5, <2>1, <3>1
    <3> HIDE DEF n, v
    <3> QED
      BY <1>3, <3>2, SendMeetings
  <2>3. PICK b : b = [actor[a] EXCEPT !.pc = p, !.at = 0]
    OBVIOUS
  <2>4. b \in [pc : {p}, held : {actor[a].held}, known : {actor[a].known}, new : {actor[a].new}, at : {0}]
    BY <1>2, <2>3 DEF ActorSet
  <2>5. p \in {"ready", "showing"} /\ (p = "showing" => actor[a].new \in 1 .. Now)
    BY <1>2, <1>3 DEF NoVersion
  <2>6. Goes(a, b)
    BY <1>5, <2>3
  <2> HIDE DEF p, n, v
  <2>7. /\ b.pc = p /\ b.held = actor[a].held /\ b.known = actor[a].known /\ b.new = actor[a].new
        /\ b \in ActorSet(Now', Len(log'))
    <3>1. {p} \subseteq {"idle", "ready", "sending", "announcing", "showing"} /\ {0} \subseteq 0 .. Len(log')
          /\ {actor[a].held} \subseteq 0 .. Now /\ {actor[a].known} \subseteq 0 .. Now
          /\ {actor[a].new} \subseteq 0 .. Now
      BY <1>2, <1>3, <2>2, <2>5
    <3> QED
      BY <2>1, <2>4, <3>1 DEF ActorSet
  <2>8. ActorFits(b)'
    BY <1>3, <2>1, <2>5, <2>7 DEF ActorFits
  <2>9. LogKept
    BY <2>2 DEF LogKept
  <2>10. DOMAIN log' = DOMAIN log
    BY <2>2, Lengths, LenProperties DEF IInv
  <2>11. \A c \in Actors : actor[c].pc = "announcing" => actor'[c] = actor[c]
    BY <1>1, <2>6, Named DEF Goes, IInv, TypeNamed
  <2>12. InvMoves'
    BY <2>1, <2>9, <2>11, MovesKept
  <2>13. InvNames'
    BY <2>1, <2>9, <2>10, NamesKept
  <2>14. /\ UNCHANGED wire /\ shown' \in [Sockets -> 0 .. Now'] /\ Len(log) <= Len(log')
         /\ log' \in Seq(Entries(Now'))
    BY <1>1, <1>2, <2>1, <2>2, Named DEF IInv, TypeNamed
  <2> QED
    BY <2>1, <2>2, <2>6, <2>7, <2>8, <2>12, <2>13, <2>14, ActorStep
<1> QED
  BY <1>4, <1>5 DEF Broadcast

LEMMA ShowStep ==
  ASSUME IInv, NEW a \in Actors, ShowThread(a)
  PROVE  IInv'
<1>1. actor[a].pc = "showing" /\ UNCHANGED <<rows, log, wire, heard>>
  BY DEF ShowThread
<1>2. actor[a] \in ActorSet(Now, Len(log)) /\ ActorFits(actor[a]) /\ Now \in Nat /\ Len(log) \in Nat
  BY Holds
<1>3. actor[a].held \in 1 .. Now /\ actor[a].new \in 1 .. Now /\ actor[a].at \in 0 .. Len(log)
  BY <1>1, <1>2 DEF ActorFits, ActorSet
<1>4. CASE Raises(a) /\ UNCHANGED shown
  <2>1. UNCHANGED <<rows, log, wire, heard, shown>>
    BY <1>1, <1>4
  <2> QED
    BY <1>1, <1>4, <2>1, RaisesStep
<1>5. CASE /\ Frame(actor[a].new, actor[a].new)
           /\ Goes(a, [actor[a] EXCEPT !.pc = "ready", !.known = actor[a].new, !.new = NoVersion])
  <2>1. Grown /\ Now' = Now /\ past' \in Seq(Pasts) /\ alive' = alive /\ (alive => past' # <<>>) /\ past' = past
    BY <1>1, SamePast DEF rows
  <2>2. UNCHANGED <<past, log, wire, heard>>
    BY <1>1, <2>1
  <2>3. Meetings' /\ shown' \in [Sockets -> 0 .. Now]
    BY <1>3, <1>5, <2>2, FrameMeetings
  <2>4. PICK b : b = [actor[a] EXCEPT !.pc = "ready", !.known = actor[a].new, !.new = NoVersion]
    OBVIOUS
  <2>5. b \in [pc : {"ready"}, held : {actor[a].held}, known : {actor[a].new}, new : {0}, at : {actor[a].at}]
    BY <1>2, <2>4 DEF ActorSet, NoVersion
  <2>6. /\ b.pc = "ready" /\ b.held = actor[a].held /\ b.known = actor[a].new
        /\ b \in ActorSet(Now', Len(log'))
    <3>1. /\ {actor[a].held} \subseteq 0 .. Now /\ {actor[a].new} \subseteq 0 .. Now /\ {0} \subseteq 0 .. Now
          /\ {actor[a].at} \subseteq 0 .. Len(log)
      BY <1>2, <1>3
    <3> QED
      BY <2>1, <2>2, <2>5, <3>1 DEF ActorSet
  <2>7. ActorFits(b)'
    BY <1>3, <2>1, <2>6 DEF ActorFits
  <2>8. Goes(a, b)
    BY <1>5, <2>4
  <2>9. LogKept
    BY <2>2 DEF LogKept
  <2>10. \A c \in Actors : actor[c].pc = "announcing" => actor'[c] = actor[c]
    BY <1>1, <2>8, Named DEF Goes, IInv, TypeNamed
  <2>11. InvMoves'
    BY <2>1, <2>9, <2>10, MovesKept
  <2>12. InvNames'
    BY <2>1, <2>2, <2>9, NamesKept
  <2>13. /\ UNCHANGED wire /\ shown' \in [Sockets -> 0 .. Now'] /\ Len(log) <= Len(log')
         /\ log' \in Seq(Entries(Now')) /\ heard' \in [Sockets -> SUBSET DOMAIN log']
    BY <1>2, <2>1, <2>2, <2>3, Named DEF IInv, TypeNamed
  <2> QED
    BY <2>1, <2>3, <2>6, <2>7, <2>8, <2>11, <2>12, <2>13, ActorStep
<1> QED
  BY <1>4, <1>5 DEF ShowThread

-----------------------------------------------------------------------------
(* The steps of the thread, and of a stream.                                  *)

\* No actor goes on, nothing is stored, no socket changes.
LEMMA StillStep ==
  ASSUME IInv, Grown, past' \in Seq(Pasts), alive' \in BOOLEAN, alive' => past' # <<>>,
         UNCHANGED <<actor, log, wire, heard>>, shown' \in [Sockets -> 0 .. Now'], Meetings', InvMoves'
  PROVE  IInv'
<1>1. TypeOK /\ TypeNamed /\ InvActor /\ Now \in Nat /\ Now' \in Nat /\ Now <= Now' /\ Len(log) \in Nat
  BY Named, Lengths DEF IInv, Grown
<1>2. /\ ActorSet(Now, Len(log)) \subseteq ActorSet(Now', Len(log)) /\ Entries(Now) \subseteq Entries(Now')
      /\ SocketSet(Now) \subseteq SocketSet(Now')
  BY <1>1, SetsGrow
<1>3. actor' \in [Actors -> ActorSet(Now', Len(log'))] /\ sock' \in [Sockets -> SocketSet(Now')]
  BY <1>1, <1>2 DEF TypeNamed, wire
<1>4. log' \in Seq(Entries(Now'))
  BY <1>1, <1>2, SeqMonotonic DEF TypeNamed
<1>5. TypeOK'
  BY <1>1, <1>3, <1>4, NamedNext DEF TypeNamed, wire
<1>6. ASSUME NEW b \in Actors PROVE ActorFits(actor[b])'
  <2>1. PICK x : x = actor[b]
    OBVIOUS
  <2>2. x \in ActorSet(Now, Len(log)) /\ ActorFits(x)
    BY <1>1, <2>1 DEF InvActor, TypeNamed
  <2>3. ActorFits(x)'
    BY <1>1, <2>2, FitsOn
  <2> QED
    BY <2>1, <2>3 DEF ActorFits
<1>7. InvActor'
  BY <1>6 DEF InvActor
<1>8. InvNames'
  BY NamesKept DEF LogKept
<1> QED
  BY <1>5, <1>7, <1>8 DEF IInv

LEMMA FrameStep ==
  ASSUME IInv, NEW a \in Actors, StreamFrame(a)
  PROVE  IInv'
<1>1. /\ actor[a].pc = "ready" /\ Frame(actor[a].held, actor[a].held)
      /\ UNCHANGED <<rows, actor, log, wire, heard>>
  BY DEF StreamFrame
<1>2. actor[a].held \in 1 .. Now
  BY <1>1, Holds DEF ActorFits
<1>3. Grown /\ Now' = Now /\ past' \in Seq(Pasts) /\ alive' = alive /\ (alive => past' # <<>>) /\ past' = past
  BY <1>1, SamePast DEF rows
<1>4. UNCHANGED <<past, log, wire, heard>> /\ UNCHANGED <<actor, log, wire, heard>>
  BY <1>1, <1>3
<1>5. Meetings' /\ shown' \in [Sockets -> 0 .. Now]
  BY <1>1, <1>2, <1>4, FrameMeetings
<1>6. InvMoves'
  BY <1>3, <1>4, MovesKept DEF LogKept
<1>7. alive' \in BOOLEAN
  BY <1>3, Named DEF IInv, TypeNamed
<1> QED
  BY <1>3, <1>4, <1>5, <1>6, <1>7, StillStep

LEMMA DeleteStep == ASSUME IInv, DeleteThread PROVE IInv'
<1>1. past' = past /\ ~alive' /\ alive' \in BOOLEAN /\ UNCHANGED <<log, wire, heard, shown>>
      /\ UNCHANGED <<actor, log, wire, heard>>
  BY DEF DeleteThread
<1>2. Grown /\ Now' = Now /\ past' \in Seq(Pasts) /\ shown' \in [Sockets -> 0 .. Now']
  BY <1>1, Named, Lengths DEF IInv, TypeNamed, Grown, Now
<1>3. Meetings'
  BY <1>1, <1>2, QuietMeetings
<1>4. InvMoves'
  BY <1>1 DEF InvMoves
<1> QED
  BY <1>1, <1>2, <1>3, <1>4, StillStep

LEMMA CreateStep ==
  ASSUME IInv, NEW t \in Bodies, CreateThread(t)
  PROVE  IInv'
<1> DEFINE x == [tenant |-> t, knew |-> NoVersion]
<1>1. past = <<>> /\ past' = <<x>> /\ alive' = TRUE /\ UNCHANGED <<actor, log, wire, heard, shown>>
  BY DEF CreateThread
<1>2. x \in Pasts
  BY RoutingAssumption DEF Pasts, NoVersion
<1> HIDE DEF x
<1>3. past' = Append(past, x)
  BY <1>1
<1>4. TypeOK /\ TypeNamed /\ Now = 0
  BY <1>1, Named, EmptySeq DEF IInv, Now
<1>5. Grown /\ Now' = 1 /\ past' \in Seq(Pasts) /\ past' # <<>>
  BY <1>2, <1>3, <1>4, PastGrows
<1>6. shown' \in [Sockets -> 0 .. Now']
  BY <1>1, <1>4, <1>5 DEF TypeNamed
<1>7. UNCHANGED <<log, wire, heard, shown>> /\ UNCHANGED <<actor, log, wire, heard>>
  BY <1>1
<1>8. Meetings'
  BY <1>5, <1>7, QuietMeetings
<1>9. InvMoves'
  BY <1>5 DEF InvMoves
<1> QED
  BY <1>1, <1>5, <1>6, <1>7, <1>8, <1>9, StillStep

LEMMA StutterStep == ASSUME IInv, UNCHANGED vars PROVE IInv'
<1>1. /\ UNCHANGED <<log, wire, heard, shown>> /\ UNCHANGED <<actor, log, wire, heard>>
      /\ past' = past /\ alive' = alive
  BY DEF vars, wire
<1>2. /\ Grown /\ past' \in Seq(Pasts) /\ alive' \in BOOLEAN /\ (alive' => past' # <<>>)
      /\ shown' \in [Sockets -> 0 .. Now']
  BY <1>1, Named, Lengths DEF IInv, TypeNamed, Grown, Now
<1>3. Meetings'
  BY <1>1, <1>2, QuietMeetings
<1>4. InvMoves'
  BY <1>1, MovesKept DEF LogKept
<1> QED
  BY <1>1, <1>2, <1>3, <1>4, StillStep

-----------------------------------------------------------------------------
(* The steps of sockets.                                                      *)

\* The log, but for s, whom fewer events count on.
LogLoses(s) ==
  /\ log' \in Seq(Entries(Now)) /\ Len(log') = Len(log) /\ DOMAIN log' = DOMAIN log
  /\ \A i \in DOMAIN log : /\ log'[i].as = log[i].as /\ log'[i].from = log[i].from /\ log'[i].to = log[i].to
                           /\ log'[i].sent = log[i].sent /\ log'[i].stored \subseteq log[i].stored

LEMMA SameInterval ==
  ASSUME NEW m \in Nat, NEW n \in Nat, 1 .. m = 1 .. n
  PROVE  m = n
<1>1. ASSUME NEW k \in Nat, NEW l \in Nat, 1 .. k = 1 .. l, k < l PROVE FALSE
  <2>1. l \in 1 .. l /\ l \notin 1 .. k
    BY <1>1
  <2> QED
    BY <1>1, <2>1
<1>2. ~(m < n)
  BY <1>1
<1>3. ~(n < m)
  BY <1>1
<1> QED
  BY <1>2, <1>3

LEMMA LeavesLoses ==
  ASSUME TypeOK, NEW s \in Sockets, Leaves(s)
  PROVE  LogLoses(s) /\ \A i \in DOMAIN log' : s \notin log'[i].stored
<1>1. Len(log) \in Nat /\ DOMAIN log = 1 .. Len(log) /\ \A i \in 1 .. Len(log) : log[i] \in Entries(Now)
  BY Lengths
<1> DEFINE e(i) == [log[i] EXCEPT !.stored = @ \ {s}]
<1>2. \A i \in DOMAIN log : /\ e(i) \in Entries(Now) /\ e(i).as = log[i].as /\ e(i).from = log[i].from
                            /\ e(i).to = log[i].to /\ e(i).sent = log[i].sent
                            /\ e(i).stored = log[i].stored \ {s}
  BY <1>1 DEF Entries
<1>3. log' = [i \in DOMAIN log |-> e(i)]
  BY DEF Leaves
<1> HIDE DEF e
<1>4. log' \in [1 .. Len(log) -> Entries(Now)]
  BY <1>1, <1>2, <1>3
<1>5. log' \in Seq(Entries(Now))
  BY <1>1, <1>4, SeqDef
<1>6. Len(log') \in Nat /\ DOMAIN log' = 1 .. Len(log') /\ DOMAIN log' = 1 .. Len(log)
  BY <1>4, <1>5, LenProperties
<1>7. Len(log') = Len(log)
  <2>1. Len(log) \in Nat /\ Len(log') \in Nat /\ 1 .. Len(log') = 1 .. Len(log)
    BY <1>1, <1>6
  <2> QED
    BY <2>1, SameInterval
<1> QED
  BY <1>1, <1>2, <1>3, <1>5, <1>6, <1>7 DEF LogLoses

\* What the step of one socket must keep.
SocketGoes(s, x) ==
  /\ Becomes(s, x) /\ SockFits(x) /\ UNCHANGED <<rows, actor, heard, shown>>
  /\ cached' \in [Sockets -> Paths \cup {NoPath}] /\ \A u \in Sockets \ {s} : cached'[u] = cached[u]
  /\ x.pc \in {"connecting", "open"} => cached'[s] = x.ns
  /\ cached'[s] # NoPath => x.pc \in {"connecting", "open"} \/ x.late
  /\ heard[s] # {} \/ shown[s] # NoVersion => x.who = sock[s].who /\ x.pc \in {"open", "gone"}
  /\ sock[s].room /\ x.room => x.ns = sock[s].ns /\ x.seen = sock[s].seen
  /\ \/ log' = log /\ (sock[s].room => x.room)
     \/ Leaves(s)

LEMMA SocketStep ==
  ASSUME IInv, NEW s \in Sockets, NEW x \in SocketSet(Now), SocketGoes(s, x)
  PROVE  IInv'
<1>1. TypeOK /\ TypeNamed /\ Meetings /\ InvActor /\ InvMoves /\ InvNames
  BY Named DEF IInv
<1>2. Now' = Now /\ past' = past /\ alive' = alive /\ actor' = actor /\ heard' = heard /\ shown' = shown
  BY DEF SocketGoes, rows, Now
<1>3. LogLoses(s) /\ \A i \in DOMAIN log' : s \in log'[i].stored => sock[s].room /\ x.room
  <2>1. CASE log' = log /\ (sock[s].room => x.room)
    BY <1>1, <2>1 DEF LogLoses, TypeNamed, Meetings, InvStored
  <2>2. CASE Leaves(s)
    BY <1>1, <2>2, LeavesLoses
  <2> QED
    BY <2>1, <2>2 DEF SocketGoes
<1>4. sock' \in [Sockets -> SocketSet(Now)] /\ sock'[s] = x /\ \A u \in Sockets \ {s} : sock'[u] = sock[u]
  BY <1>1 DEF SocketGoes, Becomes, TypeNamed
<1>5. cached' \in [Sockets -> Paths \cup {NoPath}]
  BY DEF SocketGoes
<1>6. TypeOK'
  BY <1>1, <1>2, <1>3, <1>4, <1>5, NamedNext DEF TypeNamed, LogLoses
<1>7. InvActor'
  BY <1>1, <1>2, <1>3 DEF InvActor, ActorFits, LogLoses, Tenant
<1>8. InvSock'
  <2>1. SockFits(x)
    BY DEF SocketGoes
  <2> QED
    BY <1>1, <1>2, <1>4, <2>1 DEF Meetings, InvSock, SockFits, Tenant
<1>9. InvDeaf'
  <2>1. x.pc \in {"unborn", "connecting", "refused"} => heard[s] = {} /\ shown[s] = NoVersion
    BY DEF SocketGoes
  <2> QED
    BY <1>1, <1>2, <1>4, <2>1 DEF Meetings, InvDeaf
<1>10. InvStored'
  <2> SUFFICES ASSUME NEW i \in DOMAIN log', NEW u \in log'[i].stored PROVE sock'[u].room
    BY DEF InvStored
  <2>1. u \in Sockets /\ sock[u].room
    BY <1>1, <1>3, Lengths DEF LogLoses, Entries, Meetings, InvStored
  <2> QED
    BY <1>3, <1>4, <2>1
<1>11. NoCrossing'
  <2> SUFFICES ASSUME NEW u \in Sockets
               PROVE  /\ \A i \in heard[u] : Agrees(Tenant(log'[i].as), sock'[u].who)
                      /\ shown[u] # NoVersion => Agrees(Tenant(shown[u]), sock'[u].who)
    BY <1>2 DEF NoCrossing, Agrees, Tenant
  <2>1. /\ \A i \in heard[u] : i \in DOMAIN log /\ Agrees(Tenant(log[i].as), sock[u].who)
        /\ shown[u] # NoVersion => Agrees(Tenant(shown[u]), sock[u].who)
    BY <1>1 DEF Meetings, NoCrossing, TypeNamed
  <2>2. heard[u] # {} \/ shown[u] # NoVersion => sock'[u].who = sock[u].who
    BY <1>4 DEF SocketGoes
  <2>3. \A i \in heard[u] : Tenant(log'[i].as) = Tenant(log[i].as)
    BY <1>3, <2>1 DEF LogLoses
  <2> QED
    BY <2>1, <2>2, <2>3
<1>12. SameTenancyMeets'
  <2> SUFFICES ASSUME NEW i \in DOMAIN log', log'[i].sent, NEW u \in log'[i].stored, ~sock'[u].ns.padded,
                      Agrees(Tenant(log'[i].as), Tenant(sock'[u].seen))
               PROVE  i \in heard[u]
    BY <1>2 DEF SameTenancyMeets, Agrees, Tenant
  <2>1. i \in DOMAIN log /\ log[i].sent /\ u \in log[i].stored /\ log'[i].as = log[i].as
    BY <1>3 DEF LogLoses
  <2>2. u \in Sockets
    BY <1>1, <2>1, Lengths DEF Entries
  <2>3. sock'[u].ns = sock[u].ns /\ sock'[u].seen = sock[u].seen
    <3>1. CASE u = s
      BY <1>3, <1>4, <3>1 DEF SocketGoes
    <3>2. CASE u # s
      BY <1>4, <2>2, <3>2
    <3> QED
      BY <3>1, <3>2
  <2> QED
    BY <1>1, <2>1, <2>3 DEF Meetings, SameTenancyMeets
<1>13. CacheFits'
  <2> SUFFICES ASSUME NEW u \in Sockets
               PROVE  /\ sock'[u].pc \in {"connecting", "open"} => cached'[u] = sock'[u].ns
                      /\ cached'[u] # NoPath => sock'[u].pc \in {"connecting", "open"} \/ sock'[u].late
    BY DEF CacheFits
  <2>1. CASE u = s
    BY <1>4, <2>1 DEF SocketGoes
  <2>2. CASE u # s
    BY <1>1, <1>4, <2>2 DEF SocketGoes, Meetings, CacheFits
  <2> QED
    BY <2>1, <2>2
<1>14. LogKept
  BY <1>3 DEF LogKept, LogLoses
<1>15. InvMoves'
  BY <1>2, <1>14, MovesKept
<1>16. InvNames'
  <2>1. Grown
    BY <1>1, <1>2, Lengths DEF Grown
  <2> QED
    BY <1>3, <1>14, <2>1, NamesKept DEF LogLoses
<1> QED
  BY <1>6, <1>7, <1>8, <1>9, <1>10, <1>11, <1>12, <1>13, <1>15, <1>16 DEF IInv, Meetings

\* What is known of a socket before its step.
LEMMA SocketHas ==
  ASSUME IInv, NEW s \in Sockets
  PROVE  /\ sock[s] \in SocketSet(Now) /\ SockFits(sock[s]) /\ Now \in Nat
         /\ sock[s].pc \in {"unborn", "connecting", "refused"} => heard[s] = {} /\ shown[s] = NoVersion
         /\ \A i \in DOMAIN log : s \in log[i].stored => sock[s].room
         /\ sock[s].pc \in {"connecting", "open"} => cached[s] = sock[s].ns
         /\ cached[s] # NoPath => sock[s].pc \in {"connecting", "open"} \/ sock[s].late
         /\ cached \in [Sockets -> Paths \cup {NoPath}]
BY Named, Lengths DEF IInv, TypeNamed, Meetings, InvSock, InvDeaf, InvStored, CacheFits

LEMMA ConnectStep ==
  ASSUME IInv, NEW s \in Sockets, NEW p \in Addresses, Connect(s, p)
  PROVE  IInv'
<1>1. PICK x : x = [Unborn EXCEPT !.pc = "connecting", !.ns = p]
  OBVIOUS
<1>2. x \in [pc : {"connecting"}, ns : {p}, who : {NoOne}, joining : {FALSE}, seen : {0}, room : {FALSE}, late : {FALSE}]
  BY <1>1 DEF Unborn, NoVersion
<1>3. p \in Paths /\ Now \in Nat /\ sock[s].pc = "unborn"
  BY SocketHas, RoutingAssumption DEF Connect
<1>4. x \in SocketSet(Now)
  <2>1. {p} \subseteq Paths \cup {NoPath} /\ {NoOne} \subseteq Tenants /\ {0} \subseteq 0 .. Now /\ {FALSE} \subseteq BOOLEAN
    BY <1>3, NothingHasType
  <2> QED
    BY <1>2, <2>1 DEF SocketSet
<1>5. SocketGoes(s, x)
  <2>1. Becomes(s, x) /\ cached' = [cached EXCEPT ![s] = p] /\ UNCHANGED <<rows, actor, log, heard, shown>>
    BY <1>1 DEF Connect
  <2>2. SockFits(x)
    BY <1>2 DEF SockFits
  <2>3. ~sock[s].room
    BY <1>3, SocketHas DEF SockFits
  <2> QED
    BY <1>2, <1>3, <2>1, <2>2, <2>3, SocketHas DEF SocketGoes
<1> QED
  BY <1>4, <1>5, SocketStep

LEMMA RefuseStep ==
  ASSUME IInv, NEW s \in Sockets, Refuse(s)
  PROVE  IInv'
<1>1. PICK x : x = [Unborn EXCEPT !.pc = "refused"]
  OBVIOUS
<1>2. x \in [pc : {"refused"}, ns : {NoPath}, who : {NoOne}, joining : {FALSE}, seen : {0}, room : {FALSE}, late : {FALSE}]
  BY <1>1 DEF Unborn, NoVersion
<1>3. Now \in Nat /\ sock[s].pc = "connecting"
  BY SocketHas DEF Refuse
<1>4. x \in SocketSet(Now)
  <2>1. {NoPath} \subseteq Paths \cup {NoPath} /\ {NoOne} \subseteq Tenants /\ {0} \subseteq 0 .. Now /\ {FALSE} \subseteq BOOLEAN
    BY <1>3, NothingHasType
  <2> QED
    BY <1>2, <2>1 DEF SocketSet
<1>5. SocketGoes(s, x)
  <2>1. Becomes(s, x) /\ cached' = [cached EXCEPT ![s] = NoPath] /\ UNCHANGED <<rows, actor, log, heard, shown>>
    BY <1>1 DEF Refuse
  <2>2. SockFits(x)
    BY <1>2 DEF SockFits
  <2>3. ~sock[s].room
    BY <1>3, SocketHas DEF SockFits
  <2> QED
    BY <1>2, <1>3, <2>1, <2>2, <2>3, SocketHas DEF SocketGoes
<1> QED
  BY <1>4, <1>5, SocketStep

LEMMA AcceptStep ==
  ASSUME IInv, NEW s \in Sockets, NEW who \in Identities, Accept(s, who)
  PROVE  IInv'
<1>1. PICK x : x = [sock[s] EXCEPT !.pc = "open", !.who = who]
  OBVIOUS
<1>2. sock[s].pc = "connecting" /\ sock[s] \in SocketSet(Now) /\ SockFits(sock[s]) /\ cached[s] = sock[s].ns
  BY SocketHas DEF Accept
<1>3. x \in [pc : {"open"}, ns : {sock[s].ns}, who : {who}, joining : {sock[s].joining}, seen : {sock[s].seen},
             room : {sock[s].room}, late : {sock[s].late}]
  BY <1>1, <1>2 DEF SocketSet
<1>4. x \in SocketSet(Now)
  BY <1>2, <1>3, RoutingAssumption DEF SocketSet
<1>5. SocketGoes(s, x)
  <2>1. Becomes(s, x) /\ UNCHANGED <<rows, actor, log, cached, heard, shown>> /\ Admissible(cached[s], who)
    BY <1>1 DEF Accept
  <2>2. ~sock[s].room /\ ~sock[s].joining
    BY <1>2 DEF SockFits
  <2>3. SockFits(x)
    BY <1>2, <1>3, <2>1, <2>2 DEF SockFits
  <2> QED
    BY <1>2, <1>3, <2>1, <2>2, <2>3, SocketHas DEF SocketGoes
<1> QED
  BY <1>4, <1>5, SocketStep

LEMMA DisconnectStep ==
  ASSUME IInv, NEW s \in Sockets, Disconnect(s)
  PROVE  IInv'
<1> DEFINE ns == IF sock[s].pc = "open" THEN sock[s].ns ELSE NoPath
<1>1. PICK x : x = [sock[s] EXCEPT !.pc = "gone", !.room = FALSE, !.seen = NoVersion, !.ns = ns]
  OBVIOUS
<1>2. /\ sock[s].pc \in {"connecting", "open"} /\ sock[s] \in SocketSet(Now) /\ SockFits(sock[s]) /\ Now \in Nat
  BY SocketHas DEF Disconnect
<1>3. ns \in Paths \cup {NoPath}
  BY <1>2 DEF SocketSet
<1>4. /\ Becomes(s, x) /\ cached' = [cached EXCEPT ![s] = NoPath] /\ Leaves(s)
      /\ UNCHANGED <<rows, actor, heard, shown>>
  BY <1>1 DEF Disconnect
<1>5. x \in [pc : {"gone"}, ns : {ns}, who : {sock[s].who}, joining : {sock[s].joining}, seen : {0},
             room : {FALSE}, late : {sock[s].late}]
  BY <1>1, <1>2 DEF SocketSet, NoVersion
<1> HIDE DEF ns
<1>6. x \in SocketSet(Now)
  <2>1. sock[s].who \in Tenants /\ {sock[s].joining} \subseteq BOOLEAN /\ {sock[s].late} \subseteq BOOLEAN
        /\ {FALSE} \subseteq BOOLEAN /\ {0} \subseteq 0 .. Now
    BY <1>2 DEF SocketSet
  <2> QED
    BY <1>3, <1>5, <2>1 DEF SocketSet
<1>7. SocketGoes(s, x)
  <2>1. SockFits(x)
    BY <1>5 DEF SockFits
  <2> QED
    BY <1>4, <1>5, <2>1, SocketHas DEF SocketGoes
<1> QED
  BY <1>6, <1>7, SocketStep

LEMMA BeginJoinStep ==
  ASSUME IInv, NEW s \in Sockets, BeginJoin(s)
  PROVE  IInv'
<1>1. /\ sock[s] \in SocketSet(Now) /\ SockFits(sock[s]) /\ Now \in Nat
      /\ cached' = [cached EXCEPT ![s] = sock[s].ns] /\ UNCHANGED <<rows, actor, log, heard, shown>>
  BY SocketHas DEF BeginJoin
<1>2. cached' \in [Sockets -> Paths \cup {NoPath}] /\ cached'[s] = sock[s].ns
      /\ \A u \in Sockets \ {s} : cached'[u] = cached[u]
  BY <1>1, SocketHas DEF SocketSet
<1> DEFINE seen == IF sock[s].room THEN sock[s].seen ELSE Now
<1>3. CASE sock[s].pc = "open" /\ MayJoin(s) /\ Becomes(s, [sock[s] EXCEPT !.joining = TRUE, !.seen = seen])
  <2>1. PICK x : x = [sock[s] EXCEPT !.joining = TRUE, !.seen = seen]
    OBVIOUS
  <2>2. x \in [pc : {"open"}, ns : {sock[s].ns}, who : {sock[s].who}, joining : {TRUE}, seen : {seen},
               room : {sock[s].room}, late : {sock[s].late}]
    BY <1>1, <1>3, <2>1 DEF SocketSet
  <2>3. Now \in 1 .. Now
    <3>1. past \in Seq(Pasts) /\ past # <<>>
      BY <1>3, Named DEF IInv, TypeNamed, MayJoin
    <3> QED
      BY <3>1, EmptySeq, LenProperties DEF Now
  <2>4. seen \in 1 .. Now /\ Matches(Parse(sock[s].ns), Tenant(seen))
    BY <1>1, <1>3, <2>3 DEF SockFits, MayJoin
  <2>5. sock[s].room => seen = sock[s].seen
    OBVIOUS
  <2>6. Becomes(s, x)
    BY <1>3, <2>1
  <2> HIDE DEF seen
  <2>7. x \in SocketSet(Now)
    <3>1. sock[s].ns \in Paths \cup {NoPath} /\ sock[s].who \in Tenants /\ {sock[s].room} \subseteq BOOLEAN
          /\ {sock[s].late} \subseteq BOOLEAN /\ {TRUE} \subseteq BOOLEAN /\ {seen} \subseteq 0 .. Now
      BY <1>1, <2>4 DEF SocketSet
    <3> QED
      BY <2>2, <3>1 DEF SocketSet
  <2>8. SockFits(x)
    BY <1>1, <1>3, <2>2, <2>4 DEF SockFits
  <2>9. SocketGoes(s, x)
    BY <1>1, <1>2, <2>2, <2>5, <2>6, <2>8 DEF SocketGoes
  <2> QED
    BY <2>7, <2>9, SocketStep
<1>4. CASE sock[s].pc = "gone" /\ sock[s].ns # NoPath /\ Becomes(s, [sock[s] EXCEPT !.late = TRUE])
  <2>1. PICK x : x = [sock[s] EXCEPT !.late = TRUE]
    OBVIOUS
  <2>2. x \in [pc : {"gone"}, ns : {sock[s].ns}, who : {sock[s].who}, joining : {sock[s].joining},
               seen : {sock[s].seen}, room : {sock[s].room}, late : {TRUE}]
    BY <1>1, <1>4, <2>1 DEF SocketSet
  <2>3. Becomes(s, x)
    BY <1>4, <2>1
  <2>4. x \in SocketSet(Now)
    BY <1>1, <2>2 DEF SocketSet
  <2>5. SockFits(x)
    BY <1>1, <1>4, <2>2 DEF SockFits
  <2>6. SocketGoes(s, x)
    BY <1>1, <1>2, <2>2, <2>3, <2>5 DEF SocketGoes
  <2> QED
    BY <2>4, <2>6, SocketStep
<1> QED
  BY <1>3, <1>4 DEF BeginJoin

LEMMA EnterStep ==
  ASSUME IInv, NEW s \in Sockets, EnterRoom(s)
  PROVE  IInv'
<1> DEFINE in == sock[s].pc = "open"
<1>1. PICK x : x = [sock[s] EXCEPT !.joining = FALSE, !.room = in]
  OBVIOUS
<1>2. /\ sock[s].joining /\ sock[s] \in SocketSet(Now) /\ SockFits(sock[s]) /\ in \in BOOLEAN
      /\ UNCHANGED <<rows, actor, log, cached, heard, shown>>
  BY SocketHas DEF EnterRoom
<1>3. Becomes(s, x)
  BY <1>1 DEF EnterRoom
<1>4. x.pc = sock[s].pc /\ x.ns = sock[s].ns /\ x.who = sock[s].who /\ ~x.joining /\ x.seen = sock[s].seen
      /\ (x.room <=> in) /\ x.late = sock[s].late /\ x \in SocketSet(Now)
  BY <1>1, <1>2 DEF SocketSet
<1>5. sock[s].pc \in {"open", "gone"} /\ (in <=> sock[s].pc = "open")
  BY <1>2 DEF SockFits, SocketSet
<1> HIDE DEF in
<1>6. SockFits(x)
  BY <1>2, <1>4, <1>5 DEF SockFits
<1>7. sock[s].room => x.room
  BY <1>2, <1>4, <1>5 DEF SockFits
<1>8. SocketGoes(s, x)
  BY <1>2, <1>3, <1>4, <1>5, <1>6, <1>7, SocketHas DEF SocketGoes
<1> QED
  BY <1>4, <1>8, SocketStep

LEMMA LeaveStep ==
  ASSUME IInv, NEW s \in Sockets, LeaveRoom(s)
  PROVE  IInv'
<1>1. PICK x : x = [sock[s] EXCEPT !.room = FALSE]
  OBVIOUS
<1>2. /\ sock[s].pc = "open" /\ sock[s] \in SocketSet(Now) /\ SockFits(sock[s])
      /\ UNCHANGED <<rows, actor, cached, heard, shown>> /\ Leaves(s)
  BY SocketHas DEF LeaveRoom
<1>3. x \in [pc : {"open"}, ns : {sock[s].ns}, who : {sock[s].who}, joining : {sock[s].joining},
             seen : {sock[s].seen}, room : {FALSE}, late : {sock[s].late}]
  BY <1>1, <1>2 DEF SocketSet
<1>4. x \in SocketSet(Now) /\ Becomes(s, x)
  BY <1>1, <1>2, <1>3 DEF SocketSet, LeaveRoom
<1>5. SockFits(x)
  BY <1>2, <1>3 DEF SockFits
<1>6. SocketGoes(s, x)
  BY <1>2, <1>3, <1>4, <1>5, SocketHas DEF SocketGoes
<1> QED
  BY <1>4, <1>6, SocketStep

-----------------------------------------------------------------------------
(* The theorems.                                                              *)

LEMMA NextIInv == IInv /\ [Next]_vars => IInv'
<1> SUFFICES ASSUME IInv, [Next]_vars PROVE IInv'
  OBVIOUS
<1>1. CASE UNCHANGED vars
  BY <1>1, StutterStep
<1>2. ASSUME NEW a \in Actors, Act(a) PROVE IInv'
  BY <1>2, StartStep, FinishStep, MetadataStep, PublishStep, AnnounceStep, SendStep, FrameStep,
     ShowStep, TenantStep DEF Act
<1>3. ASSUME NEW s \in Sockets, Talk(s) PROVE IInv'
  BY <1>3, RefuseStep, DisconnectStep, BeginJoinStep, EnterStep, LeaveStep, ConnectStep, AcceptStep DEF Talk
<1>4. ASSUME NEW t \in Bodies, CreateThread(t) PROVE IInv'
  BY <1>4, CreateStep
<1>5. CASE DeleteThread
  BY <1>5, DeleteStep
<1> QED
  BY <1>1, <1>2, <1>3, <1>4, <1>5 DEF Next

\* The inductive invariant holds in every reachable state.
THEOREM TenantInvariance == Spec => []IInv
<1>1. Init => IInv
  BY StartTyped
<1>2. IInv /\ [Next]_vars => IInv'
  BY NextIInv
<1> QED
  BY <1>1, <1>2, PTL DEF Spec

\* Every variable keeps its type: an actor, an entry of the log and a socket name
\* only versions that the thread has had.
THEOREM TenantTypes == Spec => []TypeOK
<1>1. IInv => TypeOK
  BY DEF IInv
<1> QED
  BY <1>1, TenantInvariance, PTL

\* Whatever a socket hears or is shown was published under a tenant that agrees
\* with its identity, for any number of actors, sockets, moves and namespace keys.
THEOREM NothingCrosses == Spec => []NoCrossing
<1>1. IInv => NoCrossing
  BY DEF IInv, Meetings
<1> QED
  BY <1>1, TenantInvariance, PTL

\* A socket in the room from before an event is stored until it has been sent
\* hears it, if its join and the publisher read tenants of the same namespace.
THEOREM SocketMeetsEvent == Spec => []SameTenancyMeets
<1>1. IInv => SameTenancyMeets
  BY DEF IInv, Meetings
<1> QED
  BY <1>1, TenantInvariance, PTL

\* The cache of namespaces has the entry of every live socket, and of a dead one
\* only when an event of its was dispatched late.
THEOREM CacheIsFit == Spec => []CacheFits
<1>1. IInv => CacheFits
  BY DEF IInv, Meetings
<1> QED
  BY <1>1, TenantInvariance, PTL

\* A change by an actor that knew the tenant it replaced is announced, and an
\* announcement names two different tenants, the older first.
THEOREM ChangesAnnounced == Spec => []MovesAnnounced
<1>1. IInv => MovesAnnounced
  <2> SUFFICES ASSUME IInv PROVE MovesAnnounced
    OBVIOUS
  <2>1. ASSUME alive, AtRest, NEW v \in 2 .. Now, past[v].knew = v - 1 PROVE Announced(v)
    <3>1. Announced(v) \/ WillAnnounce(v)
      BY <2>1 DEF IInv, InvMoves
    <3>2. ~WillAnnounce(v)
      BY <2>1 DEF AtRest, WillAnnounce
    <3> QED
      BY <3>1, <3>2
  <2> QED
    BY <2>1 DEF IInv, InvNames, MovesAnnounced
<1> QED
  BY <1>1, TenantInvariance, PTL

=============================================================================
