-------------------------- MODULE ThreadFeedProofs --------------------------
(* Theorems about ThreadFeed: replay and live events meet.                     *)
EXTENDS ThreadFeed, SequenceTheorems, FiniteSetTheorems, WellFoundedInduction, TLAPS

Messages == [kind : {"event"}, event : Events] \cup [kind : {"ack", "error"}, join : Joins]
Requests == [pc : {"unsent", "checks", "refused", "raised", "entered", "read", "answered", "lost"},
             since : Events \cup {NoSince}, replay : SUBSET Events, truncated : BOOLEAN]

\* The join that counts is the last one that was sent.
IsCurrent(j) == j \in Sent /\ \A k \in Sent : k <= j
Live(j) == session # "idle" /\ IsCurrent(j)

\* What a client has or is sent is in the log.
InvKnown == /\ \A i \in DOMAIN channel : channel[i].kind = "event" => pub[channel[i].event] = "sent"
            /\ \A j \in Joins : join[j].replay \subseteq Log

\* Joins are sent one after the other, and acknowledged once they are answered.
InvOrder == /\ \A i, j \in Joins : i < j /\ j \in Sent => i \in Sent
            /\ session # "idle" => \E j \in Joins : IsCurrent(j)
            /\ \A i \in DOMAIN channel : channel[i].kind = "ack" => join[channel[i].join].pc = "answered"

\* From the moment a join that counts enters the room the socket is in it.
InvRoom == \A j \in Joins : Live(j) /\ join[j].pc \in {"entered", "read", "answered"} => room /\ ~leaving

\* From the moment it has read the replay, what the log has behind its cursor is
\* in the replay, in the store, on its way, or not broadcast.
InvMeet == \A j \in Joins :
  Live(j) /\ join[j].pc \in {"read", "answered"} /\ join[j].since # NoSince /\ ~join[j].truncated =>
    \A e \in Log : e > join[j].since =>
      e \in join[j].replay \cup cache \cup Coming \/ pub[e] \in {"appended", "stored"}

InvJoined == \A j \in Joins : session = "joined" /\ IsCurrent(j) =>
  /\ join[j].pc \in {"answered", "lost"}
  /\ join[j].pc = "answered" => join[j].replay \subseteq cache

FInv == /\ TypeOK /\ channel \in Seq(Messages)
        /\ InvKnown /\ InvOrder /\ InvRoom /\ InvMeet /\ InvJoined

-----------------------------------------------------------------------------
(* The last join, the last event, and a replay that is not cut.                *)

LEMMA CurrentIsMax ==
  ASSUME NEW j \in Joins, IsCurrent(j)
  PROVE  Current = j
<1>1. Sent \subseteq Nat /\ j \in Sent /\ \A k \in Sent : j >= k
  BY FeedAssumption DEF Sent, Joins, IsCurrent
<1>2. \A x \in Sent : (\A y \in Sent : x >= y) => x = j
  BY <1>1
<1> QED
  BY <1>1, <1>2 DEF Current, Max

\* The newest event a client holds.
LEMMA LastIsEvent ==
  ASSUME cache \subseteq Events
  PROVE  Last \in Events \cup {NoSince}
<1>1. CASE cache = {}
  BY <1>1 DEF Last
<1>2. CASE cache # {}
  <2> DEFINE D == {MaxEvents - e : e \in cache}
  <2>1. D \subseteq Nat /\ D # {}
    <3>1. \A e \in cache : MaxEvents - e \in Nat
      BY FeedAssumption DEF Events
    <3> QED
      BY <1>2, <3>1
  <2>2. PICK d \in D : \A e \in D : ~(<<e, d>> \in OpToRel(<, Nat))
    BY <2>1, NatLessThanWellFounded, WFMin, Zenon
  <2>3. \A e \in D : ~(e < d)
    BY <2>1, <2>2 DEF OpToRel
  <2>4. PICK m \in cache : d = MaxEvents - m
    OBVIOUS
  <2>5. \A e \in cache : ~(MaxEvents - e < MaxEvents - m)
    BY <2>3, <2>4
  <2>6. \A e \in cache : m >= e
    BY <2>5, FeedAssumption DEF Events
  <2>7. Max(cache) \in cache
    BY <2>6 DEF Max
  <2> QED
    BY <1>2, <2>7 DEF Last
<1> QED
  BY <1>1, <1>2

\* A replay within the cap is all there was.
LEMMA UncutReplay ==
  ASSUME NEW S \in SUBSET Events, ~(Cardinality(S) > ReplayCap)
  PROVE  Oldest(S, ReplayCap) = S
<1>1. IsFiniteSet(Events)
  BY FeedAssumption, FS_Interval DEF Events
<1>2. IsFiniteSet(S) /\ Cardinality(S) \in Nat
  BY <1>1, FS_Subset, FS_CardinalityType
<1>3. ASSUME NEW e \in S PROVE Cardinality({f \in S : f < e}) < ReplayCap
  <2> DEFINE T == {f \in S : f < e}
  <2>1. T \subseteq S /\ e \notin T
    BY FeedAssumption DEF Events
  <2>2. IsFiniteSet(T) /\ Cardinality(T) \in Nat /\ Cardinality(T) <= Cardinality(S)
        /\ (Cardinality(T) = Cardinality(S) => T = S)
    BY <1>2, <2>1, FS_Subset, FS_CardinalityType
  <2>3. Cardinality(T) # Cardinality(S)
    BY <2>1, <2>2
  <2> HIDE DEF T
  <2>4. Cardinality(T) < ReplayCap
    BY <1>2, <2>2, <2>3, FeedAssumption
  <2> QED
    BY <2>4 DEF T
<1> QED
  BY <1>3 DEF Oldest

-----------------------------------------------------------------------------
(* The channel.                                                                *)

LEMMA ChannelTyped ==
  ASSUME channel \in Seq(Messages)
  PROVE  /\ Len(channel) \in Nat /\ DOMAIN channel = 1 .. Len(channel)
         /\ \A i \in 1 .. Len(channel) : channel[i] \in Messages
         /\ Coming \subseteq Events
<1>1. /\ Len(channel) \in Nat /\ DOMAIN channel = 1 .. Len(channel)
      /\ \A i \in 1 .. Len(channel) : channel[i] \in Messages
  BY LenProperties, ElementOfSeq
<1>2. \A m \in Messages : m.kind = "event" => m.event \in Events
  BY DEF Messages
<1> QED
  BY <1>1, <1>2 DEF Coming

\* The part of TypeOK about the channel, and the rest of it.
Written(c) == \A i \in DOMAIN c : \/ c[i].kind = "event" /\ c[i].event \in Events
                                  \/ c[i].kind \in {"ack", "error"} /\ c[i].join \in Joins
Parts == /\ pub \in [Events -> {"unborn", "built", "appended", "stored", "sent"}]
         /\ room \in BOOLEAN /\ leaving \in BOOLEAN
         /\ join \in [Joins -> Requests]
         /\ cache \subseteq Log /\ session \in {"idle", "joining", "joined", "error"}
         /\ drops \in 0 .. MaxDrops

LEMMA WrittenTyped ==
  ASSUME NEW c \in Seq(Messages)
  PROVE  Written(c)
<1>1. \A m \in Messages : \/ m.kind = "event" /\ m.event \in Events
                          \/ m.kind \in {"ack", "error"} /\ m.join \in Joins
  BY DEF Messages
<1>2. \A i \in DOMAIN c : c[i] \in Messages
  BY LenProperties, ElementOfSeq
<1> QED
  BY <1>1, <1>2 DEF Written

LEMMA TypeIsParts == /\ TypeOK <=> Parts /\ Written(channel)
                     /\ TypeOK' <=> Parts' /\ Written(channel')
BY DEF TypeOK, Parts, Written, Requests

LEMMA ChannelWritten ==
  ASSUME channel \in Seq(Messages), NEW m \in Messages, channel' = Append(channel, m)
  PROVE  /\ channel' \in Seq(Messages)
         /\ \A i \in DOMAIN channel' : (i \in DOMAIN channel /\ channel'[i] = channel[i]) \/ channel'[i] = m
         /\ Coming \subseteq Coming' /\ (m.kind = "event" => m.event \in Coming')
         /\ \A i \in DOMAIN channel : i \in DOMAIN channel' /\ channel'[i] = channel[i]
         /\ \E i \in DOMAIN channel' : channel'[i] = m
<1>1. /\ channel' \in Seq(Messages) /\ Len(channel') = Len(channel) + 1
      /\ \A i \in 1 .. Len(channel) : channel'[i] = channel[i]
      /\ channel'[Len(channel) + 1] = m
  BY AppendProperties
<1>2. Len(channel) \in Nat /\ DOMAIN channel = 1 .. Len(channel) /\ DOMAIN channel' = 1 .. Len(channel) + 1
  BY <1>1, LenProperties
<1>3. /\ \A i \in DOMAIN channel : i \in DOMAIN channel' /\ channel'[i] = channel[i]
      /\ \A i \in DOMAIN channel' : i \in DOMAIN channel \/ channel'[i] = m
      /\ Len(channel) + 1 \in DOMAIN channel'
  BY <1>1, <1>2
<1> QED
  BY <1>1, <1>3 DEF Coming

LEMMA ChannelRead ==
  ASSUME channel \in Seq(Messages), channel # <<>>, channel' = Tail(channel)
  PROVE  /\ channel' \in Seq(Messages) /\ Head(channel) \in Messages
         /\ \A i \in DOMAIN channel' : \E n \in DOMAIN channel : channel'[i] = channel[n]
         /\ \A e \in Coming : e \in Coming' \/ (Head(channel).kind = "event" /\ Head(channel).event = e)
         /\ \E n \in DOMAIN channel : Head(channel) = channel[n]
         /\ \A n \in DOMAIN channel :
              channel[n] = Head(channel) \/ \E i \in DOMAIN channel' : channel'[i] = channel[n]
<1>1. Len(channel) \in Nat \ {0} /\ DOMAIN channel = 1 .. Len(channel)
  BY EmptySeq, LenProperties
<1>2. /\ channel' \in Seq(Messages) /\ Len(channel') = Len(channel) - 1 /\ Head(channel) \in Messages
      /\ \A i \in 1 .. Len(channel') : channel'[i] = channel[i + 1]
  BY HeadTailProperties
<1>3. DOMAIN channel' = 1 .. Len(channel) - 1
  BY <1>2, LenProperties
<1>4. \A i \in DOMAIN channel' : i + 1 \in DOMAIN channel /\ channel'[i] = channel[i + 1]
  BY <1>1, <1>2, <1>3
<1>5. Head(channel) = channel[1] /\ 1 \in DOMAIN channel
  BY <1>1
<1>6. \A n \in DOMAIN channel : n = 1 \/ (n - 1 \in DOMAIN channel' /\ channel'[n - 1] = channel[n])
  <2> SUFFICES ASSUME NEW n \in DOMAIN channel, n # 1
               PROVE  n - 1 \in DOMAIN channel' /\ channel'[n - 1] = channel[n]
    OBVIOUS
  <2>1. n - 1 \in DOMAIN channel' /\ n - 1 + 1 = n
    BY <1>1, <1>3
  <2> QED
    BY <1>4, <2>1
<1>7. ASSUME NEW e \in Coming, ~(Head(channel).kind = "event" /\ Head(channel).event = e) PROVE e \in Coming'
  <2>1. PICK n \in DOMAIN channel : channel[n].kind = "event" /\ channel[n].event = e
    BY DEF Coming
  <2>2. n # 1
    BY <1>5, <1>7, <2>1
  <2> QED
    BY <1>6, <2>1, <2>2 DEF Coming
<1>8. \A n \in DOMAIN channel :
        channel[n] = Head(channel) \/ \E i \in DOMAIN channel' : channel'[i] = channel[n]
  BY <1>5, <1>6
<1> QED
  BY <1>2, <1>4, <1>5, <1>7, <1>8

-----------------------------------------------------------------------------
(* Publishers.                                                                 *)

LEMMA InitFInv ==
  ASSUME Init
  PROVE  FInv
<1> USE FeedAssumption DEF Init
<1>1. Sent = {} /\ Log = {} /\ Coming = {} /\ channel \in Seq(Messages)
  BY EmptySeq DEF Sent, Log, Coming
<1>2. TypeOK
  <2>1. [pc |-> "unsent", since |-> NoSince, replay |-> {}, truncated |-> FALSE] \in Requests
    BY DEF Requests
  <2>2. join \in [Joins -> Requests]
    BY <2>1
  <2>3. Written(channel)
    BY <1>1, WrittenTyped
  <2>4. pub \in [Events -> {"unborn", "built", "appended", "stored", "sent"}]
    OBVIOUS
  <2>5. drops \in 0 .. MaxDrops
    OBVIOUS
  <2> QED
    BY <2>2, <2>3, <2>4, <2>5, TypeIsParts DEF Parts
<1>3. InvKnown /\ InvOrder /\ InvRoom /\ InvMeet /\ InvJoined
  BY <1>1 DEF InvKnown, InvOrder, InvRoom, InvMeet, InvJoined, Live, IsCurrent
<1> QED
  BY <1>1, <1>2, <1>3 DEF FInv

\* A step of a publisher other than its broadcast only lets the log grow.
LEMMA StoreFrame ==
  ASSUME FInv, NEW e \in Events, NEW s \in {"built", "appended", "stored"},
         \/ pub[e] \in {"unborn", "built"} /\ s \in {"built", "appended"}
         \/ pub[e] = "appended" /\ s = "stored",
         pub' = [pub EXCEPT ![e] = s], UNCHANGED <<room, join, leaving, channel, client, drops>>
  PROVE  FInv'
<1> USE DEF client
<1>1. pub \in [Events -> {"unborn", "built", "appended", "stored", "sent"}]
  BY DEF FInv, TypeOK
<1>2. /\ Log \subseteq Log' /\ \A f \in Log' : f \in Log \/ pub'[f] = "appended"
      /\ \A f \in Events : pub[f] = "sent" => pub'[f] = "sent"
      /\ \A f \in Events : pub[f] \in {"appended", "stored"} => pub'[f] \in {"appended", "stored"}
  BY <1>1 DEF Log
<1>3. TypeOK'
  BY <1>1, <1>2 DEF FInv, TypeOK
<1>4. /\ \A i \in DOMAIN channel : channel[i].kind = "event" => channel[i].event \in Events
      /\ InvKnown'
  BY <1>2 DEF FInv, TypeOK, InvKnown
<1>5. InvOrder' /\ InvRoom' /\ InvJoined'
  BY DEF FInv, InvOrder, InvRoom, InvJoined, Live, IsCurrent, Sent
<1>6. InvMeet'
  <2>1. Coming' = Coming
    BY DEF Coming
  <2>2. \A f \in Log : pub[f] \in {"appended", "stored"} => pub'[f] \in {"appended", "stored"}
    BY <1>2 DEF Log
  <2> QED
    BY <1>2, <2>1, <2>2 DEF FInv, InvMeet, Live, IsCurrent, Sent
<1> QED
  BY <1>3, <1>4, <1>5, <1>6 DEF FInv

\* A broadcast reaches every join that counts and is in the room.
LEMMA BroadcastFInv ==
  ASSUME FInv, NEW e \in Events, Broadcast(e)
  PROVE  FInv'
<1> DEFINE m == [kind |-> "event", event |-> e]
<1> USE DEF client
<1>1. pub \in [Events -> {"unborn", "built", "appended", "stored", "sent"}] /\ pub[e] = "appended"
  BY DEF FInv, TypeOK, Broadcast
<1>2. /\ Log' = Log /\ pub'[e] = "sent" /\ \A f \in Events : f # e => pub'[f] = pub[f]
      /\ \A f \in Events : pub[f] = "sent" => pub'[f] = "sent"
  BY <1>1 DEF Log, Broadcast
<1>3. m \in Messages /\ m.kind = "event" /\ m.event = e
  BY DEF Messages
<1>4. /\ channel' \in Seq(Messages) /\ Coming \subseteq Coming' /\ (room => e \in Coming')
      /\ \A i \in DOMAIN channel' : (i \in DOMAIN channel /\ channel'[i] = channel[i]) \/ channel'[i] = m
  <2>1. CASE room
    <3>1. channel' = Append(channel, m)
      BY <2>1 DEF Broadcast
    <3> HIDE DEF m
    <3> QED
      BY <1>3, <3>1, ChannelWritten DEF FInv
  <2>2. CASE ~room
    BY <2>2 DEF Broadcast, FInv, Coming
  <2> QED
    BY <2>1, <2>2
<1>5. UNCHANGED <<room, join, leaving, cache, session, drops>>
  BY DEF Broadcast
<1> HIDE DEF m
<1>6. TypeOK'
  <2>1. pub' \in [Events -> {"unborn", "built", "appended", "stored", "sent"}]
    BY <1>1 DEF Broadcast
  <2>2. Written(channel')
    BY <1>4, WrittenTyped
  <2> QED
    BY <1>2, <1>5, <2>1, <2>2, TypeIsParts DEF FInv, Parts, TypeOK
<1>7. InvKnown'
  <2>1. ASSUME NEW i \in DOMAIN channel', channel'[i].kind = "event" PROVE pub'[channel'[i].event] = "sent"
    BY <1>2, <1>3, <1>4, <2>1 DEF FInv, TypeOK, InvKnown
  <2> QED
    BY <1>2, <1>5, <2>1 DEF FInv, InvKnown
<1>8. InvOrder' /\ InvRoom' /\ InvJoined'
  BY <1>3, <1>4, <1>5 DEF FInv, InvOrder, InvRoom, InvJoined, Live, IsCurrent, Sent
<1>9. InvMeet'
  <2> SUFFICES ASSUME NEW j \in Joins, Live(j), join[j].pc \in {"read", "answered"}, join[j].since # NoSince,
                      ~join[j].truncated, NEW f \in Log, f > join[j].since
               PROVE  f \in join[j].replay \cup cache \cup Coming' \/ pub'[f] \in {"appended", "stored"}
    BY <1>2, <1>5 DEF InvMeet, Live, IsCurrent, Sent
  <2>1. room
    BY DEF FInv, InvRoom
  <2>2. f \in join[j].replay \cup cache \cup Coming \/ pub[f] \in {"appended", "stored"}
    BY DEF FInv, InvMeet
  <2> QED
    BY <1>2, <1>4, <2>1, <2>2 DEF Log
<1> QED
  BY <1>4, <1>6, <1>7, <1>8, <1>9 DEF FInv

-----------------------------------------------------------------------------
(* The server's side of a join and a leave.                                    *)

\* A request is served one step: none is sent, none is given up.
LEMMA ServeFrame ==
  ASSUME FInv, NEW j \in Joins, NEW r \in Requests, join' = [join EXCEPT ![j] = r],
         join[j].pc \in {"checks", "entered", "read"},
         r.pc \in {"refused", "raised", "entered", "read", "answered"},
         UNCHANGED <<pub, leaving, client, drops>>, room' \in BOOLEAN, r.replay \subseteq Log,
         channel' \in Seq(Messages)
  PROVE  /\ TypeOK' /\ Log' = Log /\ Sent' = Sent
         /\ join'[j] = r /\ \A k \in Joins : k # j => join'[k] = join[k]
         /\ \A k \in Joins : join'[k].replay \subseteq Log
         /\ \A k \in Joins : (Live(k)' <=> Live(k)) /\ (IsCurrent(k)' <=> IsCurrent(k))
         /\ InvJoined'
<1> USE DEF client
<1>1. join \in [Joins -> Requests]
  BY TypeIsParts DEF FInv, Parts
<1>2. /\ join' \in [Joins -> Requests] /\ join'[j] = r
      /\ \A k \in Joins : k # j => join'[k] = join[k]
  BY <1>1
<1>3. Log' = Log
  BY DEF Log
<1>4. Sent' = Sent
  BY <1>1, <1>2 DEF Sent
<1>5. TypeOK'
  BY <1>2, <1>3, WrittenTyped, TypeIsParts DEF FInv, Parts
<1>6. \A k \in Joins : (Live(k)' <=> Live(k)) /\ (IsCurrent(k)' <=> IsCurrent(k))
  BY <1>4 DEF Live, IsCurrent
<1>7. \A k \in Joins : join'[k].replay \subseteq Log
  BY <1>2 DEF FInv, InvKnown
<1>8. InvJoined'
  BY <1>2, <1>6 DEF FInv, InvJoined
<1> QED
  BY <1>2, <1>3, <1>4, <1>5, <1>6, <1>7, <1>8

\* What InvOrder says of the requests and the session.
LEMMA OrderKept ==
  ASSUME InvOrder, Sent' = Sent, session' # "idle" => session # "idle",
         \A i \in DOMAIN channel' : channel'[i].kind = "ack" => join'[channel'[i].join].pc = "answered"
  PROVE  InvOrder'
BY DEF InvOrder, IsCurrent

LEMMA EnterFInv ==
  ASSUME FInv, NEW j \in Joins, EnterRoom(j)
  PROVE  FInv'
<1> USE DEF client
<1> DEFINE r == [join[j] EXCEPT !.pc = "entered"]
<1>1. join \in [Joins -> Requests]
  BY TypeIsParts DEF FInv, Parts
<1>2. /\ r \in Requests /\ r.pc = "entered" /\ r.replay = join[j].replay /\ r.since = join[j].since
      /\ join' = [join EXCEPT ![j] = r]
  BY <1>1 DEF EnterRoom, Requests
<1> HIDE DEF r
<1>3. /\ room' /\ join[j].pc = "checks" /\ UNCHANGED <<pub, leaving, channel, client, drops>>
      /\ ~(leaving /\ session # "idle" /\ j = Current)
  BY DEF EnterRoom
<1>4. /\ TypeOK' /\ Log' = Log /\ Sent' = Sent
      /\ join'[j] = r /\ \A k \in Joins : k # j => join'[k] = join[k]
      /\ \A k \in Joins : join'[k].replay \subseteq Log
      /\ \A k \in Joins : (Live(k)' <=> Live(k)) /\ (IsCurrent(k)' <=> IsCurrent(k))
      /\ InvJoined'
  <2>1. room' \in BOOLEAN /\ r.replay \subseteq Log /\ channel' \in Seq(Messages)
    BY <1>2, <1>3 DEF FInv, InvKnown, TypeOK, EnterRoom
  <2> QED
    BY <1>2, <1>3, <2>1, ServeFrame
<1>5. InvKnown'
  BY <1>3, <1>4 DEF FInv, InvKnown
<1>6. InvOrder'
  <2>1. \A i \in DOMAIN channel' : channel'[i].kind = "ack" => join'[channel'[i].join].pc = "answered"
    <3>1. \A i \in DOMAIN channel : channel[i].kind = "ack" => channel[i].join \in Joins
      BY WrittenTyped DEF Written, FInv
    <3> QED
      BY <1>3, <1>4, <3>1 DEF FInv, InvOrder
  <2> QED
    BY <1>3, <1>4, <2>1, OrderKept DEF FInv
<1>7. InvRoom'
  <2>1. Live(j) => ~leaving
    BY <1>3, CurrentIsMax DEF Live
  <2> QED
    BY <1>2, <1>3, <1>4, <2>1 DEF FInv, InvRoom
<1>8. InvMeet'
  <2>1. Coming' = Coming
    BY <1>3 DEF Coming
  <2> QED
    BY <1>2, <1>3, <1>4, <2>1 DEF FInv, InvMeet
<1> QED
  BY <1>3, <1>4, <1>5, <1>6, <1>7, <1>8 DEF FInv

LEMMA ReadFInv ==
  ASSUME FInv, NEW j \in Joins, ReadReplay(j)
  PROVE  FInv'
<1> USE DEF client
<1> DEFINE found == IF join[j].since = NoSince THEN {} ELSE After(join[j].since)
           cut == Cardinality(found) > ReplayCap
           r == [join[j] EXCEPT !.pc = "read", !.replay = Oldest(found, ReplayCap), !.truncated = cut]
<1>1. join \in [Joins -> Requests]
  BY TypeIsParts DEF FInv, Parts
<1>2. found \subseteq Log /\ Log \subseteq Events
  BY DEF After, Log
<1>3. Oldest(found, ReplayCap) \subseteq found
  BY DEF Oldest
<1>4. /\ r \in Requests /\ r.pc = "read" /\ r.replay = Oldest(found, ReplayCap) /\ r.since = join[j].since
      /\ r.truncated = cut /\ join' = [join EXCEPT ![j] = r]
  <2>1. Oldest(found, ReplayCap) \in SUBSET Events
    BY <1>2, <1>3
  <2>2. join' = [join EXCEPT ![j] = r]
    BY <1>1 DEF ReadReplay, Requests
  <2>3. cut \in BOOLEAN
    OBVIOUS
  <2> HIDE DEF found, cut
  <2> QED
    BY <1>1, <2>1, <2>2, <2>3 DEF Requests
<1>5. ~r.truncated /\ r.since # NoSince => \A e \in Log : e > r.since => e \in r.replay
  <2> SUFFICES ASSUME ~r.truncated, r.since # NoSince, NEW e \in Log, e > r.since PROVE e \in r.replay
    OBVIOUS
  <2>1. e \in found
    BY <1>4 DEF After
  <2>2. Oldest(found, ReplayCap) = found
    <3> HIDE DEF found, r
    <3> QED
      BY <1>2, <1>4, UncutReplay
  <2> QED
    BY <1>4, <2>1, <2>2
<1> HIDE DEF r, found
<1>6. /\ join[j].pc = "entered" /\ UNCHANGED <<pub, room, leaving, channel, client, drops>>
  BY DEF ReadReplay
<1>7. /\ TypeOK' /\ Log' = Log /\ Sent' = Sent
      /\ join'[j] = r /\ \A k \in Joins : k # j => join'[k] = join[k]
      /\ \A k \in Joins : join'[k].replay \subseteq Log
      /\ \A k \in Joins : (Live(k)' <=> Live(k)) /\ (IsCurrent(k)' <=> IsCurrent(k))
      /\ InvJoined'
  <2>1. room' \in BOOLEAN /\ r.replay \subseteq Log /\ channel' \in Seq(Messages)
    BY <1>2, <1>3, <1>4, <1>6 DEF FInv, TypeOK
  <2> QED
    BY <1>4, <1>6, <2>1, ServeFrame
<1>8. InvKnown'
  BY <1>6, <1>7 DEF FInv, InvKnown
<1>9. InvOrder'
  <2>1. \A i \in DOMAIN channel' : channel'[i].kind = "ack" => join'[channel'[i].join].pc = "answered"
    <3>1. \A i \in DOMAIN channel : channel[i].kind = "ack" => channel[i].join \in Joins
      BY WrittenTyped DEF Written, FInv
    <3> QED
      BY <1>6, <1>7, <3>1 DEF FInv, InvOrder
  <2> QED
    BY <1>6, <1>7, <2>1, OrderKept DEF FInv
<1>10. InvRoom'
  BY <1>4, <1>6, <1>7 DEF FInv, InvRoom
<1>11. InvMeet'
  <2>1. Coming' = Coming
    BY <1>6 DEF Coming
  <2>2. \A k \in Joins : k # j => join'[k] = join[k]
    BY <1>7
  <2>3. ASSUME NEW k \in Joins, Live(k)', join'[k].pc \in {"read", "answered"}, join'[k].since # NoSince,
               ~join'[k].truncated, NEW e \in Log, e > join'[k].since
        PROVE  e \in join'[k].replay \cup cache \cup Coming \/ pub[e] \in {"appended", "stored"}
    <3>1. CASE k = j
      BY <1>5, <1>7, <2>3, <3>1
    <3>2. CASE k # j
      BY <1>7, <2>2, <2>3, <3>2 DEF FInv, InvMeet
    <3> QED
      BY <3>1, <3>2
  <2> QED
    BY <1>6, <1>7, <2>1, <2>3 DEF InvMeet
<1> QED
  BY <1>6, <1>7, <1>8, <1>9, <1>10, <1>11 DEF FInv

LEMMA AcknowledgeFInv ==
  ASSUME FInv, NEW j \in Joins, Acknowledge(j)
  PROVE  FInv'
<1> USE DEF client
<1> DEFINE r == [join[j] EXCEPT !.pc = "answered"]
           m == [kind |-> "ack", join |-> j]
<1>1. join \in [Joins -> Requests]
  BY TypeIsParts DEF FInv, Parts
<1>2. /\ r \in Requests /\ r.pc = "answered" /\ r.replay = join[j].replay /\ r.since = join[j].since
      /\ r.truncated = join[j].truncated /\ join' = [join EXCEPT ![j] = r]
  BY <1>1 DEF Acknowledge, Requests
<1>3. m \in Messages /\ m.kind = "ack" /\ m.join = j
  BY DEF Messages
<1>4. join[j].pc = "read" /\ channel' = Append(channel, m) /\ UNCHANGED <<pub, room, leaving, client, drops>>
  BY DEF Acknowledge
<1> HIDE DEF r, m
<1>5. /\ channel' \in Seq(Messages) /\ Coming \subseteq Coming'
      /\ \A i \in DOMAIN channel' : (i \in DOMAIN channel /\ channel'[i] = channel[i]) \/ channel'[i] = m
  BY <1>3, <1>4, ChannelWritten DEF FInv
<1>6. /\ TypeOK' /\ Log' = Log /\ Sent' = Sent
      /\ join'[j] = r /\ \A k \in Joins : k # j => join'[k] = join[k]
      /\ \A k \in Joins : join'[k].replay \subseteq Log
      /\ \A k \in Joins : (Live(k)' <=> Live(k)) /\ (IsCurrent(k)' <=> IsCurrent(k))
      /\ InvJoined'
  <2>1. room' \in BOOLEAN /\ r.replay \subseteq Log
    BY <1>2, <1>4 DEF FInv, InvKnown, TypeOK
  <2> QED
    BY <1>2, <1>4, <1>5, <2>1, ServeFrame
<1>7. InvKnown'
  BY <1>3, <1>4, <1>5, <1>6 DEF FInv, InvKnown
<1>8. InvOrder'
  <2>1. \A i \in DOMAIN channel' : channel'[i].kind = "ack" => join'[channel'[i].join].pc = "answered"
    <3>1. \A i \in DOMAIN channel : channel[i].kind = "ack" => channel[i].join \in Joins
      BY WrittenTyped DEF Written, FInv
    <3> QED
      BY <1>2, <1>3, <1>5, <1>6, <3>1 DEF FInv, InvOrder
  <2> QED
    BY <1>4, <1>6, <2>1, OrderKept DEF FInv
<1>9. InvRoom'
  BY <1>2, <1>4, <1>6 DEF FInv, InvRoom
<1>10. InvMeet'
  <2>1. \A k \in Joins : /\ join'[k].pc \in {"read", "answered"} => join[k].pc \in {"read", "answered"}
                         /\ join'[k].since = join[k].since /\ join'[k].truncated = join[k].truncated
                         /\ join'[k].replay = join[k].replay
    BY <1>2, <1>4, <1>6
  <2> QED
    BY <1>4, <1>5, <1>6, <2>1 DEF FInv, InvMeet
<1> QED
  BY <1>4, <1>5, <1>6, <1>7, <1>8, <1>9, <1>10 DEF FInv

\* A request that ends early, with an error or without a word, counts on nothing.
LEMMA EndedFInv ==
  ASSUME FInv, NEW j \in Joins, NEW p \in {"refused", "raised"}, join[j].pc \in {"checks", "entered"},
         join' = [join EXCEPT ![j].pc = p], UNCHANGED <<pub, room, leaving, client, drops>>,
         NEW m \in Messages, m.kind = "error", channel' = Append(channel, m) \/ channel' = channel
  PROVE  FInv'
<1> USE DEF client
<1> DEFINE r == [join[j] EXCEPT !.pc = p]
<1>1. join \in [Joins -> Requests]
  BY TypeIsParts DEF FInv, Parts
<1>2. /\ r \in Requests /\ r.pc = p /\ r.replay = join[j].replay
      /\ join' = [join EXCEPT ![j] = r]
  BY <1>1 DEF Requests
<1> HIDE DEF r
<1>3. /\ channel' \in Seq(Messages) /\ Coming \subseteq Coming'
      /\ \A i \in DOMAIN channel' : (i \in DOMAIN channel /\ channel'[i] = channel[i]) \/ channel'[i] = m
  <2>1. CASE channel' = Append(channel, m)
    BY <2>1, ChannelWritten DEF FInv
  <2>2. CASE channel' = channel
    BY <2>2 DEF FInv, Coming
  <2> QED
    BY <2>1, <2>2
<1>4. /\ TypeOK' /\ Log' = Log /\ Sent' = Sent
      /\ join'[j] = r /\ \A k \in Joins : k # j => join'[k] = join[k]
      /\ \A k \in Joins : join'[k].replay \subseteq Log
      /\ \A k \in Joins : (Live(k)' <=> Live(k)) /\ (IsCurrent(k)' <=> IsCurrent(k))
      /\ InvJoined'
  <2>1. room' \in BOOLEAN /\ r.replay \subseteq Log
    BY <1>2 DEF FInv, InvKnown, TypeOK
  <2> QED
    BY <1>2, <1>3, <2>1, ServeFrame
<1>5. InvKnown'
  BY <1>3, <1>4 DEF FInv, InvKnown
<1>6. InvOrder'
  <2>1. \A i \in DOMAIN channel' : channel'[i].kind = "ack" => join'[channel'[i].join].pc = "answered"
    <3>1. \A i \in DOMAIN channel : channel[i].kind = "ack" => channel[i].join \in Joins
      BY WrittenTyped DEF Written, FInv
    <3> QED
      BY <1>2, <1>3, <1>4, <3>1 DEF FInv, InvOrder
  <2> QED
    BY <1>4, <2>1, OrderKept DEF FInv
<1>7. \A k \in Joins : join'[k].pc \in {"entered", "read", "answered"} => k # j
  BY <1>2, <1>4
<1>8. InvRoom' /\ InvMeet'
  BY <1>3, <1>4, <1>7 DEF FInv, InvRoom, InvMeet
<1> QED
  BY <1>3, <1>4, <1>5, <1>6, <1>8 DEF FInv

LEMMA RefuseFInv ==
  ASSUME FInv, NEW j \in Joins, Refuse(j) \/ Raise(j)
  PROVE  FInv'
<1> DEFINE m == [kind |-> "error", join |-> j]
<1>1. m \in Messages /\ m.kind = "error"
  BY DEF Messages
<1>2. \E p \in {"refused", "raised"} : join' = [join EXCEPT ![j].pc = p]
  BY DEF Refuse, Raise
<1>3. /\ join[j].pc \in {"checks", "entered"} /\ UNCHANGED <<pub, room, leaving, client, drops>>
      /\ channel' = Append(channel, m) \/ channel' = channel
  BY DEF Refuse, Raise
<1> HIDE DEF m
<1> QED
  BY <1>1, <1>2, <1>3, EndedFInv

\* A leave takes the socket out of the room only when no session counts on it.
LEMMA LeaveFInv ==
  ASSUME FInv, LeaveRoom
  PROVE  FInv'
<1> USE DEF client
<1>1. leaving /\ ~leaving' /\ ~room' /\ UNCHANGED <<pub, join, channel, client, drops>>
      /\ leaving' = FALSE /\ room' = FALSE
  BY DEF LeaveRoom
<1>2. Log' = Log /\ Coming' = Coming
  BY <1>1 DEF Log, Coming
<1>3. TypeOK'
  BY <1>1, <1>2 DEF FInv, TypeOK
<1>4. InvKnown' /\ InvOrder' /\ InvRoom' /\ InvMeet' /\ InvJoined'
  BY <1>1, <1>2 DEF FInv, InvKnown, InvOrder, InvRoom, InvMeet, InvJoined, Live, IsCurrent, Sent
<1> QED
  BY <1>1, <1>3, <1>4 DEF FInv

-----------------------------------------------------------------------------
(* The client.                                                                 *)

\* The new join becomes the one that counts, and is nowhere yet.
LEMMA MountFInv ==
  ASSUME FInv, NEW j \in Joins, Mount(j)
  PROVE  FInv'
<1> DEFINE r == [join[j] EXCEPT !.pc = "checks", !.since = Last]
<1>1. join \in [Joins -> Requests] /\ Joins \subseteq Nat
  BY TypeIsParts, FeedAssumption DEF FInv, Parts, Joins
<1>2. /\ r \in Requests /\ r.pc = "checks" /\ r.replay = join[j].replay /\ join' = [join EXCEPT ![j] = r]
  <2>1. Last \in Events \cup {NoSince}
    BY LastIsEvent DEF FInv, TypeOK, Log
  <2> QED
    BY <1>1, <2>1 DEF Mount, Requests
<1>3. /\ session = "idle" /\ session' = "joining" /\ join[j].pc = "unsent"
      /\ \A i \in Joins : i < j => i \in Sent
      /\ UNCHANGED <<pub, room, leaving, channel, cache, drops>>
  BY DEF Mount, Sent
<1> HIDE DEF r
<1>4. /\ join' \in [Joins -> Requests] /\ join'[j] = r
      /\ \A k \in Joins : k # j => join'[k] = join[k]
  BY <1>1, <1>2
<1>5. Sent' = Sent \cup {j} /\ j \notin Sent
  BY <1>2, <1>3, <1>4 DEF Sent
<1>6. IsCurrent(j)' /\ \A k \in Joins : IsCurrent(k)' => k = j
  <2>1. \A k \in Sent : k < j
    BY <1>1, <1>5 DEF FInv, InvOrder, Sent
  <2> QED
    BY <1>1, <1>5, <2>1 DEF IsCurrent, Sent
<1>7. Log' = Log
  BY <1>3 DEF Log
<1>8. TypeOK'
  BY <1>3, <1>4, <1>7, TypeIsParts DEF FInv, Parts
<1>9. InvKnown'
  BY <1>2, <1>3, <1>4, <1>7 DEF FInv, InvKnown
<1>10. InvOrder'
  <2>1. \A i \in DOMAIN channel' : channel'[i].kind = "ack" => join'[channel'[i].join].pc = "answered"
    <3>1. \A i \in DOMAIN channel : channel[i].kind = "ack" => channel[i].join \in Joins
      BY WrittenTyped DEF Written, FInv
    <3> QED
      BY <1>3, <1>4, <3>1 DEF FInv, InvOrder
  <2>2. \A i, k \in Joins : i < k /\ k \in Sent' => i \in Sent'
    BY <1>3, <1>5 DEF FInv, InvOrder
  <2> QED
    BY <1>6, <2>1, <2>2 DEF InvOrder
<1>11. InvRoom' /\ InvMeet' /\ InvJoined'
  BY <1>2, <1>3, <1>4, <1>6 DEF InvRoom, InvMeet, InvJoined, Live
<1> QED
  BY <1>3, <1>8, <1>9, <1>10, <1>11 DEF FInv

LEMMA UnmountFInv ==
  ASSUME FInv, Unmount
  PROVE  FInv'
<1>1. session' = "idle" /\ leaving' = TRUE /\ UNCHANGED <<pub, room, join, channel, cache, drops>>
  BY DEF Unmount
<1>2. Log' = Log
  BY <1>1 DEF Log
<1>3. TypeOK'
  BY <1>1, <1>2 DEF FInv, TypeOK
<1>4. InvKnown' /\ InvOrder' /\ InvRoom' /\ InvMeet' /\ InvJoined'
  BY <1>1, <1>2 DEF FInv, InvKnown, InvOrder, InvRoom, InvMeet, InvJoined, Live, Sent
<1> QED
  BY <1>1, <1>3, <1>4 DEF FInv

\* An event leaves the channel for the store; an answer brings the replay.
LEMMA ReceiveFInv ==
  ASSUME FInv, Receive
  PROVE  FInv'
<1> USE DEF client
<1> DEFINE m == Head(channel)
<1>1. channel # <<>> /\ channel' = Tail(channel) /\ UNCHANGED <<pub, room, join, leaving, drops>>
  BY DEF Receive
<1>2. /\ channel' \in Seq(Messages) /\ m \in Messages
      /\ \A i \in DOMAIN channel' : \E n \in DOMAIN channel : channel'[i] = channel[n]
      /\ \A e \in Coming : e \in Coming' \/ (m.kind = "event" /\ m.event = e)
      /\ \E n \in DOMAIN channel : m = channel[n]
  BY <1>1, ChannelRead DEF FInv
<1>3. \/ m.kind = "event" /\ cache' = cache \cup {m.event} /\ session' = session
      \/ /\ m.kind = "ack" /\ session = "joining" /\ m.join = Current
         /\ cache' = cache \cup join[m.join].replay /\ session' = "joined"
      \/ m.kind # "event" /\ cache' = cache /\ session' = session
      \/ m.kind = "error" /\ cache' = cache /\ session = "joining" /\ session' = "error"
  BY DEF Receive
<1>4. /\ m.kind = "event" => m.event \in Log
      /\ m.kind = "ack" => m.join \in Joins /\ join[m.join].pc = "answered"
  <2>1. (m.kind = "event" => m.event \in Events) /\ (m.kind = "ack" => m.join \in Joins)
    BY <1>2 DEF Messages
  <2>2. m.kind = "event" => pub[m.event] = "sent"
    BY <1>2 DEF FInv, InvKnown
  <2>3. m.kind = "ack" => join[m.join].pc = "answered"
    BY <1>2 DEF FInv, InvOrder
  <2> QED
    BY <2>1, <2>2, <2>3 DEF Log
<1> HIDE DEF m
<1>5. /\ Log' = Log /\ cache \subseteq cache' /\ cache' \subseteq Log
      /\ \A e \in Coming : e \in Coming' \cup cache'
      /\ (session' = "idle" <=> session = "idle")
  <2>1. Log' = Log /\ cache \subseteq Log /\ \A j \in Joins : join[j].replay \subseteq Log
    BY <1>1 DEF Log, FInv, TypeOK, InvKnown
  <2>2. CASE m.kind = "event" /\ cache' = cache \cup {m.event} /\ session' = session
    BY <1>2, <1>4, <2>1, <2>2
  <2>3. CASE /\ m.kind = "ack" /\ session = "joining" /\ m.join = Current
             /\ cache' = cache \cup join[m.join].replay /\ session' = "joined"
    BY <1>2, <1>4, <2>1, <2>3
  <2>4. CASE m.kind # "event" /\ cache' = cache /\ session' \in {session, "error"}
             /\ (session' = session \/ session = "joining")
    BY <1>2, <2>1, <2>4
  <2> QED
    BY <1>3, <2>2, <2>3, <2>4
<1>6. /\ Sent' = Sent
      /\ \A j \in Joins : (Live(j)' <=> Live(j)) /\ (IsCurrent(j)' <=> IsCurrent(j))
  BY <1>1, <1>5 DEF Live, IsCurrent, Sent
<1>7. TypeOK'
  <2>1. session' \in {"idle", "joining", "joined", "error"}
    BY <1>3 DEF FInv, TypeOK
  <2> QED
    BY <1>1, <1>2, <1>5, <2>1, WrittenTyped, TypeIsParts DEF FInv, Parts
<1>8. InvKnown'
  BY <1>1, <1>2, <1>5 DEF FInv, InvKnown
<1>9. InvOrder'
  <2>1. \A i \in DOMAIN channel' : channel'[i].kind = "ack" => join'[channel'[i].join].pc = "answered"
    BY <1>1, <1>2 DEF FInv, InvOrder
  <2> QED
    BY <1>5, <1>6, <2>1, OrderKept DEF FInv
<1>10. InvRoom'
  BY <1>1, <1>6 DEF FInv, InvRoom
<1>11. InvMeet'
  <2> SUFFICES ASSUME NEW j \in Joins, Live(j), join[j].pc \in {"read", "answered"}, join[j].since # NoSince,
                      ~join[j].truncated, NEW e \in Log, e > join[j].since
               PROVE  e \in join[j].replay \cup cache' \cup Coming' \/ pub[e] \in {"appended", "stored"}
    BY <1>1, <1>5, <1>6 DEF InvMeet
  <2>1. e \in join[j].replay \cup cache \cup Coming \/ pub[e] \in {"appended", "stored"}
    BY DEF FInv, InvMeet
  <2> QED
    BY <1>5, <2>1
<1>12. InvJoined'
  <2> SUFFICES ASSUME NEW j \in Joins, session' = "joined", IsCurrent(j)
               PROVE  /\ join[j].pc \in {"answered", "lost"}
                      /\ join[j].pc = "answered" => join[j].replay \subseteq cache'
    BY <1>1, <1>6 DEF InvJoined
  <2>1. CASE session = "joined"
    BY <1>5, <2>1 DEF FInv, InvJoined
  <2>2. CASE session # "joined"
    <3>1. m.kind = "ack" /\ m.join = Current /\ cache' = cache \cup join[m.join].replay
      BY <1>3, <2>2
    <3>2. m.join = j
      BY <3>1, CurrentIsMax
    <3> QED
      BY <1>4, <3>1, <3>2
  <2> QED
    BY <2>1, <2>2
<1> QED
  BY <1>2, <1>7, <1>8, <1>9, <1>10, <1>11, <1>12 DEF FInv

LEMMA DropFInv ==
  ASSUME FInv, DropSocket
  PROVE  FInv'
<1>1. /\ room' = FALSE /\ leaving' = FALSE /\ channel' = <<>> /\ UNCHANGED <<pub, cache>>
      /\ drops < MaxDrops /\ drops' = drops + 1
      /\ session' = IF session = "joining" THEN "error" ELSE session
  BY DEF DropSocket
<1>2. join \in [Joins -> Requests]
  BY TypeIsParts DEF FInv, Parts
<1>3. /\ join' \in [Joins -> Requests]
      /\ \A j \in Joins : /\ join'[j].replay = join[j].replay
                           /\ join'[j].pc = IF join[j].pc = "unsent" THEN "unsent" ELSE "lost"
  <2>1. \A j \in Joins : [join[j] EXCEPT !.pc = "lost"] \in Requests
    BY <1>2 DEF Requests
  <2>2. \A j \in Joins : /\ [join[j] EXCEPT !.pc = "lost"].pc = "lost"
                         /\ [join[j] EXCEPT !.pc = "lost"].replay = join[j].replay
    BY <1>2 DEF Requests
  <2> QED
    BY <1>2, <2>1, <2>2 DEF DropSocket
<1>4. Log' = Log /\ Sent' = Sent /\ \A j \in Joins : IsCurrent(j)' <=> IsCurrent(j)
  BY <1>1, <1>3 DEF Log, Sent, IsCurrent
<1>5. channel' \in Seq(Messages) /\ DOMAIN channel' = {}
  BY <1>1, EmptySeq, LenProperties
<1>6. TypeOK'
  <2>1. drops' \in 0 .. MaxDrops
    BY <1>1, FeedAssumption DEF FInv, TypeOK
  <2>2. session' \in {"idle", "joining", "joined", "error"}
    BY <1>1 DEF FInv, TypeOK
  <2>3. pub \in [Events -> {"unborn", "built", "appended", "stored", "sent"}] /\ cache \subseteq Log
    BY DEF FInv, TypeOK
  <2> QED
    BY <1>1, <1>3, <1>4, <1>5, <2>1, <2>2, <2>3, WrittenTyped, TypeIsParts DEF Parts
<1>7. InvKnown'
  BY <1>3, <1>4, <1>5 DEF FInv, InvKnown
<1>8. InvOrder'
  BY <1>1, <1>4, <1>5, OrderKept DEF FInv
<1>9. InvRoom' /\ InvMeet' /\ InvJoined'
  <2>1. \A j \in Joins : join'[j].pc \notin {"entered", "read", "answered"}
    BY <1>3
  <2>2. \A j \in Joins : IsCurrent(j)' => join'[j].pc = "lost"
    BY <1>3 DEF IsCurrent, Sent
  <2> QED
    BY <2>1, <2>2 DEF InvRoom, InvMeet, InvJoined
<1> QED
  BY <1>5, <1>6, <1>7, <1>8, <1>9 DEF FInv

-----------------------------------------------------------------------------
(* The theorems.                                                               *)

LEMMA NextFInv ==
  ASSUME FInv, [Next]_vars
  PROVE  FInv'
<1>1. ASSUME NEW e \in Events, Build(e) PROVE FInv'
  BY <1>1, StoreFrame DEF Build
<1>2. ASSUME NEW e \in Events, AppendEvent(e) \/ CutOff(e) PROVE FInv'
  BY <1>2, StoreFrame DEF AppendEvent, CutOff
<1>3. ASSUME NEW e \in Events, Broadcast(e) PROVE FInv'
  BY <1>3, BroadcastFInv
<1>4. ASSUME NEW j \in Joins, EnterRoom(j) PROVE FInv'
  BY <1>4, EnterFInv
<1>5. ASSUME NEW j \in Joins, ReadReplay(j) \/ Refuse(j) \/ Raise(j) PROVE FInv'
  BY <1>5, ReadFInv, RefuseFInv
<1>6. ASSUME NEW j \in Joins, Acknowledge(j) PROVE FInv'
  BY <1>6, AcknowledgeFInv
<1>7. ASSUME NEW j \in Joins, Mount(j) PROVE FInv'
  BY <1>7, MountFInv
<1>8. CASE LeaveRoom
  BY <1>8, LeaveFInv
<1>9. CASE Unmount
  BY <1>9, UnmountFInv
<1>10. CASE Receive
  BY <1>10, ReceiveFInv
<1>11. CASE DropSocket
  BY <1>11, DropFInv
<1>12. CASE UNCHANGED vars
  BY <1>12 DEF vars, FInv, TypeOK, InvKnown, InvOrder, InvRoom, InvMeet, InvJoined, Live, IsCurrent, Sent,
               Log, Coming
<1> QED
  BY <1>1, <1>2, <1>3, <1>4, <1>5, <1>6, <1>7, <1>8, <1>9, <1>10, <1>11, <1>12 DEF Next, Publish, Serve

LEMMA FInvMeets ==
  ASSUME FInv
  PROVE  ReplayMeetsLive
<1> SUFFICES ASSUME session = "joined", join[Current].pc = "answered", join[Current].since # NoSince,
                    ~join[Current].truncated, NEW e \in Log, e > join[Current].since
             PROVE  e \in cache \cup Coming \/ pub[e] \in {"appended", "stored"}
  BY DEF ReplayMeetsLive
<1>1. PICK j \in Joins : IsCurrent(j)
  BY DEF FInv, InvOrder
<1>2. Current = j
  BY <1>1, CurrentIsMax
<1>3. e \in join[j].replay \cup cache \cup Coming \/ pub[e] \in {"appended", "stored"}
  BY <1>1, <1>2 DEF FInv, InvMeet, Live
<1>4. join[j].replay \subseteq cache
  BY <1>1, <1>2 DEF FInv, InvJoined
<1> QED
  BY <1>3, <1>4

\* The inductive invariant of the feed holds in every reachable state.
THEOREM FeedInvariance == Spec => []FInv
<1>1. Init => FInv
  BY InitFInv
<1>2. FInv /\ [Next]_vars => FInv'
  BY NextFInv
<1> QED
  BY <1>1, <1>2, PTL DEF Spec

\* Every variable of the feed keeps its type, and the store of the client holds
\* only events of the log.
THEOREM FeedTypes == Spec => []TypeOK
<1>1. FInv => TypeOK
  BY DEF FInv
<1> QED
  BY <1>1, FeedInvariance, PTL

\* Nothing published while a join is under way falls between the replay that
\* on_thread_join reads and the live events, however publishers overtake one
\* another, however often the client leaves and comes back: what is missing is
\* what nobody broadcast.
THEOREM ReplayMeets == Spec => []ReplayMeetsLive
<1>1. FInv => ReplayMeetsLive
  BY FInvMeets
<1> QED
  BY <1>1, FeedInvariance, PTL

-----------------------------------------------------------------------------
(* What the client waits for is on its way: the parts of JoinEnds and       *)
(* Delivered that do not rest on fairness.                                     *)

\* The answer to a join, the replay or an error, is written and not yet read.
Acked(j) == \E i \in DOMAIN channel : channel[i].kind \in {"ack", "error"} /\ channel[i].join = j

AtServer == {"checks", "entered", "read"}

\* A session that is joining does not wait for nothing: on_thread_join is at
\* work on its join, or the answer is in the socket, whatever joins and leaves
\* of earlier mounts are still about; or the handler of this very join raised.
AnswerComes == session = "joining" => join[Current].pc \in AtServer \cup {"raised"} \/ Acked(Current)

InvAnswer == \A j \in Joins :
  session = "joining" /\ IsCurrent(j) => join[j].pc \in AtServer \cup {"raised"} \/ Acked(j)

\* The client has joined and its socket has held since.
Listening == session = "joined" /\ join[Current].pc = "answered"

OnItsWay(e) == pub[e] = "appended" \/ e \in Coming \cup cache

\* While the client listens no event slips past it: what waits to be broadcast
\* is written to its socket when it is, and what is written comes to its store.
\* The one step that takes an event from its way cuts its publisher off.
KeptOnItsWay ==
  [][\A e \in Events : Listening /\ Listening' /\ OnItsWay(e) => OnItsWay(e)' \/ CutOff(e)]_vars

\* No join is sent or given up, no answer is lost.
LEMMA AnswerFrame ==
  ASSUME InvAnswer, Sent' = Sent, session' = "joining" => session = "joining",
         \A j \in Joins : join'[j].pc = join[j].pc \/ join'[j].pc \in AtServer \cup {"raised"} \/ Acked(j)',
         \A j \in Joins : Acked(j) => Acked(j)'
  PROVE  InvAnswer'
BY DEF InvAnswer, IsCurrent

LEMMA NextAnswer ==
  ASSUME FInv, InvAnswer, [Next]_vars
  PROVE  InvAnswer'
<1> USE DEF client
<1>0. join \in [Joins -> Requests] /\ channel \in Seq(Messages)
  BY TypeIsParts DEF FInv, Parts
<1>1. CASE UNCHANGED <<join, channel, session>>
  BY <1>1, AnswerFrame DEF Sent, Acked
<1>2. ASSUME NEW e \in Events, Broadcast(e) PROVE InvAnswer'
  <2> DEFINE m == [kind |-> "event", event |-> e]
  <2>1. CASE ~room
    BY <1>1, <1>2, <2>1 DEF Broadcast
  <2>2. CASE room
    <3>1. m \in Messages /\ channel' = Append(channel, m) /\ UNCHANGED <<join, session>>
      BY <1>2, <2>2 DEF Broadcast, Messages
    <3> HIDE DEF m
    <3>2. \A i \in DOMAIN channel : i \in DOMAIN channel' /\ channel'[i] = channel[i]
      BY <1>0, <3>1, ChannelWritten
    <3> QED
      BY <3>1, <3>2, AnswerFrame DEF Sent, Acked
  <2> QED
    BY <2>1, <2>2
<1>3. ASSUME NEW j \in Joins, EnterRoom(j) \/ ReadReplay(j) \/ Raise(j) PROVE InvAnswer'
  <2>1. UNCHANGED <<channel, session>>
    BY <1>3 DEF EnterRoom, ReadReplay, Raise
  <2>2. /\ join[j].pc \in AtServer /\ join'[j].pc \in AtServer \cup {"raised"}
        /\ \A k \in Joins : k # j => join'[k] = join[k]
    BY <1>0, <1>3 DEF EnterRoom, ReadReplay, Raise, AtServer, Requests
  <2>3. Sent' = Sent
    BY <2>2 DEF Sent, AtServer
  <2> QED
    BY <2>1, <2>2, <2>3, AnswerFrame DEF Acked
<1>4. ASSUME NEW j \in Joins, Acknowledge(j) \/ Refuse(j) PROVE InvAnswer'
  <2>1. /\ UNCHANGED session
        /\ \/ channel' = Append(channel, [kind |-> "ack", join |-> j])
           \/ channel' = Append(channel, [kind |-> "error", join |-> j])
    BY <1>4 DEF Acknowledge, Refuse
  <2>0. PICK m \in Messages : m.kind \in {"ack", "error"} /\ m.join = j /\ channel' = Append(channel, m)
    <3>1. /\ [kind |-> "ack", join |-> j] \in Messages
          /\ [kind |-> "error", join |-> j] \in Messages
      BY DEF Messages
    <3> QED
      BY <2>1, <3>1
  <2>2. /\ \A i \in DOMAIN channel : i \in DOMAIN channel' /\ channel'[i] = channel[i]
        /\ \E i \in DOMAIN channel' : channel'[i] = m
    BY <1>0, <2>0, ChannelWritten
  <2>3. /\ join[j].pc \in {"checks", "read"} /\ join'[j].pc \in {"answered", "refused"}
        /\ \A k \in Joins : k # j => join'[k] = join[k]
    BY <1>0, <1>4 DEF Acknowledge, Refuse, Requests
  <2>4. Sent' = Sent
    BY <2>3 DEF Sent
  <2>5. Acked(j)' /\ \A k \in Joins : Acked(k) => Acked(k)'
    BY <2>0, <2>2 DEF Acked
  <2> QED
    BY <2>1, <2>3, <2>4, <2>5, AnswerFrame
<1>5. ASSUME NEW j \in Joins, Mount(j) PROVE InvAnswer'
  <2>1. /\ join[j].pc = "unsent" /\ join'[j].pc = "checks"
        /\ \A k \in Joins : k # j => join'[k] = join[k]
    BY <1>0, <1>5 DEF Mount, Requests
  <2>2. Sent' = Sent \cup {j} /\ j \notin Sent /\ Joins \subseteq Nat
    BY <2>1, FeedAssumption DEF Sent, Joins
  <2>3. \A k \in Sent : k < j
    BY <2>2 DEF FInv, InvOrder, Sent
  <2>4. \A k \in Joins : IsCurrent(k)' => k = j
    BY <2>2, <2>3 DEF IsCurrent, Sent
  <2> QED
    BY <2>1, <2>4 DEF InvAnswer, AtServer
<1>6. CASE Unmount \/ DropSocket
  <2>1. session' # "joining"
    BY <1>6 DEF Unmount, DropSocket
  <2> QED
    BY <2>1 DEF InvAnswer
<1>7. CASE Receive
  <2> DEFINE m == Head(channel)
  <2>1. channel # <<>> /\ channel' = Tail(channel) /\ UNCHANGED join
    BY <1>7 DEF Receive
  <2>2. \A n \in DOMAIN channel : channel[n] = m \/ \E i \in DOMAIN channel' : channel'[i] = channel[n]
    BY <1>0, <2>1, ChannelRead
  <2>3. session' = "joining" => session = "joining" /\ ~(m.kind \in {"ack", "error"} /\ m.join = Current)
    BY <1>7 DEF Receive
  <2> HIDE DEF m
  <2>4. \A j \in Joins : Acked(j) => Acked(j)' \/ (m.kind \in {"ack", "error"} /\ m.join = j)
    BY <2>2 DEF Acked
  <2>5. \A j \in Joins : IsCurrent(j)' <=> IsCurrent(j)
    BY <2>1 DEF IsCurrent, Sent
  <2>6. ASSUME NEW j \in Joins, session' = "joining", IsCurrent(j) PROVE join[j].pc \in AtServer \cup {"raised"} \/ Acked(j)'
    <3>1. Current = j
      BY <2>6, CurrentIsMax
    <3> QED
      BY <2>3, <2>4, <2>6, <3>1 DEF InvAnswer
  <2> QED
    BY <2>1, <2>5, <2>6 DEF InvAnswer
<1> QED
  BY <1>1, <1>2, <1>3, <1>4, <1>5, <1>6, <1>7
     DEF Next, Publish, Serve, Build, AppendEvent, CutOff, LeaveRoom, vars

\* A session that waits for its join waits for something that is there, unless
\* the handler of the join raised; with fairness this is JoinEnds.
THEOREM AnswersCome == Spec => []AnswerComes
<1>1. Init => InvAnswer
  BY DEF Init, InvAnswer
<1>2. FInv /\ InvAnswer /\ [Next]_vars => InvAnswer'
  BY NextAnswer
<1>3. FInv /\ InvAnswer => AnswerComes
  <2> SUFFICES ASSUME FInv, InvAnswer, session = "joining"
               PROVE  join[Current].pc \in AtServer \cup {"raised"} \/ Acked(Current)
    BY DEF AnswerComes
  <2>1. PICK j \in Joins : IsCurrent(j)
    BY DEF FInv, InvOrder
  <2>2. Current = j
    BY <2>1, CurrentIsMax
  <2> QED
    BY <2>1, <2>2 DEF InvAnswer
<1> QED
  BY <1>1, <1>2, <1>3, FeedInvariance, PTL DEF Spec

\* One step of the system while the client listens.
LEMMA NextOnItsWay ==
  ASSUME FInv, [Next]_vars, Listening, Listening', NEW e \in Events, OnItsWay(e)
  PROVE  OnItsWay(e)' \/ CutOff(e)
<1> USE DEF client
<1>1. pub \in [Events -> {"unborn", "built", "appended", "stored", "sent"}] /\ channel \in Seq(Messages)
  BY DEF FInv, TypeOK
<1>2. CASE UNCHANGED <<pub, channel, cache>>
  BY <1>2 DEF OnItsWay, Coming
<1>3. ASSUME NEW f \in Events, Build(f) \/ AppendEvent(f) \/ CutOff(f), ~CutOff(e)
      PROVE  OnItsWay(e)'
  <2>1. UNCHANGED <<channel, cache>> /\ (pub[e] = "appended" => pub'[e] = "appended")
    BY <1>1, <1>3 DEF Build, AppendEvent, CutOff
  <2> QED
    BY <2>1 DEF OnItsWay, Coming
<1>4. ASSUME NEW f \in Events, Broadcast(f) PROVE OnItsWay(e)'
  <2> DEFINE m == [kind |-> "event", event |-> f]
  <2>1. PICK j \in Joins : IsCurrent(j)
    BY DEF Listening, FInv, InvOrder
  <2>2. room
    BY <2>1, CurrentIsMax DEF Listening, FInv, InvRoom, Live
  <2>3. m \in Messages /\ m.kind = "event" /\ m.event = f /\ channel' = Append(channel, m)
    BY <1>4, <2>2 DEF Broadcast, Messages
  <2> HIDE DEF m
  <2>4. Coming \subseteq Coming' /\ f \in Coming'
    BY <1>1, <2>3, ChannelWritten
  <2>5. cache' = cache /\ (e # f => pub'[e] = pub[e])
    BY <1>1, <1>4 DEF Broadcast
  <2> QED
    BY <2>4, <2>5 DEF OnItsWay
<1>5. ASSUME NEW j \in Joins, Acknowledge(j) \/ Refuse(j) PROVE OnItsWay(e)'
  <2>1. PICK m \in Messages : channel' = Append(channel, m) /\ UNCHANGED <<pub, cache>>
    <3>1. /\ [kind |-> "ack", join |-> j] \in Messages
          /\ [kind |-> "error", join |-> j] \in Messages
      BY DEF Messages
    <3> QED
      BY <1>5, <3>1 DEF Acknowledge, Refuse
  <2>2. Coming \subseteq Coming'
    BY <1>1, <2>1, ChannelWritten
  <2> QED
    BY <2>1, <2>2 DEF OnItsWay
<1>6. CASE Receive
  <2> DEFINE m == Head(channel)
  <2>1. channel # <<>> /\ channel' = Tail(channel) /\ UNCHANGED pub
    BY <1>6 DEF Receive
  <2>2. \A f \in Coming : f \in Coming' \/ (m.kind = "event" /\ m.event = f)
    BY <1>1, <2>1, ChannelRead
  <2>3. cache \subseteq cache' /\ (m.kind = "event" => m.event \in cache')
    BY <1>6 DEF Receive
  <2> QED
    BY <2>1, <2>2, <2>3 DEF OnItsWay
<1>7. CASE DropSocket
  <2>1. PICK c : c = Current'
    OBVIOUS
  <2>2. c \in Joins
    <3>1. PICK j \in Joins : IsCurrent(j)
      BY DEF Listening, FInv, InvOrder
    <3>2. Sent' = Sent
      BY <1>7, TypeIsParts DEF DropSocket, Sent, FInv, Parts, Requests
    <3>3. Current' = Current
      BY <3>2 DEF Current
    <3> QED
      BY <2>1, <3>1, <3>3, CurrentIsMax
  <2>3. join'[c].pc \in {"unsent", "lost"}
    BY <1>7, <2>2, TypeIsParts DEF DropSocket, FInv, Parts, Requests
  <2> QED
    BY <2>1, <2>3 DEF Listening
<1> QED
  BY <1>2, <1>3, <1>4, <1>5, <1>6, <1>7
     DEF Next, Publish, Serve, EnterRoom, ReadReplay, Raise, Mount, LeaveRoom, Unmount, vars

\* Nothing is broadcast past a client that listens, and only the end of its
\* publisher keeps an event from being broadcast; with fairness this is Delivered.
THEOREM NothingSlipsPast == Spec => KeptOnItsWay
<1>1. FInv /\ [Next]_vars =>
        [\A e \in Events : Listening /\ Listening' /\ OnItsWay(e) => OnItsWay(e)' \/ CutOff(e)]_vars
  BY NextOnItsWay
<1> QED
  BY <1>1, FeedInvariance, PTL DEF Spec, KeptOnItsWay
=============================================================================
