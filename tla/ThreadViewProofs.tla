-------------------------- MODULE ThreadViewProofs --------------------------
(* Theorems about ThreadView: what a client shows moves forward and settles.  *)
EXTENDS ThreadView, SequenceTheorems, FiniteSetTheorems, WellFoundedInduction, TLAPS

Asked == [pc : {"unborn", "gated", "conflict", "failed", "written", "sending", "done"},
          kind : {"none", "add", "remove", "patch"}, who : People, n : Nat, began : Nat]
Messages == [kind : {"ack"} \cup Registers, n : Nat]
Fetches == [pc : {"none", "asked", "read"}, n : Nat]
ChangingPcs == {"written", "sending"}

\* The register a request is about.
Subject(q) == IF q.kind = "patch" THEN "thread" ELSE "members"

\* The part of TypeOK about numbers, and the sets the variables are in.
Bounded ==
  /\ \A r \in Requests : /\ req[r].n <= Version(Kind(r)) /\ req[r].began <= Now
                         /\ req[r].pc = "sending" => req[r].n >= 1
  /\ \A i \in DOMAIN channel : /\ channel[i].kind = "ack" => channel[i].n \in 1 .. mount
                               /\ \A k \in Registers : channel[i].kind = k => channel[i].n \in 1 .. Version(k)
  /\ \A k \in Registers : fetch[k].n <= Version(k) /\ view[k] <= Version(k)

Typed ==
  /\ past \in Seq(SUBSET People) /\ past # <<>> /\ patches \in Nat \ {0}
  /\ req \in [Requests -> Asked] /\ channel \in Seq(Messages)
  /\ room \in BOOLEAN /\ mount \in 0 .. MaxMounts /\ session \in {"idle", "joining", "joined"}
  /\ fetch \in [Registers -> Fetches] /\ view \in [Registers -> Nat]
  /\ missed \subseteq Registers /\ excused \subseteq Registers

\* What a request may answer, at every point on its way.
Justified(q) ==
  /\ q.pc = "conflict" => q.kind = "add"
  /\ q.pc = "written" => q.kind # "patch"
  /\ q.kind = "add" /\ q.pc \in {"conflict", "written", "sending", "done"} =>
       \E i \in 1 .. Now : q.began <= i /\ q.who \in past[i]
  /\ q.kind = "remove" /\ q.pc \in {"written", "sending", "done"} =>
       \E i \in 1 .. Now : q.began <= i /\ q.who \notin past[i]
  /\ q.pc = "failed" => \E i \in 1 .. Now : q.began <= i /\ i < Now /\ q.who \in past[i] /\ q.who \notin past[i + 1]

InvAnswers == \A r \in Requests : Justified(req[r])

\* A register is left to one change at a time, and not fetched meanwhile.
Apart(k) == /\ \A r, o \in Changing(k) : r = o
            /\ fetch[k].pc # "none" => Changing(k) = {} /\ Coming(k) = {}

\* A change about to be broadcast, and a snapshot that was read, are the newest.
Newest(k) == /\ \A r \in Changing(k) : req[r].pc = "sending" => req[r].n = Version(k)
             /\ fetch[k].pc = "read" => fetch[k].n = Version(k)

\* What is on its way is in order, and no older than what is shown.
Ordered(k) == /\ \A i, j \in Coming(k) : i < j => channel[i].n <= channel[j].n
              /\ \A i \in Coming(k) : view[k] <= channel[i].n

\* A joined client that waits for nothing else has the newest, or it is the last
\* on its way; if its snapshot failed, it has the newest when a change came.
Settled(k) == session = "joined" /\ fetch[k].pc = "none" /\ Changing(k) = {} =>
  /\ k \notin missed /\ Coming(k) = {} => view[k] = Version(k)
  /\ \A i \in Coming(k) : (\A j \in Coming(k) : j <= i) => channel[i].n = Version(k)

\* A socket whose join was answered is in the room.
InvRoom == /\ session = "joined" => room
           /\ session # "idle" => mount # 0
           /\ \A i \in DOMAIN channel :
                session # "idle" /\ channel[i].kind = "ack" /\ channel[i].n = mount => room

InvView == \A k \in Registers \ excused : Apart(k) /\ Newest(k) /\ Ordered(k) /\ Settled(k)

VInv == Typed /\ Bounded /\ InvAnswers /\ InvRoom /\ InvView

-----------------------------------------------------------------------------
(* Versions, overlaps, members that come and go.                              *)

LEMMA VersionTyped ==
  ASSUME Typed
  PROVE  Now \in Nat \ {0} /\ \A k \in Registers : Version(k) \in Nat \ {0}
<1>1. Now \in Nat \ {0}
  BY EmptySeq, LenProperties DEF Typed, Now
<1> QED BY <1>1 DEF Version, Typed

LEMMA OneAtMost ==
  ASSUME NEW S \in SUBSET Requests, ~(Cardinality(S) > 1)
  PROVE  \A r, o \in S : r = o
<1> SUFFICES ASSUME NEW r \in S, NEW o \in S, r # o PROVE FALSE
  OBVIOUS
<1>1. IsFiniteSet(S)
  <2>1. IsFiniteSet(Requests)
    BY ViewAssumption, FS_Interval DEF Requests
  <2> QED BY <2>1, FS_Subset
<1>2. Cardinality({r, o}) = 2
  <2>1. IsFiniteSet({r}) /\ Cardinality({r}) = 1 /\ o \notin {r} /\ {r} \cup {o} = {r, o}
    BY FS_Singleton
  <2>2. Cardinality({r} \cup {o}) = Cardinality({r}) + 1
    BY <2>1, FS_AddElement
  <2> QED BY <2>1, <2>2
<1>3. Cardinality({r, o}) <= Cardinality(S)
  BY <1>1, FS_Subset
<1>4. Cardinality(S) \in Nat
  BY <1>1, FS_CardinalityType
<1> QED BY <1>2, <1>3, <1>4

\* What is not excused after a step was not before, and is kept apart.
LEMMA ApartNext ==
  ASSUME Typed, excused' = excused \cup {k \in Registers : Overlap(k)'}
  PROVE  excused' \subseteq Registers /\ \A k \in Registers \ excused' : k \notin excused /\ Apart(k)'
<1>1. ASSUME NEW k \in Registers \ excused' PROVE Apart(k)'
  <2>1. ~Overlap(k)'
    OBVIOUS
  <2>2. Changing(k)' \in SUBSET Requests
    BY DEF Changing
  <2>3. \A r, o \in Changing(k)' : r = o
    <3>1. ~(Cardinality(Changing(k)') > 1)
      BY <2>1 DEF Overlap
    <3> QED BY <2>2, <3>1, OneAtMost
  <2> QED BY <2>1, <2>3 DEF Overlap, Apart
<1> QED BY <1>1 DEF Typed

\* Somebody who was a member and is none now was removed in between.
LEMMA RemovedMeanwhile ==
  ASSUME Typed, NEW x, NEW b \in Nat, \E i \in 1 .. Now : b <= i /\ x \in past[i], x \notin Members
  PROVE  \E i \in 1 .. Now : b <= i /\ i < Now /\ x \in past[i] /\ x \notin past[i + 1]
<1> DEFINE D == {Now - i : i \in {j \in 1 .. Now : b <= j /\ x \in past[j]}}
<1>1. Now \in Nat
  BY VersionTyped
<1>2. D \subseteq Nat /\ D # {}
  <2>1. \A i \in 1 .. Now : Now - i \in Nat
    BY <1>1
  <2> QED BY <2>1
<1>3. PICK d \in D : \A e \in D : ~(<<e, d>> \in OpToRel(<, Nat))
  BY <1>2, NatLessThanWellFounded, WFMin, Zenon
<1>4. \A e \in D : ~(e < d)
  BY <1>2, <1>3 DEF OpToRel
<1>5. PICK m \in 1 .. Now : b <= m /\ x \in past[m] /\ d = Now - m
  OBVIOUS
<1>6. m # Now
  BY <1>5 DEF Members
<1>7. x \notin past[m + 1]
  <2>1. m + 1 \in 1 .. Now /\ b <= m + 1 /\ Now - (m + 1) < d
    BY <1>1, <1>5, <1>6
  <2> QED BY <1>4, <2>1
<1> QED BY <1>1, <1>5, <1>6, <1>7

-----------------------------------------------------------------------------
(* A request goes a step on.                                                  *)

\* Rows are only added to the history.
Grown == /\ past' \in Seq(SUBSET People) /\ past' # <<>> /\ patches' \in Nat
         /\ Now' >= Now /\ patches' >= patches /\ \A i \in 1 .. Now : past'[i] = past[i]

\* r becomes q: what it has written is new, what it will broadcast is the newest.
Moves(r, q) ==
  /\ q \in Asked /\ req' = [req EXCEPT ![r] = q] /\ Grown /\ UNCHANGED <<channel, room, client>>
  /\ Now' # Now => Subject(q) = "members" /\ q.pc \in ChangingPcs
  /\ patches' # patches => Subject(q) = "thread" /\ q.pc \in ChangingPcs
  /\ q.pc = "sending" => q.n = IF Subject(q) = "thread" THEN patches' ELSE Now'
  /\ q.n <= (IF Subject(q) = "thread" THEN patches' ELSE Now') /\ q.began <= Now'
  /\ req[r].pc \in ChangingPcs => q.pc \in ChangingPcs /\ Subject(q) = Subject(req[r])
  /\ Justified(q)'

LEMMA GrownVersions ==
  ASSUME Typed, Grown
  PROVE  /\ Now' \in Nat \ {0} /\ \A k \in Registers : Version(k)' \in Nat \ {0} /\ Version(k)' >= Version(k)
         /\ \A q : Justified(q) /\ q \in Asked => Justified(q)'
<1>1. Now \in Nat \ {0} /\ \A k \in Registers : Version(k) \in Nat \ {0}
  BY VersionTyped
<1>2. Now' \in Nat \ {0}
  BY EmptySeq, LenProperties DEF Grown, Now
<1>3. \A k \in Registers : Version(k)' \in Nat \ {0} /\ Version(k)' >= Version(k)
  BY <1>1, <1>2 DEF Grown, Version, Typed
<1>4. ASSUME NEW q \in Asked, Justified(q) PROVE Justified(q)'
  <2>1. \A i \in 1 .. Now : /\ i \in 1 .. Now' /\ past'[i] = past[i]
                            /\ i < Now => i < Now' /\ i + 1 \in 1 .. Now /\ past'[i + 1] = past[i + 1]
    BY <1>1, <1>2 DEF Grown
  <2> QED BY <1>4, <2>1 DEF Justified
<1> QED BY <1>2, <1>3, <1>4

\* Types and bounds do not mind a request that goes on.
LEMMA MovesTyped ==
  ASSUME Typed, Bounded, excused' \subseteq Registers, NEW r \in Requests, NEW q, Moves(r, q)
  PROVE  Typed' /\ Bounded'
<1>1. /\ Now' \in Nat \ {0} /\ \A k \in Registers : Version(k)' \in Nat \ {0} /\ Version(k)' >= Version(k)
      /\ \A k \in Registers : Version(k) \in Nat \ {0}
  BY GrownVersions, VersionTyped DEF Moves
<1>2. Typed'
  BY DEF Typed, Moves, Grown, client
<1>3. /\ req' \in [Requests -> Asked] /\ req'[r] = q /\ \A o \in Requests : o # r => req'[o] = req[o]
  BY DEF Typed, Moves
<1>4. ASSUME NEW o \in Requests
      PROVE  /\ req'[o].n <= Version(Kind(o))' /\ req'[o].began <= Now'
             /\ req'[o].pc = "sending" => req'[o].n >= 1
  <2>1. CASE o = r
    <3>1. Kind(o)' = Subject(q)
      BY <1>3, <2>1 DEF Kind, Subject
    <3>2. q.n <= Version(Kind(o))' /\ (q.pc = "sending" => q.n = Version(Kind(o))')
      BY <3>1 DEF Moves, Version, Subject
    <3>3. Version(Kind(o))' \in Nat \ {0}
      BY <1>1, <3>1 DEF Subject, Registers
    <3> QED BY <1>3, <2>1, <3>2, <3>3 DEF Moves
  <2>2. CASE o # r
    <3>1. Kind(o)' = Kind(o) /\ Kind(o) \in Registers
      BY <1>3, <2>2 DEF Kind, Registers
    <3>2. /\ req[o].n \in Nat /\ req[o].began \in Nat /\ req[o].n <= Version(Kind(o)) /\ req[o].began <= Now
          /\ req[o].pc = "sending" => req[o].n >= 1
      BY DEF Typed, Bounded, Asked
    <3>3. Version(Kind(o))' >= Version(Kind(o)) /\ Version(Kind(o))' \in Nat /\ Version(Kind(o)) \in Nat
      BY <1>1, <3>1 DEF Version
    <3>4. Now' >= Now /\ Now \in Nat
      BY VersionTyped DEF Moves, Grown
    <3> QED BY <1>1, <1>3, <2>2, <3>2, <3>3, <3>4
  <2> QED BY <2>1, <2>2
<1>5. \A i \in DOMAIN channel' : /\ channel'[i].kind = "ack" => channel'[i].n \in 1 .. mount'
                                 /\ \A k \in Registers : channel'[i].kind = k => channel'[i].n \in 1 .. Version(k)'
  <2>1. ASSUME NEW i \in DOMAIN channel, NEW k \in Registers, channel[i].kind = k
        PROVE  channel[i].n \in 1 .. Version(k)'
    <3>1. channel[i].n \in 1 .. Version(k)
      BY <2>1 DEF Bounded
    <3> QED BY <1>1, <3>1
  <2> QED BY <2>1 DEF Bounded, Moves, client
<1>6. \A k \in Registers : fetch'[k].n <= Version(k)' /\ view'[k] <= Version(k)'
  <2>1. \A k \in Registers : fetch[k].n \in Nat /\ view[k] \in Nat /\ fetch[k].n <= Version(k) /\ view[k] <= Version(k)
    BY DEF Typed, Bounded, Fetches
  <2> QED BY <1>1, <2>1 DEF Moves, client
<1> QED BY <1>2, <1>4, <1>5, <1>6 DEF Bounded

\* What the client shows, or will, does not mind either, unless it is excused.
LEMMA MovesView ==
  ASSUME Typed, Bounded, NEW r \in Requests, NEW q, Moves(r, q), NEW k \in Registers,
         Newest(k), Ordered(k), Settled(k), Apart(k)'
  PROVE  Newest(k)' /\ Ordered(k)' /\ Settled(k)'
<1>1. /\ req' \in [Requests -> Asked] /\ req'[r] = q /\ \A o \in Requests : o # r => req'[o] = req[o]
  BY DEF Typed, Moves
<1>2. /\ \A o \in Requests : o # r => (o \in Changing(k)' <=> o \in Changing(k))
      /\ r \in Changing(k)' <=> q.pc \in ChangingPcs /\ Subject(q) = k
      /\ r \in Changing(k) <=> req[r].pc \in ChangingPcs /\ Subject(req[r]) = k
      /\ Changing(k) \subseteq Requests /\ Changing(k)' \subseteq Requests
  BY <1>1 DEF Changing, Kind, Subject, ChangingPcs
<1>3. Version(k)' # Version(k) => r \in Changing(k)'
  BY <1>2 DEF Moves, Version, Registers
<1>4. r \in Changing(k) => r \in Changing(k)'
  BY <1>2 DEF Moves
<1>5. /\ Coming(k)' = Coming(k) /\ UNCHANGED <<channel, room, mount, session, fetch, view, missed>>
  BY DEF Moves, client, Coming
<1>6. Newest(k)'
  <2>1. ASSUME NEW o \in Changing(k)', req'[o].pc = "sending" PROVE req'[o].n = Version(k)'
    <3>1. CASE o = r
      BY <1>1, <1>2, <2>1, <3>1 DEF Moves, Version, Registers, ChangingPcs, Subject
    <3>2. CASE o # r
      <4>1. o \in Changing(k) /\ req'[o] = req[o]
        BY <1>1, <1>2, <3>2
      <4>2. Version(k)' = Version(k)
        BY <1>3, <3>2 DEF Apart
      <4> QED BY <2>1, <4>1, <4>2 DEF Newest
    <3> QED BY <3>1, <3>2
  <2>2. fetch'[k].pc = "read" => fetch'[k].n = Version(k)'
    BY <1>3, <1>5 DEF Newest, Apart
  <2> QED BY <2>1, <2>2 DEF Newest
<1>7. Ordered(k)'
  BY <1>5 DEF Ordered
<1>8. Settled(k)'
  <2>1. Changing(k)' = {} => Changing(k) = {} /\ Version(k)' = Version(k)
    BY <1>2, <1>3, <1>4
  <2> QED BY <1>5, <2>1 DEF Settled
<1> QED BY <1>6, <1>7, <1>8

LEMMA MovesVInv ==
  ASSUME VInv, NEW r \in Requests, NEW q, Moves(r, q), excused' = excused \cup {k \in Registers : Overlap(k)'}
  PROVE  VInv'
<1>1. Typed /\ Bounded
  BY DEF VInv
<1>2. excused' \subseteq Registers /\ \A k \in Registers \ excused' : k \notin excused /\ Apart(k)'
  BY <1>1, ApartNext
<1>3. Typed' /\ Bounded'
  BY <1>1, <1>2, MovesTyped
<1>4. InvAnswers'
  <2>1. /\ req \in [Requests -> Asked] /\ req'[r] = q /\ \A o \in Requests : o # r => req'[o] = req[o]
    BY <1>1 DEF Typed, Moves
  <2>2. ASSUME NEW o \in Requests PROVE Justified(req[o])'
    <3>1. PICK p \in Asked : p = req'[o]
      BY <1>3 DEF Typed
    <3>2. CASE o = r
      BY <2>1, <3>1, <3>2 DEF Moves
    <3>3. CASE o # r
      <4>1. Justified(p)
        BY <2>1, <3>1, <3>3 DEF VInv, InvAnswers
      <4> QED BY <1>1, <3>1, <4>1, GrownVersions DEF Moves
    <3> QED BY <3>2, <3>3
  <2> QED BY <2>2 DEF InvAnswers
<1>5. InvRoom'
  BY DEF VInv, InvRoom, Moves, client
<1>6. InvView'
  <2>1. ASSUME NEW k \in Registers \ excused' PROVE Apart(k)' /\ Newest(k)' /\ Ordered(k)' /\ Settled(k)'
    <3>1. Newest(k) /\ Ordered(k) /\ Settled(k) /\ Apart(k)'
      BY <1>2 DEF VInv, InvView
    <3> QED BY <1>1, <3>1, MovesView
  <2> QED BY <2>1 DEF InvView
<1> QED BY <1>3, <1>4, <1>5, <1>6 DEF VInv

\* The history when nobody writes.
LEMMA Ungrown ==
  ASSUME Typed, UNCHANGED <<past, patches>>
  PROVE  Grown /\ Now' = Now /\ Members' = Members
<1>1. Now \in Nat \ {0} /\ Now' = Now
  BY VersionTyped DEF Now
<1> QED BY <1>1 DEF Grown, Typed, Members

\* One row more in the history.
LEMMA Written ==
  ASSUME Typed, NEW S \in SUBSET People, past' = Append(past, S), UNCHANGED patches
  PROVE  Grown /\ Now' = Now + 1 /\ Members' = S /\ past'[Now] = Members /\ past'[Now'] = S
<1>1. Now \in Nat \ {0} /\ past \in Seq(SUBSET People) /\ patches \in Nat
  BY VersionTyped DEF Typed
<1>2. /\ past' \in Seq(SUBSET People) /\ Len(past') = Len(past) + 1
      /\ \A i \in 1 .. Len(past) : past'[i] = past[i]
      /\ past'[Len(past) + 1] = S
  BY <1>1, AppendProperties
<1>3. past' # <<>>
  BY <1>1, <1>2, EmptySeq DEF Now
<1> QED BY <1>1, <1>2, <1>3 DEF Grown, Now, Members

LEMMA GateMoves ==
  ASSUME Typed, NEW r \in Requests, NEW kind \in {"add", "remove", "patch"}, NEW x \in People, Gate(r, kind, x)
  PROVE  \E q : Moves(r, q)
<1>1. Now \in Nat \ {0} /\ Grown /\ Now' = Now /\ patches \in Nat /\ UNCHANGED patches
  BY VersionTyped, Ungrown DEF Gate, Typed
<1>2. PICK q : q = [pc |-> "gated", kind |-> kind, who |-> x, n |-> 0, began |-> Now]
  OBVIOUS
<1>3. /\ q.pc = "gated" /\ q.kind = kind /\ q.n = 0 /\ q.began = Now /\ q \in Asked
      /\ req' = [req EXCEPT ![r] = q] /\ req[r].pc = "unborn" /\ UNCHANGED <<channel, room, client>>
  BY <1>1, <1>2 DEF Gate, Asked
<1>4. Justified(q)'
  BY <1>3 DEF Justified
<1>5. q.n <= (IF Subject(q) = "thread" THEN patches' ELSE Now') /\ q.began <= Now'
  BY <1>1, <1>3
<1>6. /\ Now' # Now => Subject(q) = "members" /\ q.pc \in ChangingPcs
      /\ patches' # patches => Subject(q) = "thread" /\ q.pc \in ChangingPcs
      /\ req[r].pc \in ChangingPcs => q.pc \in ChangingPcs /\ Subject(q) = Subject(req[r])
  BY <1>1, <1>3 DEF ChangingPcs
<1> QED BY <1>1, <1>3, <1>4, <1>5, <1>6 DEF Moves

\* The record of a request at another point, with another version to broadcast.
Become(q, pc, n) == [q EXCEPT !.pc = pc, !.n = n]

\* What a step of a request that is not unborn has in common.
LEMMA GoesOn ==
  ASSUME VInv, NEW r \in Requests, NEW pc \in {"conflict", "failed", "written", "sending", "done"},
         NEW n \in Nat, Grown,
         n <= (IF Subject(req[r]) = "thread" THEN patches' ELSE Now'),
         pc = "sending" => n = IF Subject(req[r]) = "thread" THEN patches' ELSE Now'
  PROVE  \E q \in Asked :
           /\ q = Become(req[r], pc, n)
           /\ q.pc = pc /\ q.n = n /\ q.kind = req[r].kind /\ q.who = req[r].who /\ q.began = req[r].began
           /\ Subject(q) = Subject(req[r])
           /\ q.pc = "sending" => q.n = IF Subject(q) = "thread" THEN patches' ELSE Now'
           /\ q.n <= (IF Subject(q) = "thread" THEN patches' ELSE Now') /\ q.began <= Now'
<1>1. PICK q : q = Become(req[r], pc, n)
  OBVIOUS
<1>2. req[r] \in Asked /\ req[r].began <= Now /\ Now \in Nat
  BY VersionTyped DEF VInv, Typed, Bounded
<1>3. /\ q \in Asked /\ q.pc = pc /\ q.n = n /\ q.kind = req[r].kind /\ q.who = req[r].who
      /\ q.began = req[r].began /\ Subject(q) = Subject(req[r])
  BY <1>1, <1>2 DEF Asked, Subject, Become
<1>4. q.began <= Now'
  <2>1. q.began \in Nat /\ Now' \in Nat /\ Now' >= Now
    BY <1>3, GrownVersions DEF VInv, Grown, Asked
  <2> QED BY <1>2, <1>3, <2>1
<1> QED BY <1>1, <1>3, <1>4

\* Given that, only what it wrote and what it may answer is left to show.
LEMMA GoesOnMoves ==
  ASSUME VInv, NEW r \in Requests, NEW pc \in {"conflict", "failed", "written", "sending", "done"},
         NEW n \in Nat, Grown,
         n <= (IF Subject(req[r]) = "thread" THEN patches' ELSE Now'),
         pc = "sending" => n = IF Subject(req[r]) = "thread" THEN patches' ELSE Now',
         req' = [req EXCEPT ![r] = Become(req[r], pc, n)],
         UNCHANGED <<channel, room, client>>,
         Now' # Now => Subject(req[r]) = "members" /\ pc \in ChangingPcs,
         patches' # patches => Subject(req[r]) = "thread" /\ pc \in ChangingPcs,
         req[r].pc \in ChangingPcs => pc \in ChangingPcs,
         pc = "conflict" => req[r].kind = "add",
         pc = "written" => req[r].kind # "patch",
         req[r].kind = "add" /\ pc \in {"conflict", "written", "sending", "done"} =>
           \E i \in 1 .. Now' : req[r].began <= i /\ req[r].who \in past'[i],
         req[r].kind = "remove" /\ pc \in {"written", "sending", "done"} =>
           \E i \in 1 .. Now' : req[r].began <= i /\ req[r].who \notin past'[i],
         pc = "failed" => \E i \in 1 .. Now' : req[r].began <= i /\ i < Now' /\ req[r].who \in past'[i]
                                              /\ req[r].who \notin past'[i + 1]
  PROVE  \E q : Moves(r, q)
<1>1. PICK q \in Asked :
           /\ q = Become(req[r], pc, n)
           /\ q.pc = pc /\ q.n = n /\ q.kind = req[r].kind /\ q.who = req[r].who /\ q.began = req[r].began
           /\ Subject(q) = Subject(req[r])
           /\ q.pc = "sending" => q.n = IF Subject(q) = "thread" THEN patches' ELSE Now'
           /\ q.n <= (IF Subject(q) = "thread" THEN patches' ELSE Now') /\ q.began <= Now'
  BY GoesOn
<1>2. Justified(q)'
  BY <1>1 DEF Justified
<1>3. req' = [req EXCEPT ![r] = q]
  BY <1>1
<1> QED BY <1>1, <1>2, <1>3 DEF Moves

\* A step that only goes on keeps what was to be broadcast.
LEMMA GoesIs ==
  ASSUME Typed, NEW r \in Requests, NEW pc, Goes(r, pc)
  PROVE  req' = [req EXCEPT ![r] = Become(req[r], pc, req[r].n)]
<1>1. req[r] \in Asked /\ req' = [req EXCEPT ![r] = [req[r] EXCEPT !.pc = pc]]
  BY DEF Typed, Goes
<1>2. Become(req[r], pc, req[r].n) = [req[r] EXCEPT !.pc = pc]
  BY <1>1 DEF Asked, Become
<1> QED BY <1>1, <1>2

LEMMA AskedNow ==
  ASSUME VInv, NEW r \in Requests
  PROVE  /\ req[r] \in Asked /\ req[r].n \in Nat /\ req[r].began \in Nat /\ req[r].began <= Now
         /\ Now \in Nat \ {0} /\ patches \in Nat \ {0} /\ Members = past[Now] /\ Members \in SUBSET People
         /\ req[r].n <= (IF Subject(req[r]) = "thread" THEN patches ELSE Now)
         /\ Justified(req[r]) /\ Typed
<1>1. Now \in Nat \ {0} /\ patches \in Nat \ {0} /\ Typed /\ req[r] \in Asked
  BY VersionTyped DEF VInv, Typed
<1>2. Members \in SUBSET People
  BY <1>1, ElementOfSeq DEF Members, Now, Typed
<1>3. req[r].n <= (IF Subject(req[r]) = "thread" THEN patches ELSE Now)
  BY DEF VInv, Bounded, Version, Kind, Subject
<1> QED BY <1>1, <1>2, <1>3 DEF VInv, InvAnswers, Bounded, Asked, Members

LEMMA InsertMoves ==
  ASSUME VInv, NEW r \in Requests, InsertMember(r)
  PROVE  \E q : Moves(r, q)
<1>1. /\ req[r].n \in Nat /\ req[r].began \in Nat /\ req[r].began <= Now /\ Now \in Nat \ {0}
      /\ req[r].n <= Now /\ req[r].kind = "add" /\ req[r].pc = "gated" /\ Subject(req[r]) = "members"
      /\ Members = past[Now] /\ Typed /\ req[r].who \in People /\ Members \in SUBSET People
  BY AskedNow DEF InsertMember, Subject, Asked
<1>2. CASE req[r].who \in Members /\ Goes(r, "conflict") /\ UNCHANGED past
  <2>1. Grown /\ Now' = Now /\ UNCHANGED <<past, patches, channel, room, client>>
    BY <1>1, <1>2, Ungrown DEF InsertMember
  <2>2. req' = [req EXCEPT ![r] = Become(req[r], "conflict", req[r].n)]
    BY <1>1, <1>2, GoesIs
  <2>3. req[r].who \in past'[Now] /\ Now \in 1 .. Now'
    BY <1>1, <1>2, <2>1
  <2> QED BY <1>1, <2>1, <2>2, <2>3, GoesOnMoves DEF ChangingPcs
<1>3. CASE /\ req[r].who \notin Members /\ Goes(r, "written")
           /\ past' = Append(past, Members \cup {req[r].who})
  <2>1. /\ Grown /\ Now' = Now + 1 /\ UNCHANGED <<patches, channel, room, client>>
        /\ past'[Now'] = Members \cup {req[r].who}
    <3>1. Members \cup {req[r].who} \in SUBSET People
      BY <1>1
    <3> QED BY <1>1, <1>3, <3>1, Written DEF InsertMember
  <2>2. req' = [req EXCEPT ![r] = Become(req[r], "written", req[r].n)]
    BY <1>1, <1>3, GoesIs
  <2>3. req[r].who \in past'[Now'] /\ Now' \in 1 .. Now' /\ req[r].began <= Now' /\ req[r].n <= Now'
    BY <1>1, <2>1
  <2> QED BY <1>1, <2>1, <2>2, <2>3, GoesOnMoves DEF ChangingPcs
<1> QED BY <1>2, <1>3 DEF InsertMember

LEMMA SelectMoves ==
  ASSUME VInv, NEW r \in Requests, SelectMember(r)
  PROVE  \E q : Moves(r, q)
<1>1. /\ req[r].n \in Nat /\ req[r].began \in Nat /\ req[r].began <= Now /\ Now \in Nat \ {0}
      /\ req[r].n <= Now /\ req[r].kind = "add" /\ req[r].pc = "conflict" /\ Subject(req[r]) = "members"
      /\ Members = past[Now] /\ Typed /\ Justified(req[r])
  BY AskedNow DEF SelectMember, Subject, Asked, Justified
<1>2. /\ Grown /\ Now' = Now /\ UNCHANGED <<past, patches, channel, room, client>>
      /\ \E i \in 1 .. Now : req[r].began <= i /\ req[r].who \in past[i]
  BY <1>1, Ungrown DEF SelectMember, Justified
<1>3. CASE req[r].who \in Members
  <2>1. req' = [req EXCEPT ![r] = Become(req[r], "written", req[r].n)]
    BY <1>1, <1>3, GoesIs DEF SelectMember
  <2> QED BY <1>1, <1>2, <2>1, GoesOnMoves DEF ChangingPcs
<1>4. CASE req[r].who \notin Members
  <2>1. req' = [req EXCEPT ![r] = Become(req[r], "failed", req[r].n)]
    BY <1>1, <1>4, GoesIs DEF SelectMember
  <2>2. PICK x : x = req[r].who
    OBVIOUS
  <2>3. \E i \in 1 .. Now : req[r].began <= i /\ i < Now /\ x \in past[i] /\ x \notin past[i + 1]
    BY <1>1, <1>2, <1>4, <2>2, RemovedMeanwhile
  <2> QED BY <1>1, <1>2, <2>1, <2>2, <2>3, GoesOnMoves DEF ChangingPcs
<1> QED BY <1>3, <1>4

LEMMA DeleteMoves ==
  ASSUME VInv, NEW r \in Requests, DeleteMember(r)
  PROVE  \E q : Moves(r, q)
<1>1. /\ req[r].n \in Nat /\ req[r].began \in Nat /\ req[r].began <= Now /\ Now \in Nat \ {0}
      /\ req[r].n <= Now /\ req[r].kind = "remove" /\ req[r].pc = "gated" /\ Subject(req[r]) = "members"
      /\ Members = past[Now] /\ Typed /\ Members \in SUBSET People /\ patches \in Nat
  BY AskedNow DEF DeleteMember, Subject, Asked
<1>2. req' = [req EXCEPT ![r] = Become(req[r], "written", req[r].n)]
  BY <1>1, GoesIs DEF DeleteMember
<1>3. /\ Grown /\ Now' >= Now /\ Now' \in Nat /\ UNCHANGED <<patches, channel, room, client>>
      /\ req[r].who \notin past'[Now'] /\ 1 <= Now'
  <2>1. CASE req[r].who \in Members
    <3>1. past' = Append(past, Members \ {req[r].who}) /\ UNCHANGED <<patches, channel, room, client>>
      BY <2>1 DEF DeleteMember
    <3>2. Grown /\ Now' = Now + 1 /\ past'[Now'] = Members \ {req[r].who}
      <4>1. Members \ {req[r].who} \in SUBSET People
        BY <1>1
      <4> QED BY <1>1, <3>1, <4>1, Written
    <3>3. Now' >= Now /\ Now' \in Nat /\ 1 <= Now' /\ req[r].who \notin past'[Now']
      BY <1>1, <3>2
    <3> QED BY <3>1, <3>2, <3>3
  <2>2. CASE req[r].who \notin Members
    <3>1. UNCHANGED <<past, patches, channel, room, client>>
      BY <2>2 DEF DeleteMember
    <3> QED BY <1>1, <2>2, <3>1, Ungrown
  <2> QED BY <2>1, <2>2
<1>4. Now' \in 1 .. Now' /\ req[r].began <= Now' /\ req[r].n <= Now'
  BY <1>1, <1>3
<1> QED BY <1>1, <1>2, <1>3, <1>4, GoesOnMoves DEF ChangingPcs

LEMMA ListMoves ==
  ASSUME VInv, NEW r \in Requests, ListMembers(r)
  PROVE  \E q : Moves(r, q)
<1>1. /\ req[r].pc = "written" /\ Subject(req[r]) = "members" /\ Now \in Nat \ {0} /\ Typed
      /\ Justified(req[r]) /\ req[r].kind # "patch" /\ req[r].began \in Nat
  BY AskedNow DEF ListMembers, Subject, Justified
<1>2. Grown /\ Now' = Now /\ UNCHANGED <<past, patches, channel, room, client>>
  BY <1>1, Ungrown DEF ListMembers
<1>3. req' = [req EXCEPT ![r] = Become(req[r], "sending", Now)]
  BY <1>1 DEF ListMembers, Typed, Asked, Become
<1>4. /\ req[r].kind = "add" => \E i \in 1 .. Now' : req[r].began <= i /\ req[r].who \in past'[i]
      /\ req[r].kind = "remove" => \E i \in 1 .. Now' : req[r].began <= i /\ req[r].who \notin past'[i]
  BY <1>1, <1>2 DEF Justified
<1>5. PICK n \in Nat : n = Now
  BY <1>1
<1>6. /\ n <= (IF Subject(req[r]) = "thread" THEN patches' ELSE Now')
      /\ n = IF Subject(req[r]) = "thread" THEN patches' ELSE Now'
      /\ req' = [req EXCEPT ![r] = Become(req[r], "sending", n)]
      /\ Now' = Now /\ patches' = patches /\ UNCHANGED <<channel, room, client>>
  BY <1>1, <1>2, <1>3, <1>5
<1> QED BY <1>1, <1>2, <1>4, <1>6, GoesOnMoves DEF ChangingPcs

LEMMA PatchMoves ==
  ASSUME VInv, NEW r \in Requests, PatchThread(r)
  PROVE  \E q : Moves(r, q)
<1>1. /\ req[r].pc = "gated" /\ req[r].kind = "patch" /\ Subject(req[r]) = "thread"
      /\ patches \in Nat \ {0} /\ Typed /\ past \in Seq(SUBSET People) /\ past # <<>> /\ Now \in Nat \ {0}
  BY AskedNow DEF PatchThread, Subject, Typed
<1>2. patches' = patches + 1 /\ UNCHANGED <<past, channel, room, client>> /\ Now' = Now
  BY DEF PatchThread, Now
<1>3. Grown
  BY <1>1, <1>2 DEF Grown
<1>4. req' = [req EXCEPT ![r] = Become(req[r], "sending", patches')]
  BY <1>1 DEF PatchThread, Typed, Asked, Become
<1>5. PICK n \in Nat : n = patches'
  BY <1>1, <1>2
<1>6. /\ n <= (IF Subject(req[r]) = "thread" THEN patches' ELSE Now')
      /\ n = IF Subject(req[r]) = "thread" THEN patches' ELSE Now'
      /\ req' = [req EXCEPT ![r] = Become(req[r], "sending", n)] /\ UNCHANGED <<channel, room, client>>
  BY <1>1, <1>2, <1>4, <1>5
<1> QED BY <1>1, <1>2, <1>3, <1>6, GoesOnMoves DEF ChangingPcs

-----------------------------------------------------------------------------
(* The channel grows at one end and shrinks at the other.                     *)

LEMMA Appended ==
  ASSUME Typed, NEW m \in Messages, channel' = Append(channel, m)
  PROVE  /\ channel' \in Seq(Messages) /\ Len(channel) \in Nat
         /\ DOMAIN channel = 1 .. Len(channel) /\ DOMAIN channel' = 1 .. Len(channel) + 1
         /\ channel'[Len(channel) + 1] = m /\ \A i \in DOMAIN channel : channel'[i] = channel[i]
         /\ \A k \in Registers : Coming(k)' = Coming(k) \cup (IF m.kind = k THEN {Len(channel) + 1} ELSE {})
<1>1. /\ channel' \in Seq(Messages) /\ Len(channel) \in Nat
      /\ DOMAIN channel = 1 .. Len(channel) /\ DOMAIN channel' = 1 .. Len(channel) + 1
      /\ channel'[Len(channel) + 1] = m /\ \A i \in DOMAIN channel : channel'[i] = channel[i]
  <2>1. channel \in Seq(Messages)
    BY DEF Typed
  <2> QED BY <2>1
<1>2. ASSUME NEW k \in Registers
      PROVE  Coming(k)' = Coming(k) \cup (IF m.kind = k THEN {Len(channel) + 1} ELSE {})
  <2>1. \A i : i \in DOMAIN channel' <=> i \in DOMAIN channel \/ i = Len(channel) + 1
    BY <1>1
  <2>2. Len(channel) + 1 \notin DOMAIN channel
    BY <1>1
  <2> QED BY <1>1, <2>1, <2>2 DEF Coming
<1> QED BY <1>1, <1>2

LEMMA Shifted ==
  ASSUME Typed, channel # <<>>, channel' = Tail(channel)
  PROVE  /\ channel' \in Seq(Messages) /\ Len(channel) \in Nat \ {0}
         /\ DOMAIN channel = 1 .. Len(channel) /\ DOMAIN channel' = 1 .. Len(channel) - 1
         /\ Head(channel) = channel[1] /\ \A i \in DOMAIN channel' : channel'[i] = channel[i + 1]
         /\ \A k \in Registers : /\ Coming(k) \subseteq Nat \ {0} /\ Coming(k)' \subseteq Nat \ {0}
                                 /\ \A i \in Nat \ {0} : i \in Coming(k)' <=> i + 1 \in Coming(k)
                                 /\ 1 \in Coming(k) <=> channel[1].kind = k
<1>1. /\ channel' \in Seq(Messages) /\ Len(channel) \in Nat \ {0}
      /\ DOMAIN channel = 1 .. Len(channel) /\ DOMAIN channel' = 1 .. Len(channel) - 1
      /\ Head(channel) = channel[1] /\ \A i \in DOMAIN channel' : channel'[i] = channel[i + 1]
  <2>1. channel \in Seq(Messages)
    BY DEF Typed
  <2> QED BY <2>1
<1>2. ASSUME NEW k \in Registers
      PROVE  /\ Coming(k) \subseteq Nat \ {0} /\ Coming(k)' \subseteq Nat \ {0}
             /\ \A i \in Nat \ {0} : i \in Coming(k)' <=> i + 1 \in Coming(k)
             /\ 1 \in Coming(k) <=> channel[1].kind = k
  <2>1. \A i \in Nat \ {0} : i \in DOMAIN channel' <=> i + 1 \in DOMAIN channel
    BY <1>1
  <2> QED BY <1>1, <2>1 DEF Coming
<1> QED BY <1>1, <1>2

\* When nobody writes or is asked anything.
LEMMA Quiet ==
  ASSUME VInv, UNCHANGED <<past, patches, req>>
  PROVE  /\ Now' = Now /\ Now \in Nat \ {0} /\ InvAnswers'
         /\ \A k \in Registers : /\ Version(k)' = Version(k) /\ Version(k) \in Nat \ {0}
                                 /\ Changing(k)' = Changing(k)
         /\ \A r \in Requests : /\ req'[r].n <= Version(Kind(r))' /\ req'[r].began <= Now'
                                /\ req'[r].pc = "sending" => req'[r].n >= 1
<1>1. Now' = Now /\ \A k \in Registers : Version(k)' = Version(k) /\ Changing(k)' = Changing(k)
  BY DEF Now, Version, Changing, Kind
<1>2. Now \in Nat \ {0} /\ \A k \in Registers : Version(k) \in Nat \ {0}
  BY VersionTyped DEF VInv
<1>3. InvAnswers'
  BY <1>1 DEF VInv, InvAnswers, Justified
<1>4. ASSUME NEW r \in Requests
      PROVE  /\ req'[r].n <= Version(Kind(r))' /\ req'[r].began <= Now'
             /\ req'[r].pc = "sending" => req'[r].n >= 1
  <2>1. Version(Kind(r))' = Version(Kind(r))
    BY <1>1 DEF Version, Kind
  <2> QED BY <1>1, <2>1 DEF VInv, Bounded
<1> QED BY <1>1, <1>2, <1>3, <1>4

LEMMA MountVInv ==
  ASSUME VInv, Mount, excused' = excused \cup {k \in Registers : Overlap(k)'}
  PROVE  VInv'
<1>1. /\ Typed /\ UNCHANGED <<past, patches, req>> /\ mount \in Nat /\ mount' = mount + 1
      /\ UNCHANGED <<channel, room, fetch, view, missed>>
  BY ViewAssumption DEF VInv, Mount, Typed
<1>2. excused' \subseteq Registers /\ \A k \in Registers \ excused' : k \notin excused /\ Apart(k)'
  BY <1>1, ApartNext
<1>3. Typed'
  BY <1>1, <1>2, ViewAssumption DEF Typed, Mount
<1>4. Bounded'
  <2>1. ASSUME NEW i \in DOMAIN channel, channel[i].kind = "ack" PROVE channel[i].n \in 1 .. mount'
    BY <1>1, <2>1 DEF VInv, Bounded
  <2>2. \A i \in DOMAIN channel : \A k \in Registers : channel[i].kind = k => channel[i].n \in 1 .. Version(k)'
    BY <1>1, Quiet DEF VInv, Bounded
  <2>3. \A k \in Registers : fetch'[k].n <= Version(k)' /\ view'[k] <= Version(k)'
    BY <1>1, Quiet DEF VInv, Bounded
  <2>4. \A r \in Requests : /\ req'[r].n <= Version(Kind(r))' /\ req'[r].began <= Now'
                            /\ req'[r].pc = "sending" => req'[r].n >= 1
    BY <1>1, Quiet
  <2>5. \A i \in DOMAIN channel' : /\ channel'[i].kind = "ack" => channel'[i].n \in 1 .. mount'
                                   /\ \A k \in Registers : channel'[i].kind = k => channel'[i].n \in 1 .. Version(k)'
    BY <1>1, <2>1, <2>2
  <2> QED BY <2>3, <2>4, <2>5 DEF Bounded
<1>5. InvRoom'
  <2>1. \A i \in DOMAIN channel : channel[i].kind = "ack" => channel[i].n # mount'
    BY <1>1 DEF VInv, Bounded
  <2> QED BY <1>1, <2>1 DEF InvRoom, Mount
<1>6. InvView'
  <2>1. ASSUME NEW k \in Registers \ excused' PROVE Apart(k)' /\ Newest(k)' /\ Ordered(k)' /\ Settled(k)'
    <3>1. Apart(k)' /\ Newest(k) /\ Ordered(k)
      BY <1>2 DEF VInv, InvView
    <3>2. Newest(k)' /\ Ordered(k)'
      BY <1>1, <3>1, Quiet DEF Newest, Ordered, Coming
    <3> QED BY <3>1, <3>2 DEF Settled, Mount
  <2> QED BY <2>1 DEF InvView
<1> QED BY <1>1, <1>3, <1>4, <1>5, <1>6, Quiet DEF VInv

LEMMA UnmountVInv ==
  ASSUME VInv, Unmount, excused' = excused \cup {k \in Registers : Overlap(k)'}
  PROVE  VInv'
<1>1. Typed /\ UNCHANGED <<past, patches, req, channel, mount, view>> /\ session' = "idle" /\ fetch' = NoFetch
  BY DEF VInv, Unmount
<1>2. excused' \subseteq Registers /\ \A k \in Registers \ excused' : k \notin excused /\ Apart(k)'
  BY <1>1, ApartNext
<1>3. Typed'
  <2>1. fetch' \in [Registers -> Fetches]
    BY <1>1 DEF NoFetch, Fetches
  <2> QED BY <1>1, <1>2, <2>1 DEF Typed, Unmount
<1>4. Bounded'
  <2>1. \A i \in DOMAIN channel : /\ channel[i].kind = "ack" => channel[i].n \in 1 .. mount
                                  /\ \A k \in Registers : channel[i].kind = k => channel[i].n \in 1 .. Version(k)'
    BY <1>1, Quiet DEF VInv, Bounded
  <2>2. \A k \in Registers : fetch'[k].n <= Version(k)' /\ view'[k] <= Version(k)'
    BY <1>1, Quiet DEF VInv, Bounded, NoFetch
  <2>4. \A r \in Requests : /\ req'[r].n <= Version(Kind(r))' /\ req'[r].began <= Now'
                            /\ req'[r].pc = "sending" => req'[r].n >= 1
    BY <1>1, Quiet
  <2>5. \A i \in DOMAIN channel' : /\ channel'[i].kind = "ack" => channel'[i].n \in 1 .. mount'
                                   /\ \A k \in Registers : channel'[i].kind = k => channel'[i].n \in 1 .. Version(k)'
    BY <1>1, <2>1
  <2> QED BY <2>2, <2>4, <2>5 DEF Bounded
<1>5. InvRoom'
  BY <1>1 DEF InvRoom
<1>6. InvView'
  <2>1. ASSUME NEW k \in Registers \ excused' PROVE Apart(k)' /\ Newest(k)' /\ Ordered(k)' /\ Settled(k)'
    <3>1. Apart(k)' /\ Newest(k) /\ Ordered(k)
      BY <1>2 DEF VInv, InvView
    <3>2. Newest(k)' /\ Ordered(k)'
      BY <1>1, <3>1, Quiet DEF Newest, Ordered, Coming, NoFetch
    <3> QED BY <1>1, <3>1, <3>2 DEF Settled
  <2> QED BY <2>1 DEF InvView
<1> QED BY <1>1, <1>3, <1>4, <1>5, <1>6, Quiet DEF VInv

LEMMA ServeFetchVInv ==
  ASSUME VInv, NEW o \in Registers, ServeFetch(o), excused' = excused \cup {k \in Registers : Overlap(k)'}
  PROVE  VInv'
<1>1. /\ Typed /\ UNCHANGED <<past, patches, req, channel, room, mount, session, view, missed>>
      /\ fetch \in [Registers -> Fetches] /\ fetch' = [fetch EXCEPT ![o] = [pc |-> "read", n |-> Version(o)]]
  BY DEF VInv, ServeFetch, Typed
<1>2. excused' \subseteq Registers /\ \A k \in Registers \ excused' : k \notin excused /\ Apart(k)'
  BY <1>1, ApartNext
<1>3. fetch' \in [Registers -> Fetches] /\ Typed'
  <2>1. [pc |-> "read", n |-> Version(o)] \in Fetches
    BY <1>1, VersionTyped DEF Fetches
  <2> QED BY <1>1, <1>2, <2>1 DEF Typed
<1>4. Bounded'
  <2>1. \A i \in DOMAIN channel : /\ channel[i].kind = "ack" => channel[i].n \in 1 .. mount
                                  /\ \A k \in Registers : channel[i].kind = k => channel[i].n \in 1 .. Version(k)'
    BY <1>1, Quiet DEF VInv, Bounded
  <2>2. \A k \in Registers : fetch'[k].n <= Version(k)' /\ view'[k] <= Version(k)'
    BY <1>1, Quiet DEF VInv, Bounded
  <2>4. \A r \in Requests : /\ req'[r].n <= Version(Kind(r))' /\ req'[r].began <= Now'
                            /\ req'[r].pc = "sending" => req'[r].n >= 1
    BY <1>1, Quiet
  <2>5. \A i \in DOMAIN channel' : /\ channel'[i].kind = "ack" => channel'[i].n \in 1 .. mount'
                                   /\ \A k \in Registers : channel'[i].kind = k => channel'[i].n \in 1 .. Version(k)'
    BY <1>1, <2>1
  <2> QED BY <2>2, <2>4, <2>5 DEF Bounded
<1>5. InvRoom'
  BY <1>1 DEF VInv, InvRoom
<1>6. InvView'
  <2>1. ASSUME NEW k \in Registers \ excused' PROVE Apart(k)' /\ Newest(k)' /\ Ordered(k)' /\ Settled(k)'
    <3>1. Apart(k)' /\ Newest(k) /\ Ordered(k) /\ Settled(k)
      BY <1>2 DEF VInv, InvView
    <3>2. Newest(k)' /\ Ordered(k)'
      BY <1>1, <3>1, Quiet DEF Newest, Ordered, Coming
    <3>3. Settled(k)'
      BY <1>1, <3>1, Quiet DEF Settled, Coming
    <3> QED BY <3>1, <3>2, <3>3
  <2> QED BY <2>1 DEF InvView
<1> QED BY <1>1, <1>3, <1>4, <1>5, <1>6, Quiet DEF VInv

LEMMA FetchArrivesVInv ==
  ASSUME VInv, NEW o \in Registers, FetchArrives(o), excused' = excused \cup {k \in Registers : Overlap(k)'}
  PROVE  VInv'
<1>1. /\ Typed /\ UNCHANGED <<past, patches, req, channel, room, mount, session>> /\ fetch[o].pc = "read"
      /\ fetch \in [Registers -> Fetches] /\ fetch' = [fetch EXCEPT ![o] = [pc |-> "none", n |-> 0]]
      /\ view \in [Registers -> Nat] /\ view' = [view EXCEPT ![o] = fetch[o].n] /\ fetch[o].n \in Nat
      /\ missed' = missed \ {o}
  BY DEF VInv, FetchArrives, Typed, NoFetch, Shows, Fetches
<1>2. excused' \subseteq Registers /\ \A k \in Registers \ excused' : k \notin excused /\ Apart(k)'
  BY <1>1, ApartNext
<1>3. fetch' \in [Registers -> Fetches] /\ view' \in [Registers -> Nat] /\ Typed'
  <2>1. [pc |-> "none", n |-> 0] \in Fetches
    BY DEF Fetches
  <2> QED BY <1>1, <1>2, <2>1 DEF Typed
<1>4. Bounded'
  <2>1. \A r \in Requests : /\ req'[r].n <= Version(Kind(r))' /\ req'[r].began <= Now'
                            /\ req'[r].pc = "sending" => req'[r].n >= 1
    BY <1>1, Quiet
  <2>2. \A i \in DOMAIN channel' : /\ channel'[i].kind = "ack" => channel'[i].n \in 1 .. mount'
                                   /\ \A k \in Registers : channel'[i].kind = k => channel'[i].n \in 1 .. Version(k)'
    BY <1>1, Quiet DEF VInv, Bounded
  <2>3. \A k \in Registers : fetch'[k].n <= Version(k)' /\ view'[k] <= Version(k)'
    BY <1>1, Quiet DEF VInv, Bounded
  <2> QED BY <2>1, <2>2, <2>3 DEF Bounded
<1>5. InvRoom'
  BY <1>1 DEF VInv, InvRoom
<1>6. InvView'
  <2>1. ASSUME NEW k \in Registers \ excused' PROVE Apart(k)' /\ Newest(k)' /\ Ordered(k)' /\ Settled(k)'
    <3>1. Apart(k)' /\ Apart(k) /\ Newest(k) /\ Ordered(k) /\ Settled(k)
      BY <1>2 DEF VInv, InvView
    <3>2. CASE k = o
      <4>1. Coming(k)' = {} /\ view'[k] = Version(k)' /\ fetch'[k].pc = "none" /\ Changing(k)' = {}
        BY <1>1, <3>1, <3>2, Quiet DEF Apart, Newest, Coming
      <4> QED BY <3>1, <4>1 DEF Newest, Ordered, Settled
    <3>3. CASE k # o
      <4>1. /\ fetch'[k] = fetch[k] /\ view'[k] = view[k] /\ Changing(k)' = Changing(k) /\ Coming(k)' = Coming(k)
            /\ Version(k)' = Version(k) /\ UNCHANGED <<req, channel, session>> /\ (k \in missed' <=> k \in missed)
        BY <1>1, <3>3, Quiet DEF Coming
      <4> QED BY <3>1, <4>1 DEF Newest, Ordered, Settled
    <3> QED BY <3>2, <3>3
  <2> QED BY <2>1 DEF InvView
<1> QED BY <1>1, <1>3, <1>4, <1>5, <1>6, Quiet DEF VInv

LEMMA FetchFailsVInv ==
  ASSUME VInv, NEW o \in Registers, FetchFails(o), excused' = excused \cup {k \in Registers : Overlap(k)'}
  PROVE  VInv'
<1>1. /\ Typed /\ UNCHANGED <<past, patches, req, channel, room, mount, session, view>> /\ fetch[o].pc # "none"
      /\ fetch \in [Registers -> Fetches] /\ fetch' = [fetch EXCEPT ![o] = [pc |-> "none", n |-> 0]]
      /\ missed' = missed \cup {o}
  BY DEF VInv, FetchFails, Typed, NoFetch
<1>2. excused' \subseteq Registers /\ \A k \in Registers \ excused' : k \notin excused /\ Apart(k)'
  BY <1>1, ApartNext
<1>3. fetch' \in [Registers -> Fetches] /\ Typed'
  <2>1. [pc |-> "none", n |-> 0] \in Fetches
    BY DEF Fetches
  <2> QED BY <1>1, <1>2, <2>1 DEF Typed
<1>4. Bounded'
  <2>1. \A r \in Requests : /\ req'[r].n <= Version(Kind(r))' /\ req'[r].began <= Now'
                            /\ req'[r].pc = "sending" => req'[r].n >= 1
    BY <1>1, Quiet
  <2>2. \A i \in DOMAIN channel' : /\ channel'[i].kind = "ack" => channel'[i].n \in 1 .. mount'
                                   /\ \A k \in Registers : channel'[i].kind = k => channel'[i].n \in 1 .. Version(k)'
    BY <1>1, Quiet DEF VInv, Bounded
  <2>3. \A k \in Registers : fetch'[k].n <= Version(k)' /\ view'[k] <= Version(k)'
    BY <1>1, Quiet DEF VInv, Bounded
  <2> QED BY <2>1, <2>2, <2>3 DEF Bounded
<1>5. InvRoom'
  BY <1>1 DEF VInv, InvRoom
<1>6. InvView'
  <2>1. ASSUME NEW k \in Registers \ excused' PROVE Apart(k)' /\ Newest(k)' /\ Ordered(k)' /\ Settled(k)'
    <3>1. Apart(k)' /\ Apart(k) /\ Newest(k) /\ Ordered(k) /\ Settled(k)
      BY <1>2 DEF VInv, InvView
    <3>2. /\ view'[k] = view[k] /\ Changing(k)' = Changing(k) /\ Coming(k)' = Coming(k)
          /\ Version(k)' = Version(k) /\ UNCHANGED <<req, channel, session>>
      BY <1>1, Quiet DEF Coming
    <3>3. CASE k = o
      <4>1. Coming(k)' = {} /\ k \in missed' /\ fetch'[k].pc = "none"
        BY <1>1, <3>1, <3>2, <3>3 DEF Apart
      <4> QED BY <3>1, <3>2, <4>1 DEF Newest, Ordered, Settled
    <3>4. CASE k # o
      <4>1. fetch'[k] = fetch[k] /\ (k \in missed' <=> k \in missed)
        BY <1>1, <3>4
      <4> QED BY <3>1, <3>2, <4>1 DEF Newest, Ordered, Settled
    <3> QED BY <3>3, <3>4
  <2> QED BY <2>1 DEF InvView
<1> QED BY <1>1, <1>3, <1>4, <1>5, <1>6, Quiet DEF VInv

LEMMA EnterRoomVInv ==
  ASSUME VInv, EnterRoom, excused' = excused \cup {k \in Registers : Overlap(k)'}
  PROVE  VInv'
<1>1. /\ Typed /\ UNCHANGED <<past, patches, req, channel, mount, session, fetch, view, missed>>
      /\ session = "joining" /\ room' = TRUE
  BY DEF VInv, EnterRoom, client
<1>2. excused' \subseteq Registers /\ \A k \in Registers \ excused' : k \notin excused /\ Apart(k)'
  BY <1>1, ApartNext
<1>3. Typed'
  BY <1>1, <1>2 DEF Typed
<1>4. Bounded'
  <2>1. \A r \in Requests : /\ req'[r].n <= Version(Kind(r))' /\ req'[r].began <= Now'
                            /\ req'[r].pc = "sending" => req'[r].n >= 1
    BY <1>1, Quiet
  <2>2. \A i \in DOMAIN channel' : /\ channel'[i].kind = "ack" => channel'[i].n \in 1 .. mount'
                                   /\ \A k \in Registers : channel'[i].kind = k => channel'[i].n \in 1 .. Version(k)'
    BY <1>1, Quiet DEF VInv, Bounded
  <2>3. \A k \in Registers : fetch'[k].n <= Version(k)' /\ view'[k] <= Version(k)'
    BY <1>1, Quiet DEF VInv, Bounded
  <2> QED BY <2>1, <2>2, <2>3 DEF Bounded
<1>5. InvRoom'
  BY <1>1 DEF VInv, InvRoom
<1>6. InvView'
  <2>1. ASSUME NEW k \in Registers \ excused' PROVE Apart(k)' /\ Newest(k)' /\ Ordered(k)' /\ Settled(k)'
    <3>1. Apart(k)' /\ Newest(k) /\ Ordered(k)
      BY <1>2 DEF VInv, InvView
    <3>2. Newest(k)' /\ Ordered(k)'
      BY <1>1, <3>1, Quiet DEF Newest, Ordered, Coming
    <3> QED BY <1>1, <3>1, <3>2 DEF Settled
  <2> QED BY <2>1 DEF InvView
<1> QED BY <1>1, <1>3, <1>4, <1>5, <1>6, Quiet DEF VInv

LEMMA AcknowledgeVInv ==
  ASSUME VInv, Acknowledge, excused' = excused \cup {k \in Registers : Overlap(k)'}
  PROVE  VInv'
<1>1. /\ Typed /\ UNCHANGED <<past, patches, req, mount, session, fetch, view, missed>> /\ session = "joining" /\ room' = TRUE
      /\ mount \in Nat \ {0} /\ channel' = Append(channel, [kind |-> "ack", n |-> mount])
  BY ViewAssumption DEF VInv, Acknowledge, Typed, client, InvRoom
<1>2. excused' \subseteq Registers /\ \A k \in Registers \ excused' : k \notin excused /\ Apart(k)'
  BY <1>1, ApartNext
<1>3. PICK m \in Messages : m.kind = "ack" /\ m.n = mount /\ channel' = Append(channel, m)
  <2>1. [kind |-> "ack", n |-> mount] \in Messages
    BY <1>1 DEF Messages
  <2> QED BY <1>1, <2>1
<1>4. /\ channel' \in Seq(Messages) /\ Len(channel) \in Nat
      /\ DOMAIN channel = 1 .. Len(channel) /\ DOMAIN channel' = 1 .. Len(channel) + 1
      /\ channel'[Len(channel) + 1] = m /\ \A i \in DOMAIN channel : channel'[i] = channel[i]
      /\ \A k \in Registers : Coming(k)' = Coming(k)
  <2>1. \A k \in Registers : m.kind # k
    BY <1>3 DEF Registers
  <2> QED BY <1>1, <1>3, <2>1, Appended
<1>5. Typed'
  BY <1>1, <1>2, <1>4 DEF Typed
<1>6. Bounded'
  <2>1. \A r \in Requests : /\ req'[r].n <= Version(Kind(r))' /\ req'[r].began <= Now'
                            /\ req'[r].pc = "sending" => req'[r].n >= 1
    BY <1>1, Quiet
  <2>2. \A i \in DOMAIN channel' : /\ channel'[i].kind = "ack" => channel'[i].n \in 1 .. mount'
                                   /\ \A k \in Registers : channel'[i].kind = k => channel'[i].n \in 1 .. Version(k)'
    <3>1. ASSUME NEW i \in DOMAIN channel
          PROVE  /\ channel'[i].kind = "ack" => channel'[i].n \in 1 .. mount'
                 /\ \A k \in Registers : channel'[i].kind = k => channel'[i].n \in 1 .. Version(k)'
      BY <1>1, <1>4, Quiet DEF VInv, Bounded
    <3>2. channel'[Len(channel) + 1].kind = "ack" /\ channel'[Len(channel) + 1].n \in 1 .. mount'
      BY <1>1, <1>3, <1>4
    <3>3. \A i \in DOMAIN channel' : i \in DOMAIN channel \/ i = Len(channel) + 1
      BY <1>4
    <3> QED BY <3>1, <3>2, <3>3 DEF Registers
  <2>3. \A k \in Registers : fetch'[k].n <= Version(k)' /\ view'[k] <= Version(k)'
    BY <1>1, Quiet DEF VInv, Bounded
  <2> QED BY <2>1, <2>2, <2>3 DEF Bounded
<1>7. InvRoom'
  BY <1>1 DEF InvRoom
<1>8. InvView'
  <2>1. ASSUME NEW k \in Registers \ excused' PROVE Apart(k)' /\ Newest(k)' /\ Ordered(k)' /\ Settled(k)'
    <3>1. Apart(k)' /\ Newest(k) /\ Ordered(k)
      BY <1>2 DEF VInv, InvView
    <3>2. Newest(k)'
      BY <1>1, <3>1, Quiet DEF Newest
    <3>3. Ordered(k)'
      <4>1. Coming(k)' = Coming(k) /\ \A i \in Coming(k) : channel'[i] = channel[i]
        BY <1>4 DEF Coming
      <4> QED BY <1>1, <3>1, <4>1 DEF Ordered
    <3>4. Settled(k)'
      BY <1>1 DEF Settled
    <3> QED BY <3>1, <3>2, <3>3, <3>4
  <2> QED BY <2>1 DEF InvView
<1> QED BY <1>1, <1>5, <1>6, <1>7, <1>8, Quiet DEF VInv

\* What a client shows after it received what was first on its way.
LEMMA ReceiveShows ==
  ASSUME VInv, Receive
  PROVE  /\ Typed /\ UNCHANGED <<past, patches, req, room, mount>> /\ channel # <<>> /\ channel' = Tail(channel)
         /\ missed' \subseteq Registers
         /\ \A k \in Registers : k \in missed' <=> k \in missed /\ 1 \notin Coming(k)
         /\ view \in [Registers -> Nat] /\ view' \in [Registers -> Nat]
         /\ \A k \in Registers : view'[k] = IF 1 \in Coming(k) THEN channel[1].n ELSE view[k]
         /\ \/ UNCHANGED <<session, fetch>>
            \/ /\ session' = "joined" /\ room /\ fetch' = [k \in Registers |-> [pc |-> "asked", n |-> 0]]
               /\ UNCHANGED view
<1>1. /\ Typed /\ UNCHANGED <<past, patches, req, room, mount>> /\ channel # <<>> /\ channel' = Tail(channel)
      /\ view \in [Registers -> Nat] /\ channel \in Seq(Messages)
  BY DEF VInv, Receive, Typed
<1>2. 1 \in DOMAIN channel /\ Head(channel) = channel[1] /\ channel[1] \in Messages
  BY <1>1
<1>3. \A k \in Registers : 1 \in Coming(k) <=> channel[1].kind = k
  BY <1>2 DEF Coming
<1>4. CASE channel[1].kind = "ack"
  <2>1. \A k \in Registers : 1 \notin Coming(k)
    BY <1>3, <1>4 DEF Registers
  <2>2. UNCHANGED <<view, missed>>
    BY <1>2, <1>4 DEF Receive, ReceiveAck
  <2>3. \/ UNCHANGED <<session, fetch>>
        \/ /\ session = "joining" /\ channel[1].n = mount /\ session' = "joined"
           /\ fetch' = [k \in Registers |-> [pc |-> "asked", n |-> 0]]
    BY <1>2, <1>4 DEF Receive, ReceiveAck
  <2>4. session = "joining" /\ channel[1].n = mount => room
    BY <1>2, <1>4 DEF VInv, InvRoom
  <2>5. missed' \subseteq Registers /\ \A k \in Registers : k \in missed' <=> k \in missed /\ 1 \notin Coming(k)
    BY <1>1, <2>1, <2>2 DEF Typed
  <2> QED BY <1>1, <2>1, <2>2, <2>3, <2>4, <2>5
<1>5. CASE channel[1].kind # "ack"
  <2>1. /\ view' = [view EXCEPT ![channel[1].kind] = channel[1].n] /\ UNCHANGED <<session, fetch>>
        /\ missed' = missed \ {channel[1].kind}
    BY <1>2, <1>5 DEF Receive, Shows
  <2>2. channel[1].kind \in Registers /\ channel[1].n \in Nat
    BY <1>2, <1>5 DEF Messages
  <2>3. missed' \subseteq Registers /\ \A k \in Registers : k \in missed' <=> k \in missed /\ 1 \notin Coming(k)
    BY <1>1, <1>3, <2>1 DEF Typed
  <2> QED BY <1>1, <1>3, <2>1, <2>2, <2>3
<1> QED BY <1>4, <1>5

LEMMA ReceiveVInv ==
  ASSUME VInv, Receive, excused' = excused \cup {k \in Registers : Overlap(k)'}
  PROVE  VInv'
<1>1. /\ Typed /\ UNCHANGED <<past, patches, req, room, mount>>
      /\ missed' \subseteq Registers
      /\ \A k \in Registers : k \in missed' <=> k \in missed /\ 1 \notin Coming(k)
      /\ view \in [Registers -> Nat] /\ view' \in [Registers -> Nat]
      /\ \A k \in Registers : view'[k] = IF 1 \in Coming(k) THEN channel[1].n ELSE view[k]
      /\ \/ UNCHANGED <<session, fetch>>
         \/ /\ session' = "joined" /\ room /\ fetch' = [k \in Registers |-> [pc |-> "asked", n |-> 0]]
            /\ UNCHANGED view
  BY ReceiveShows
<1>2. excused' \subseteq Registers /\ \A k \in Registers \ excused' : k \notin excused /\ Apart(k)'
  BY <1>1, ApartNext
<1>3. /\ channel' \in Seq(Messages) /\ Len(channel) \in Nat \ {0}
      /\ DOMAIN channel = 1 .. Len(channel) /\ DOMAIN channel' = 1 .. Len(channel) - 1
      /\ \A i \in DOMAIN channel' : channel'[i] = channel[i + 1] /\ i + 1 \in DOMAIN channel /\ i \in Nat \ {0}
      /\ \A k \in Registers : /\ Coming(k) \subseteq Nat \ {0} /\ Coming(k)' \subseteq Nat \ {0}
                            /\ \A i \in Nat \ {0} : i \in Coming(k)' <=> i + 1 \in Coming(k)
  <2>1. Typed /\ channel # <<>> /\ channel' = Tail(channel)
    BY ReceiveShows
  <2>2. /\ channel' \in Seq(Messages) /\ Len(channel) \in Nat \ {0}
        /\ DOMAIN channel = 1 .. Len(channel) /\ DOMAIN channel' = 1 .. Len(channel) - 1
        /\ \A i \in DOMAIN channel' : channel'[i] = channel[i + 1]
        /\ \A k \in Registers : /\ Coming(k) \subseteq Nat \ {0} /\ Coming(k)' \subseteq Nat \ {0}
                              /\ \A i \in Nat \ {0} : i \in Coming(k)' <=> i + 1 \in Coming(k)
    BY <2>1, Shifted
  <2>3. \A i \in DOMAIN channel' : i + 1 \in DOMAIN channel /\ i \in Nat \ {0}
    BY <2>2
  <2> QED BY <2>2, <2>3
<1>4. Typed'
  <2>1. fetch' \in [Registers -> Fetches]
    BY <1>1 DEF Typed, Fetches
  <2> QED BY <1>1, <1>2, <1>3, <2>1 DEF Typed
<1>5. Bounded'
  <2>1. \A r \in Requests : /\ req'[r].n <= Version(Kind(r))' /\ req'[r].began <= Now'
                            /\ req'[r].pc = "sending" => req'[r].n >= 1
    BY <1>1, Quiet
  <2>2. \A i \in DOMAIN channel' : /\ channel'[i].kind = "ack" => channel'[i].n \in 1 .. mount'
                                   /\ \A k \in Registers : channel'[i].kind = k => channel'[i].n \in 1 .. Version(k)'
    <3>1. ASSUME NEW i \in DOMAIN channel, NEW k \in Registers, channel[i].kind = k
          PROVE  channel[i].n \in 1 .. Version(k)'
      <4>1. channel[i].n \in 1 .. Version(k)
        BY <3>1 DEF VInv, Bounded
      <4>2. Version(k)' = Version(k)
        BY <1>1, Quiet
      <4> QED BY <4>1, <4>2
    <3>2. \A i \in DOMAIN channel : channel[i].kind = "ack" => channel[i].n \in 1 .. mount
      BY DEF VInv, Bounded
    <3>3. \A i \in DOMAIN channel' : i + 1 \in DOMAIN channel /\ channel'[i] = channel[i + 1]
      BY <1>3
    <3> QED BY <1>1, <3>1, <3>2, <3>3
  <2>3. \A k \in Registers : fetch'[k].n <= Version(k)'
    BY <1>1, Quiet DEF VInv, Bounded
  <2>4. ASSUME NEW k \in Registers PROVE view'[k] <= Version(k)'
    <3>1. 1 \in Coming(k) => channel[1].n \in 1 .. Version(k)
      BY DEF VInv, Bounded, Coming
    <3>2. view[k] <= Version(k)
      BY DEF VInv, Bounded
    <3> QED BY <1>1, <3>1, <3>2, Quiet
  <2> QED BY <2>1, <2>2, <2>3, <2>4 DEF Bounded
<1>6. InvRoom'
  <2>1. session' = "joined" => room'
    BY <1>1 DEF VInv, InvRoom
  <2>2. session' # "idle" => session # "idle" /\ mount' # 0
    <3>1. session' # session => session = "joining"
      BY DEF Receive, ReceiveAck
    <3> QED BY <1>1, <3>1 DEF VInv, InvRoom
  <2>3. \A i \in DOMAIN channel' : session' # "idle" /\ channel'[i].kind = "ack" /\ channel'[i].n = mount' => room'
    BY <1>1, <1>3, <2>2 DEF VInv, InvRoom
  <2> QED BY <2>1, <2>2, <2>3 DEF InvRoom
<1>7. ASSUME NEW k \in Registers \ excused' PROVE Newest(k)' /\ Ordered(k)' /\ Settled(k)'
  <2>1. Apart(k)' /\ Newest(k) /\ Ordered(k) /\ Settled(k)
    BY <1>2 DEF VInv, InvView
  <2>2. /\ Coming(k) \subseteq Nat \ {0} /\ Coming(k)' \subseteq Nat \ {0}
        /\ \A i \in Nat \ {0} : i \in Coming(k)' <=> i + 1 \in Coming(k)
        /\ \A i \in Coming(k)' : channel'[i] = channel[i + 1]
    <3>1. Coming(k)' \subseteq DOMAIN channel'
      BY DEF Coming
    <3> QED BY <1>3, <3>1
  <2>3. \A i \in Coming(k) : channel[i].n \in Nat
    <3>1. \A i \in DOMAIN channel : channel[i] \in Messages
      BY <1>1 DEF Typed
    <3> QED BY <3>1 DEF Coming, Messages
  <2>4. Ordered(k)'
    <3>1. ASSUME NEW i \in Coming(k)', NEW j \in Coming(k)', i < j PROVE channel'[i].n <= channel'[j].n
      <4>1. i + 1 \in Coming(k) /\ j + 1 \in Coming(k) /\ i + 1 < j + 1
        BY <2>2, <3>1
      <4> QED BY <2>1, <2>2, <4>1 DEF Ordered
    <3>2. ASSUME NEW i \in Coming(k)' PROVE view'[k] <= channel'[i].n
      <4>1. i + 1 \in Coming(k) /\ 1 < i + 1 /\ channel'[i] = channel[i + 1]
        BY <2>2
      <4>2. 1 \in Coming(k) => channel[1].n <= channel[i + 1].n
        BY <2>1, <4>1 DEF Ordered
      <4>3. view[k] <= channel[i + 1].n
        BY <2>1, <4>1 DEF Ordered
      <4> QED BY <1>1, <4>1, <4>2, <4>3
    <3> QED BY <3>1, <3>2 DEF Ordered
  <2>5. CASE UNCHANGED <<session, fetch>>
    <3>1. Newest(k)'
      BY <1>1, <2>1, <2>5, Quiet DEF Newest
    <3>2. Settled(k)'
      <4> SUFFICES ASSUME session = "joined", fetch[k].pc = "none", Changing(k) = {}
                   PROVE  /\ k \notin missed' /\ Coming(k)' = {} => view'[k] = Version(k)'
                          /\ \A i \in Coming(k)' : (\A j \in Coming(k)' : j <= i) => channel'[i].n = Version(k)'
        BY <2>5, Quiet, <1>1 DEF Settled
      <4>1. /\ k \notin missed /\ Coming(k) = {} => view[k] = Version(k)
            /\ \A i \in Coming(k) : (\A j \in Coming(k) : j <= i) => channel[i].n = Version(k)
        BY <2>1 DEF Settled
      <4>2. Version(k)' = Version(k)
        BY <1>1, Quiet
      <4>3. ASSUME k \notin missed', Coming(k)' = {} PROVE view'[k] = Version(k)'
        <5>1. \A i \in Coming(k) : i = 1
          <6>1. ASSUME NEW i \in Coming(k), i # 1 PROVE FALSE
            <7>1. i - 1 \in Nat \ {0} /\ (i - 1) + 1 = i
              BY <2>2, <6>1
            <7> QED BY <2>2, <4>3, <7>1, <6>1
          <6> QED BY <6>1
        <5>2. CASE 1 \in Coming(k)
          <6>1. \A j \in Coming(k) : j <= 1
            BY <5>1
          <6> QED BY <1>1, <4>1, <4>2, <5>2, <6>1
        <5>3. CASE 1 \notin Coming(k)
          BY <1>1, <4>1, <4>2, <4>3, <5>1, <5>3
        <5> QED BY <5>2, <5>3
      <4>4. ASSUME NEW i \in Coming(k)', \A j \in Coming(k)' : j <= i PROVE channel'[i].n = Version(k)'
        <5>1. i + 1 \in Coming(k) /\ i \in Nat \ {0} /\ channel'[i] = channel[i + 1]
          BY <2>2
        <5>2. ASSUME NEW j \in Coming(k) PROVE j <= i + 1
          <6>1. CASE j = 1
            BY <5>1, <6>1
          <6>2. CASE j # 1
            <7>1. j - 1 \in Nat \ {0} /\ (j - 1) + 1 = j
              BY <2>2, <6>2
            <7>2. j - 1 <= i
              BY <2>2, <4>4, <7>1
            <7> QED BY <5>1, <7>1, <7>2
          <6> QED BY <6>1, <6>2
        <5> QED BY <4>1, <4>2, <5>1, <5>2
      <4> QED BY <4>3, <4>4
    <3> QED BY <2>4, <3>1, <3>2
  <2>6. CASE fetch' = [x \in Registers |-> [pc |-> "asked", n |-> 0]]
    <3>1. fetch'[k].pc = "asked"
      BY <2>6
    <3>2. Changing(k)' = {}
      BY <2>1, <3>1 DEF Apart
    <3> QED BY <2>4, <3>1, <3>2 DEF Newest, Settled
  <2> QED BY <1>1, <2>5, <2>6
<1>8. InvView'
  <2>1. ASSUME NEW k \in Registers \ excused' PROVE Apart(k)' /\ Newest(k)' /\ Ordered(k)' /\ Settled(k)'
    BY <1>2, <1>7
  <2> QED BY <2>1 DEF InvView
<1> QED BY <1>1, <1>4, <1>5, <1>6, <1>8, Quiet DEF VInv

LEMMA BroadcastVInv ==
  ASSUME VInv, NEW r \in Requests, BroadcastChange(r), excused' = excused \cup {k \in Registers : Overlap(k)'}
  PROVE  VInv'
<1> DEFINE L == Len(channel)
<1>1. /\ Typed /\ UNCHANGED <<past, patches, room, mount, session, fetch, view, missed>> /\ req[r].pc = "sending"
      /\ Now' = Now /\ req[r] \in Asked
  BY DEF VInv, BroadcastChange, client, Now, Typed
<1>2. excused' \subseteq Registers /\ \A k \in Registers \ excused' : k \notin excused /\ Apart(k)'
  BY <1>1, ApartNext
<1>3. PICK q \in Asked : /\ req' = [req EXCEPT ![r] = q] /\ q.pc = "done" /\ q.n = req[r].n /\ q.kind = req[r].kind
                        /\ q.who = req[r].who /\ q.began = req[r].began
  <2>1. PICK q : q = [req[r] EXCEPT !.pc = "done"]
    OBVIOUS
  <2>2. /\ q \in Asked /\ q.pc = "done" /\ q.n = req[r].n /\ q.kind = req[r].kind
        /\ q.who = req[r].who /\ q.began = req[r].began
    BY <1>1, <2>1 DEF Asked
  <2>3. req' = [req EXCEPT ![r] = q]
    BY <2>1 DEF BroadcastChange, Goes
  <2> QED BY <2>2, <2>3
<1>4. /\ req' \in [Requests -> Asked] /\ req'[r] = q /\ \A o \in Requests : o # r => req'[o] = req[o]
      /\ \A o \in Requests : Kind(o)' = Kind(o) /\ Kind(o) \in Registers
  <2>1. /\ req' \in [Requests -> Asked] /\ req'[r] = q /\ \A o \in Requests : o # r => req'[o] = req[o]
    BY <1>1, <1>3 DEF Typed
  <2> QED BY <1>3, <2>1 DEF Kind, Registers
<1>5. /\ \A k \in Registers : Version(k)' = Version(k) /\ Version(k) \in Nat \ {0} /\ Changing(k)' = Changing(k) \ {r}
      /\ r \in Changing(Kind(r))
  <2>1. \A k \in Registers : Version(k)' = Version(k) /\ Version(k) \in Nat \ {0}
    BY <1>1, VersionTyped DEF Version
  <2>2. \A k \in Registers : Changing(k)' = Changing(k) \ {r}
    BY <1>3, <1>4 DEF Changing
  <2> QED BY <1>1, <2>1, <2>2 DEF Changing
<1>6. PICK m \in Messages : /\ m.kind = Kind(r) /\ m.n = req[r].n
                           /\ channel' = IF room THEN Append(channel, m) ELSE channel
  <2>1. [kind |-> Kind(r), n |-> req[r].n] \in Messages
    BY <1>1, <1>4 DEF Messages, Asked
  <2> QED BY <2>1 DEF BroadcastChange
<1>7. m.kind \in Registers /\ m.n \in 1 .. Version(m.kind) /\ m.kind # "ack"
  <2>1. req[r].n \in Nat /\ req[r].n <= Version(Kind(r)) /\ req[r].n >= 1
    BY <1>1 DEF VInv, Bounded, Asked
  <2> QED BY <1>4, <1>5, <1>6, <2>1 DEF Registers
<1>8. /\ channel' \in Seq(Messages) /\ L \in Nat /\ DOMAIN channel = 1 .. L
      /\ \A i \in DOMAIN channel : i \in DOMAIN channel' /\ channel'[i] = channel[i]
      /\ \A i \in DOMAIN channel' : i \in DOMAIN channel \/ (room /\ i = L + 1)
      /\ room => channel'[L + 1] = m
      /\ \A k \in Registers : Coming(k)' = Coming(k) \cup (IF room /\ m.kind = k THEN {L + 1} ELSE {})
  <2>1. CASE room
    <3>1. /\ channel' \in Seq(Messages) /\ L \in Nat /\ DOMAIN channel = 1 .. L /\ DOMAIN channel' = 1 .. L + 1
          /\ channel'[L + 1] = m /\ \A i \in DOMAIN channel : channel'[i] = channel[i]
          /\ \A k \in Registers : Coming(k)' = Coming(k) \cup (IF m.kind = k THEN {L + 1} ELSE {})
      BY <1>1, <1>6, <2>1, Appended
    <3>2. \A k \in Registers : Coming(k)' = Coming(k) \cup (IF room /\ m.kind = k THEN {L + 1} ELSE {})
      BY <2>1, <3>1, Zenon
    <3>3. /\ \A i \in DOMAIN channel : i \in DOMAIN channel'
          /\ \A i \in DOMAIN channel' : i \in DOMAIN channel \/ i = L + 1
      BY <3>1
    <3> QED BY <2>1, <3>1, <3>2, <3>3
  <2>2. CASE ~room
    <3>1. channel' = channel /\ channel \in Seq(Messages)
      BY <1>1, <1>6, <2>2 DEF Typed
    <3>2. \A k \in Registers : Coming(k)' = Coming(k)
      BY <3>1 DEF Coming
    <3>3. \A k \in Registers : Coming(k)' = Coming(k) \cup (IF room /\ m.kind = k THEN {L + 1} ELSE {})
      BY <2>2, <3>2
    <3>4. L \in Nat /\ DOMAIN channel = 1 .. L
      BY <3>1
    <3> QED BY <2>2, <3>1, <3>3, <3>4
  <2> QED BY <1>1, <2>1, <2>2 DEF Typed
<1> HIDE DEF L
<1>9. Typed'
  BY <1>1, <1>2, <1>4, <1>8 DEF Typed
<1>10. Bounded'
  <2>1. ASSUME NEW o \in Requests
        PROVE  /\ req'[o].n <= Version(Kind(o))' /\ req'[o].began <= Now'
               /\ req'[o].pc = "sending" => req'[o].n >= 1
    <3>1. Version(Kind(o))' = Version(Kind(o))
      BY <1>1, <1>4 DEF Version
    <3>2. /\ req[o].n <= Version(Kind(o)) /\ req[o].began <= Now
          /\ req[o].pc = "sending" => req[o].n >= 1
      BY DEF VInv, Bounded
    <3> QED BY <1>1, <1>3, <1>4, <3>1, <3>2
  <2>2. ASSUME NEW i \in DOMAIN channel'
        PROVE  /\ channel'[i].kind = "ack" => channel'[i].n \in 1 .. mount'
               /\ \A k \in Registers : channel'[i].kind = k => channel'[i].n \in 1 .. Version(k)'
    <3>1. CASE i \in DOMAIN channel
      BY <1>1, <1>5, <1>8, <3>1 DEF VInv, Bounded
    <3>2. CASE room /\ i = L + 1
      BY <1>5, <1>7, <1>8, <3>2
    <3> QED BY <1>8, <3>1, <3>2
  <2>3. \A k \in Registers : fetch'[k].n <= Version(k)' /\ view'[k] <= Version(k)'
    BY <1>1, <1>5 DEF VInv, Bounded
  <2> QED BY <2>1, <2>2, <2>3 DEF Bounded
<1>11. InvAnswers'
  <2>1. ASSUME NEW o \in Requests PROVE Justified(req[o])'
    <3>1. PICK x \in Asked : x = req'[o]
      BY <1>4
    <3>2. Justified(x)
      <4>1. CASE o = r
        <5>1. Justified(req[r])
          BY DEF VInv, InvAnswers
        <5> QED BY <1>1, <1>3, <1>4, <3>1, <4>1, <5>1 DEF Justified
      <4>2. CASE o # r
        BY <1>4, <3>1, <4>2 DEF VInv, InvAnswers
      <4> QED BY <4>1, <4>2
    <3>3. Justified(x)'
      BY <1>1, <3>2 DEF Justified
    <3> QED BY <3>1, <3>3
  <2> QED BY <2>1 DEF InvAnswers
<1>12. InvRoom'
  <2>1. \A i \in DOMAIN channel' : channel'[i].kind = "ack" => i \in DOMAIN channel /\ channel'[i] = channel[i]
    BY <1>7, <1>8
  <2> QED BY <1>1, <2>1 DEF VInv, InvRoom
<1>13. ASSUME NEW k \in Registers \ excused' PROVE Newest(k)' /\ Ordered(k)' /\ Settled(k)'
  <2>1. Apart(k) /\ Newest(k) /\ Ordered(k) /\ Settled(k)
    BY <1>2 DEF VInv, InvView
  <2>2. /\ Coming(k) \subseteq 1 .. L /\ L \in Nat /\ \A i \in Coming(k) : channel'[i] = channel[i]
        /\ \A i \in Coming(k) : channel[i].n \in 1 .. Version(k)
    BY <1>8 DEF Coming, VInv, Bounded
  <2>3. CASE m.kind # k
    <3>1. Changing(k)' = Changing(k) /\ r \notin Changing(k) /\ Coming(k)' = Coming(k)
      <4>1. r \notin Changing(k) /\ Changing(k)' = Changing(k) \ {r}
        BY <1>5, <1>6, <2>3 DEF Changing
      <4>2. Coming(k)' = Coming(k) \cup {}
        BY <1>8, <2>3
      <4> QED BY <4>1, <4>2
    <3>2. Newest(k)'
      <4>1. \A o \in Changing(k) : req'[o] = req[o]
        BY <1>4, <3>1 DEF Changing
      <4> QED BY <1>1, <1>5, <2>1, <3>1, <4>1 DEF Newest
    <3>3. Ordered(k)'
      BY <1>1, <2>1, <2>2, <3>1 DEF Ordered
    <3>4. Settled(k)'
      BY <1>1, <1>5, <2>1, <2>2, <3>1 DEF Settled
    <3> QED BY <3>2, <3>3, <3>4
  <2>4. CASE m.kind = k
    <3>1. r \in Changing(k) /\ Changing(k)' = {} /\ fetch[k].pc = "none" /\ m.n = Version(k)
      BY <1>1, <1>5, <1>6, <2>1, <2>4 DEF Apart, Newest
    <3>2. Newest(k)'
      BY <1>1, <3>1 DEF Newest
    <3>3. CASE room
      <4>1. /\ Coming(k)' = Coming(k) \cup {L + 1} /\ channel'[L + 1].n = Version(k) /\ Version(k)' = Version(k)
            /\ Version(k) \in Nat /\ view'[k] = view[k] /\ view[k] <= Version(k)
        BY <1>1, <1>5, <1>8, <2>4, <3>1, <3>3 DEF VInv, Bounded
      <4>2. Ordered(k)'
        <5>1. ASSUME NEW i \in Coming(k)', NEW j \in Coming(k)', i < j PROVE channel'[i].n <= channel'[j].n
          <6>1. CASE j = L + 1
            BY <2>2, <4>1, <5>1, <6>1
          <6>2. CASE j # L + 1
            <7>1. j \in Coming(k) /\ i \in Coming(k)
              BY <2>2, <4>1, <5>1, <6>2
            <7> QED BY <2>1, <2>2, <5>1, <7>1 DEF Ordered
          <6> QED BY <6>1, <6>2
        <5>2. \A i \in Coming(k)' : view'[k] <= channel'[i].n
          BY <2>1, <2>2, <4>1 DEF Ordered
        <5> QED BY <5>1, <5>2 DEF Ordered
      <4>3. Settled(k)'
        <5>1. ASSUME NEW i \in Coming(k)', \A j \in Coming(k)' : j <= i PROVE channel'[i].n = Version(k)'
          <6>1. L + 1 <= i
            BY <4>1, <5>1
          <6>2. i = L + 1
            BY <2>2, <4>1, <6>1
          <6> QED BY <4>1, <6>2
        <5> QED BY <4>1, <5>1 DEF Settled
      <4> QED BY <3>2, <4>2, <4>3
    <3>4. CASE ~room
      <4>1. Coming(k)' = Coming(k) /\ session' # "joined"
        BY <1>1, <1>8, <3>4 DEF VInv, InvRoom
      <4> QED BY <1>1, <2>1, <2>2, <3>2, <4>1 DEF Ordered, Settled
    <3> QED BY <1>1, <3>3, <3>4 DEF Typed
  <2> QED BY <2>3, <2>4
<1>14. InvView'
  <2>1. ASSUME NEW k \in Registers \ excused' PROVE Apart(k)' /\ Newest(k)' /\ Ordered(k)' /\ Settled(k)'
    BY <1>2, <1>13
  <2> QED BY <2>1 DEF InvView
<1> QED BY <1>9, <1>10, <1>11, <1>12, <1>14 DEF VInv

-----------------------------------------------------------------------------
(* The theorems.                                                              *)

LEMMA InitVInv == Init => VInv
<1> SUFFICES ASSUME Init PROVE VInv
  OBVIOUS
<1>1. /\ past = <<{Creator}>> /\ patches = 1 /\ channel = <<>> /\ room = FALSE /\ mount = 0 /\ session = "idle"
      /\ missed = {} /\ excused = {}
      /\ req = [r \in Requests |-> [pc |-> "unborn", kind |-> "none", who |-> Creator, n |-> 0, began |-> 0]]
      /\ fetch = [k \in Registers |-> [pc |-> "none", n |-> 0]] /\ view = [k \in Registers |-> 0]
  BY DEF Init
<1>2. Creator \in People /\ MaxMounts \in Nat
  BY ViewAssumption
<1>3. Typed
  <2>1. past \in Seq(SUBSET People) /\ past # <<>> /\ channel \in Seq(Messages)
    BY <1>1, <1>2
  <2>2. req \in [Requests -> Asked] /\ fetch \in [Registers -> Fetches] /\ view \in [Registers -> Nat]
    BY <1>1, <1>2 DEF Asked, Fetches
  <2>3. patches \in Nat \ {0} /\ mount \in 0 .. MaxMounts
    BY <1>1, <1>2
  <2>4. /\ room \in BOOLEAN
        /\ session \in {"idle", "joining", "joined"} /\ missed \subseteq Registers /\ excused \subseteq Registers
    BY <1>1, <1>2
  <2> QED BY <2>1, <2>2, <2>3, <2>4 DEF Typed
<1>4. DOMAIN channel = {} /\ Now \in Nat /\ \A k \in Registers : Version(k) \in Nat
  BY <1>1, <1>3, VersionTyped
<1>5. Bounded
  <2>1. ASSUME NEW r \in Requests
        PROVE  req[r].n <= Version(Kind(r)) /\ req[r].began <= Now /\ (req[r].pc = "sending" => req[r].n >= 1)
    <3>1. Kind(r) \in Registers
      BY DEF Kind, Registers
    <3> QED BY <1>1, <1>4, <3>1
  <2> QED BY <1>1, <1>4, <2>1 DEF Bounded
<1>6. InvAnswers
  BY <1>1 DEF InvAnswers, Justified
<1>7. InvRoom
  BY <1>1, <1>4 DEF InvRoom
<1>8. InvView
  BY <1>1, <1>4 DEF InvView, Apart, Newest, Ordered, Settled, Changing, Coming
<1> QED BY <1>3, <1>5, <1>6, <1>7, <1>8 DEF VInv

LEMMA NextVInv == VInv /\ [Next]_vars => VInv'
<1> SUFFICES ASSUME VInv, [Next]_vars PROVE VInv'
  OBVIOUS
<1>1. CASE Next
  <2>1. excused' = excused \cup {k \in Registers : Overlap(k)'} /\ Typed
    BY <1>1 DEF Next, VInv
  <2>2. ASSUME NEW r \in Requests, Serve(r) PROVE VInv'
    <3>1. CASE BroadcastChange(r)
      BY <2>1, <3>1, BroadcastVInv
    <3>2. CASE ~BroadcastChange(r)
      <4>1. \E q : Moves(r, q)
        BY <2>2, <3>2, InsertMoves, SelectMoves, DeleteMoves, ListMoves, PatchMoves DEF Serve
      <4> QED BY <2>1, <4>1, MovesVInv
    <3> QED BY <3>1, <3>2
  <2>3. ASSUME NEW r \in Requests, NEW x \in People, NEW kind \in {"add", "remove", "patch"}, Gate(r, kind, x)
        PROVE  VInv'
    <3>1. \E q : Moves(r, q)
      BY <2>1, <2>3, GateMoves
    <3> QED BY <2>1, <3>1, MovesVInv
  <2>4. ASSUME NEW k \in Registers, ServeFetch(k) \/ FetchArrives(k) \/ FetchFails(k) PROVE VInv'
    BY <2>1, <2>4, ServeFetchVInv, FetchArrivesVInv, FetchFailsVInv
  <2>5. CASE ServeJoin \/ Mount \/ Unmount \/ Receive
    BY <2>1, <2>5, EnterRoomVInv, AcknowledgeVInv, MountVInv, UnmountVInv, ReceiveVInv DEF ServeJoin
  <2> QED BY <1>1, <2>2, <2>3, <2>4, <2>5, ViewAssumption DEF Next
<1>2. CASE UNCHANGED vars
  <2>1. UNCHANGED <<past, patches, req, channel, room, mount, session, fetch, view, missed, excused>>
    BY <1>2 DEF vars, system, client
  <2>2. Typed' /\ InvRoom'
    BY <2>1 DEF VInv, Typed, InvRoom
  <2>3. /\ Now' = Now
        /\ \A k \in Registers : Version(k)' = Version(k) /\ Changing(k)' = Changing(k) /\ Coming(k)' = Coming(k)
        /\ \A r \in Requests : Version(Kind(r))' = Version(Kind(r))
    BY <2>1 DEF Now, Version, Changing, Coming, Kind
  <2>4. Bounded' /\ InvAnswers'
    BY <2>1, <2>3 DEF VInv, Bounded, InvAnswers, Justified
  <2>5. InvView'
    BY <2>1, <2>3 DEF VInv, InvView, Apart, Newest, Ordered, Settled
  <2> QED BY <2>2, <2>4, <2>5 DEF VInv
<1> QED BY <1>1, <1>2

\* The invariant the theorems about the client's view rest on: what is not
\* excused is changed by one request at a time and never fetched meanwhile.
THEOREM ViewInvariance == Spec => []VInv
BY InitVInv, NextVInv, PTL DEF Spec

\* Variables keep their types and no version is of the future.
THEOREM ViewTypes == Spec => []TypeOK
<1>1. VInv => TypeOK
  <2> SUFFICES ASSUME VInv PROVE TypeOK
    OBVIOUS
  <2>1. Typed /\ Bounded /\ Now \in Nat \ {0} /\ \A k \in Registers : Version(k) \in Nat \ {0}
    BY VersionTyped DEF VInv
  <2>2. req \in [Requests -> [pc : {"unborn", "gated", "conflict", "failed", "written", "sending", "done"},
                              kind : {"none", "add", "remove", "patch"}, who : People,
                              n : Nat, began : 0 .. Now]]
    <3>1. \A r \in Requests : req[r] \in Asked /\ req[r].began <= Now
      BY <2>1 DEF Typed, Bounded
    <3>2. \A r \in Requests : req[r] \in [pc : {"unborn", "gated", "conflict", "failed", "written", "sending", "done"},
                                          kind : {"none", "add", "remove", "patch"}, who : People,
                                          n : Nat, began : 0 .. Now]
      BY <2>1, <3>1 DEF Asked
    <3> QED BY <2>1, <3>2 DEF Typed
  <2>3. ASSUME NEW i \in DOMAIN channel
        PROVE  \/ channel[i].kind = "ack" /\ channel[i].n \in 1 .. mount
               \/ channel[i].kind \in Registers /\ channel[i].n \in 1 .. Version(channel[i].kind)
    <3>1. channel[i].kind \in {"ack"} \cup Registers
      <4>1. channel[i] \in Messages
        BY <2>1 DEF Typed
      <4> QED BY <4>1 DEF Messages
    <3> QED BY <2>1, <3>1 DEF Bounded
  <2>4. ASSUME NEW k \in Registers
        PROVE  fetch[k].pc \in {"none", "asked", "read"} /\ fetch[k].n \in 0 .. Version(k) /\ view[k] \in 0 .. Version(k)
    <3>1. fetch[k] \in Fetches /\ view[k] \in Nat /\ fetch[k].n <= Version(k) /\ view[k] <= Version(k)
      BY <2>1 DEF Typed, Bounded
    <3> QED BY <2>1, <3>1 DEF Fetches
  <2> QED BY <2>1, <2>2, <2>3, <2>4 DEF TypeOK, Typed, Bounded
<1> QED BY <1>1, ViewInvariance, PTL

\* Once nothing is under way a joined client shows what the database has, in
\* every register in which no two operations overlapped, and whose snapshot did
\* not fail, or that was changed since (useThreadSession.ts).
THEOREM SettledShowsTruth == Spec => []SettledViewIsTrue
<1>1. VInv => SettledViewIsTrue
  <2> SUFFICES ASSUME VInv, session = "joined", channel = <<>>, NEW k \in Registers \ (excused \cup missed),
                      Changing(k) = {}, fetch[k].pc = "none"
               PROVE  view[k] = Version(k)
    BY DEF SettledViewIsTrue
  <2>1. Coming(k) = {}
    BY DEF Coming
  <2> QED BY <2>1 DEF VInv, InvView, Settled
<1> QED BY <1>1, ViewInvariance, PTL

\* An answer to an add or a removal was true at a moment of the request, and
\* add_member fails only after a removal in between (postgres/store.py).
THEOREM AnswersWereTrue == Spec => []MembershipAnswers
<1>1. VInv => MembershipAnswers
  <2> SUFFICES ASSUME VInv, NEW r \in Requests
               PROVE  /\ req[r].kind = "add" /\ req[r].pc = "done" =>
                            \E i \in req[r].began .. Now : req[r].who \in past[i]
                      /\ req[r].pc = "failed" =>
                            \E i \in req[r].began .. Now : i < Now /\ req[r].who \in past[i] /\ req[r].who \notin past[i + 1]
                      /\ req[r].kind = "remove" /\ req[r].pc = "done" =>
                            \E i \in req[r].began .. Now : req[r].who \notin past[i]
    BY DEF MembershipAnswers
  <2>1. Justified(req[r]) /\ req[r].began \in Nat /\ Now \in Nat
    BY AskedNow
  <2>2. \A i \in 1 .. Now : req[r].began <= i => i \in req[r].began .. Now
    BY <2>1
  <2> QED BY <2>1, <2>2 DEF Justified
<1> QED BY <1>1, ViewInvariance, PTL

\* Short of an overlap nothing a client has shown is replaced by something older.
THEOREM ViewNeverGoesBack == Spec => ViewMovesForward
<1>1. VInv /\ [Next]_vars => [\A k \in Registers \ excused' : view'[k] >= view[k]]_vars
  <2> SUFFICES ASSUME VInv, Next, NEW k \in Registers \ excused' PROVE view'[k] >= view[k]
    OBVIOUS
  <2>1. k \in Registers \ excused
    BY DEF Next
  <2>2. Apart(k) /\ Newest(k) /\ Ordered(k) /\ view \in [Registers -> Nat] /\ view[k] \in Nat /\ view[k] <= Version(k)
    BY <2>1 DEF VInv, InvView, Typed, Bounded
  <2>3. CASE Receive
    <3>1. view'[k] = IF 1 \in Coming(k) THEN channel[1].n ELSE view[k]
      BY <2>1, <2>3, ReceiveShows
    <3>2. 1 \in Coming(k) => view[k] <= channel[1].n /\ channel[1].n \in Nat
      BY <2>1, <2>2 DEF Ordered, Coming, VInv, Bounded
    <3> QED BY <2>2, <3>1, <3>2
  <2>4. CASE \E o \in Registers : FetchArrives(o)
    <3>1. PICK o \in Registers : FetchArrives(o)
      BY <2>4
    <3>2. fetch[o].pc = "read" /\ view' = [view EXCEPT ![o] = fetch[o].n]
      BY <3>1 DEF FetchArrives, Shows
    <3>3. k = o => fetch[o].n = Version(k)
      BY <2>2, <3>2 DEF Newest
    <3>4. Version(k) \in Nat
      BY <2>1, VersionTyped DEF VInv
    <3> QED BY <2>1, <2>2, <3>2, <3>3, <3>4
  <2>5. CASE ~Receive /\ ~\E o \in Registers : FetchArrives(o)
    <3>1. view' = view
      BY <2>5 DEF Next, Serve, InsertMember, SelectMember, DeleteMember, ListMembers, PatchThread, BroadcastChange,
                  Gate, ServeFetch, FetchFails, ServeJoin, EnterRoom, Acknowledge, Mount, Unmount, client
    <3> QED BY <2>2, <3>1
  <2> QED BY <2>3, <2>4, <2>5
<1> QED BY <1>1, ViewInvariance, PTL DEF Spec, ViewMovesForward
=============================================================================
