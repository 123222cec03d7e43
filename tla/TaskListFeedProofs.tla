------------------------- MODULE TaskListFeedProofs -------------------------
(* A device never shows less than its revision says, and is current when all *)
(* is quiet: for any number of Tasks, processes and changes.                 *)
EXTENDS TaskListFeed, FiniteSetTheorems, SequenceTheorems, TLAPS

Changed == [task : Tasks, to : {"active", "inactive", "deleted"}]
Message == [from : Nat, to : Nat, reset : BOOLEAN]

-----------------------------------------------------------------------------
(* Types *)

\* Putting a message at the end of the pipes, and taking the first one.
LEMMA PipeTypes ==
    ASSUME NEW f \in [Processes -> Seq(Message)], NEW p \in Processes, NEW e \in Message
    PROVE  /\ [f EXCEPT ![p] = Append(@, e)] \in [Processes -> Seq(Message)]
           /\ f[p] # <<>> => /\ [f EXCEPT ![p] = Tail(@)] \in [Processes -> Seq(Message)]
                            /\ Head(f[p]) \in Message
<1>1. f[p] \in Seq(Message)
  OBVIOUS
<1>2. Append(f[p], e) \in Seq(Message)
  BY <1>1
<1>3. f[p] # <<>> => Tail(f[p]) \in Seq(Message) /\ Head(f[p]) \in Message
  BY <1>1
<1> QED
  BY <1>2, <1>3

LEMMA EmitType ==
    ASSUME FeedTypes, NEW p \in Processes, NEW e \in Message, Emit(p, e)
    PROVE  pipe' \in [Processes -> Seq(Message)]
<1>1. pipe \in [Processes -> Seq(Message)]
  BY DEF FeedTypes, Message
<1> QED
  BY <1>1, PipeTypes DEF Emit

LEMMA EnvelopeTypes ==
    ASSUME NEW m \in Nat, NEW n \in Nat
    PROVE  Envelope(m, n) \in Message /\ Reset(m, n) \in Message
BY DEF Envelope, Reset, Message

LEMMA TwoMax ==
    ASSUME NEW m \in Nat, NEW n \in Nat
    PROVE  Max({m, n}) \in {m, n} /\ Max({m, n}) >= m /\ Max({m, n}) >= n
<1>1. \E x \in {m, n} : \A y \in {m, n} : x >= y
  OBVIOUS
<1> QED
  BY <1>1 DEF Max

\* A nonempty set of revisions has a last one.
LEMMA LastOf ==
    ASSUME NEW n \in Nat, NEW S \in SUBSET (1..n), S # {}
    PROVE  Max(S) \in S /\ Max(S) \in 1..n /\ \A k \in S : k <= Max(S)
<1> DEFINE Above(x) == {y \in S : y >= x}
           B == {U \in SUBSET S : \E x \in S : U = Above(x)}
<1>1. IsFiniteSet(S)
  <2>1. IsFiniteSet(1..n)
    BY FS_Interval
  <2> QED
    BY <2>1, FS_Subset
<1>2. IsWellFoundedOn(StrictSubsetOrdering(S), SUBSET S)
  BY <1>1, FS_StrictSubsetOrderingWellFounded, FS_FiniteSubsetsOfFinite
<1>3. B # {} /\ B \subseteq SUBSET S
  OBVIOUS
<1>4. PICK U \in B : \A V \in B : ~(<<V, U>> \in StrictSubsetOrdering(S))
  <2> HIDE DEF B
  <2> QED
    BY <1>2, <1>3, WFMin
<1>5. PICK x \in S : U = Above(x)
  OBVIOUS
<1>6. \A y \in S : y <= x
  <2> SUFFICES ASSUME NEW y \in S, y > x PROVE FALSE
    OBVIOUS
  <2>1. /\ Above(y) \in B
        /\ Above(y) \subseteq U /\ Above(y) # U
    <3>1. Above(y) \in B
      <4>1. Above(y) \in SUBSET S
        OBVIOUS
      <4> HIDE DEF Above
      <4> QED
        BY <4>1
    <3>2. x \in U /\ x \notin Above(y)
      BY <1>5
    <3>3. ASSUME NEW z \in S, z >= y PROVE z >= x
      <4>1. x \in Nat /\ y \in Nat /\ z \in Nat
        OBVIOUS
      <4> QED
        BY <3>3, <4>1
    <3>4. Above(y) \subseteq U
      BY <1>5, <3>3
    <3> HIDE DEF Above, B
    <3> QED
      BY <3>1, <3>2, <3>4
  <2>2. Above(y) \in SUBSET S /\ U \in SUBSET S
    BY <1>5
  <2> HIDE DEF B, Above
  <2>3. <<Above(y), U>> \in StrictSubsetOrdering(S)
    BY <2>1, <2>2 DEF StrictSubsetOrdering
  <2> QED
    BY <1>4, <2>1, <2>3
<1>7. \E z \in S : \A y \in S : z >= y
  BY <1>6
<1> QED
  BY <1>7 DEF Max

\* The types, part by part.
Reading == [at : {"idle", "counted", "rows"}, from : Nat, to : Nat]
Recovery == [at : {"idle", "asked", "read"}, target : Nat, got : Nat]
Load == [at : {"idle", "asked", "read"}, got : Nat, again : BOOLEAN]
Link == [to : Processes \cup {Unknown}, prime : Nat \cup {Unknown}, ready : BOOLEAN]

LogTypes == changes \in Seq(Changed) /\ due \in [Processes -> Nat]
MarkTypes == marks \in [Processes -> Nat \cup {Unknown}]
ReadingTypes == reading \in [Processes -> Reading]
MessageTypes == pipe \in [Processes -> Seq(Message)]
LinkTypes == link \in Link
ViewTypes ==
    /\ revision \in Nat \cup {Unknown}
    /\ view \in [Tasks -> Nat] /\ overlay \in [Tasks -> Nat] /\ fresh \in SUBSET Tasks
LoadTypes == recovery \in Recovery /\ load \in Load
CountTypes == missed \in BOOLEAN /\ loads \in Nat /\ mishaps \in Nat

Typed ==
    /\ LogTypes /\ MarkTypes /\ ReadingTypes /\ MessageTypes /\ LinkTypes
    /\ ViewTypes /\ LoadTypes /\ CountTypes

\* The parts make up the specification's type invariant.
LEMMA TypeParts == (FeedTypes <=> Typed) /\ (FeedTypes' <=> Typed')
BY DEF Typed, FeedTypes, LogTypes, MarkTypes, ReadingTypes, MessageTypes, LinkTypes, ViewTypes,
       LoadTypes, CountTypes, Reading, Recovery, Load, Link, Changed, Message

\* What a revision of the database holds.
LEMMA ContentsType == \A n \in Nat : Contents(n) \in [Tasks -> Nat]
<1> SUFFICES ASSUME NEW n \in Nat, NEW t \in Tasks PROVE Contents(n)[t] \in Nat
  BY DEF Contents
<1> DEFINE past == ChangesOf(t, 0, n)
<1>1. past \in SUBSET (1..n)
  BY DEF ChangesOf
<1>2. past # {} => Max(past) \in Nat
  <2> HIDE DEF past
  <2> QED
    BY <1>1, LastOf
<1>3. Contents(n)[t] = IF past = {} \/ changes[Max(past)].to # "active" THEN 0 ELSE Max(past)
  BY DEF Contents
<1> QED
  BY <1>2, <1>3

\* Applying changes keeps the types of what the device shows.
LEMMA ApplyTypes ==
    ASSUME ViewTypes, NEW from \in Nat, NEW to \in Nat, ApplyChanges(from, to)
    PROVE  ViewTypes'
<1> DEFINE touched == {t \in Tasks : ChangesOf(t, from, to) # {}}
           kept(t) == {k \in ChangesOf(t, from, to) : changes[k].to # "deleted"}
           known == {t \in touched : kept(t) # {}}
           value == [t \in known |-> Contents(Max(kept(t)))[t]]
<1>1. Contents(to) \in [Tasks -> Nat]
  BY ContentsType
<1>2. ASSUME NEW t \in known PROVE value[t] \in Nat
  <2>1. kept(t) \in SUBSET (1..to) /\ kept(t) # {} /\ t \in Tasks
    BY DEF ChangesOf
  <2>2. Max(kept(t)) \in Nat
    <3> HIDE DEF kept, known, value
    <3> QED
      BY <2>1, LastOf
  <2>3. Contents(Max(kept(t))) \in [Tasks -> Nat]
    BY <2>2, ContentsType
  <2> QED
    BY <2>1, <2>3
<1>3. /\ view' = [t \in Tasks |-> IF t \in touched THEN Contents(to)[t] ELSE view[t]]
      /\ Record(known, value) /\ revision' = to
  BY DEF ApplyChanges
<1>4. known \subseteq Tasks
  OBVIOUS
<1> HIDE DEF touched, known, value
<1>5. view' \in [Tasks -> Nat]
  BY <1>1, <1>3 DEF ViewTypes
<1>6. overlay' \in [Tasks -> Nat] /\ fresh' \in SUBSET Tasks
  BY <1>2, <1>3, <1>4 DEF ViewTypes, Record
<1> QED
  BY <1>3, <1>5, <1>6 DEF ViewTypes

\* Every variable keeps its type.
THEOREM FeedTyped == FeedSpec => []FeedTypes
<1>1. FeedInit => FeedTypes
  <2> SUFFICES ASSUME FeedInit PROVE FeedTypes
    OBVIOUS
  <2>1. LogTypes /\ MessageTypes
    <3>1. <<>> \in Seq(Changed) /\ <<>> \in Seq(Message)
      BY EmptySeq
    <3> QED
      BY <3>1 DEF FeedInit, LogTypes, MessageTypes, Silent
  <2>2. MarkTypes /\ LinkTypes
    BY DEF FeedInit, MarkTypes, LinkTypes, NoLink, Link
  <2>4. ReadingTypes
    <3>1. Resting \in Reading
      BY DEF Resting, Reading
    <3> QED
      BY <3>1 DEF FeedInit, ReadingTypes
  <2>3. ViewTypes /\ LoadTypes /\ CountTypes
    BY DEF FeedInit, ViewTypes, LoadTypes, CountTypes, Recovery, Load
  <2> QED
    BY <2>1, <2>2, <2>3, <2>4, TypeParts DEF Typed
<1>2. FeedTypes /\ [FeedNext]_feedVars => FeedTypes'
  <2> SUFFICES ASSUME FeedTypes, [FeedNext]_feedVars
               PROVE  Typed'
    BY TypeParts
  <2> USE DEF Typed
  <2>0. Typed /\ Counter \in Nat /\ Resting \in Reading /\ NoLink \in Link
        /\ Silent \in [Processes -> Seq(Message)]
    <3>1. <<>> \in Seq(Message)
      BY EmptySeq
    <3> QED
      BY <3>1, TypeParts DEF LogTypes, Counter, Silent, Resting, Reading, NoLink, Link
  <2> USE DEF serverVars, deviceVars
  <2>1. ASSUME NEW p \in Processes, NEW t \in Tasks, NEW to \in {"active", "inactive", "deleted"},
               Change(p, t, to)
        PROVE  Typed'
    <3>1. Append(changes, [task |-> t, to |-> to]) \in Seq(Changed)
      BY <2>0 DEF LogTypes, Changed
    <3>2. LogTypes'
      BY <2>0, <2>1, <3>1 DEF LogTypes, Change
    <3> QED
      BY <2>0, <2>1, <3>2 DEF Change, MarkTypes, ReadingTypes, MessageTypes, LinkTypes, ViewTypes,
                              LoadTypes, CountTypes
  <2>2. ASSUME NEW p \in Processes, ReadCounter(p) PROVE Typed'
    <3>1. [Resting EXCEPT !.at = "counted", !.to = Counter] \in Reading
      BY <2>0 DEF Resting, Reading
    <3>2. LogTypes'
      BY <2>0, <2>2 DEF ReadCounter, LogTypes
    <3>3. ReadingTypes'
      BY <2>0, <2>2, <3>1 DEF ReadCounter, ReadingTypes
    <3> QED
      BY <2>0, <2>2, <3>2, <3>3 DEF ReadCounter, MarkTypes, MessageTypes, LinkTypes, ViewTypes,
                                    LoadTypes, CountTypes
  <2>3. ASSUME NEW p \in Processes, Compare(p) PROVE Typed'
    <3>1. reading[p] \in Reading /\ reading[p].to \in Nat
      BY <2>0 DEF ReadingTypes, Reading
    <3>2. marks[p] # Unknown => /\ marks[p] \in Nat
                                /\ [reading[p] EXCEPT !.at = "rows", !.from = marks[p]] \in Reading
      BY <2>0, <3>1 DEF MarkTypes, Reading
    <3>3. MarkTypes' /\ ReadingTypes'
      BY <2>0, <2>3, <3>1, <3>2 DEF Compare, MarkTypes, ReadingTypes
    <3>4. MessageTypes'
      BY <2>0, <2>3, <3>1, <3>2, EmitType, EnvelopeTypes DEF Compare, MessageTypes
    <3> QED
      BY <2>0, <2>3, <3>3, <3>4 DEF Compare, LogTypes, LinkTypes, ViewTypes, LoadTypes, CountTypes
  <2>4. ASSUME NEW p \in Processes, ReadRows(p) PROVE Typed'
    <3>1. reading[p].to \in Nat /\ reading[p].from \in Nat
      BY <2>0 DEF ReadingTypes, Reading
    <3>2. MessageTypes'
      BY <2>4, <3>1, EmitType, EnvelopeTypes DEF ReadRows, MessageTypes
    <3>3. MarkTypes' /\ ReadingTypes'
      BY <2>0, <2>4, <3>1 DEF ReadRows, MarkTypes, ReadingTypes
    <3> QED
      BY <2>0, <2>4, <3>2, <3>3 DEF ReadRows, LogTypes, LinkTypes, ViewTypes, LoadTypes, CountTypes
  <2>5. ASSUME NEW p \in Processes, ReadFails(p) PROVE Typed'
    <3>1. MessageTypes'
      BY <2>5, EmitType, EnvelopeTypes DEF ReadFails, MessageTypes
    <3>2. ReadingTypes' /\ CountTypes'
      BY <2>0, <2>5 DEF ReadFails, ReadingTypes, CountTypes
    <3>3. reading[p].to \in Nat
      BY <2>0 DEF ReadingTypes, Reading
    <3>4. MarkTypes'
      BY <2>0, <2>5, <3>3 DEF ReadFails, MarkTypes
    <3> QED
      BY <2>0, <2>5, <3>1, <3>2, <3>4 DEF ReadFails, LogTypes, LinkTypes, ViewTypes, LoadTypes
  <2>6. ASSUME NEW p \in Processes, Connect(p) PROVE Typed'
    <3>1. LinkTypes'
      BY <2>6 DEF Connect, NoLink, LinkTypes, Link
    <3> QED
      BY <2>0, <2>6, <3>1 DEF Connect, LogTypes, MarkTypes, ReadingTypes, MessageTypes, ViewTypes,
                              LoadTypes, CountTypes
  <2>7. ASSUME NEW p \in Processes, Restart(p) PROVE Typed'
    <3>1. MarkTypes' /\ ReadingTypes'
      BY <2>0, <2>7 DEF Restart, MarkTypes, ReadingTypes
    <3>2. MessageTypes' /\ LinkTypes'
      BY <2>0, <2>7 DEF Restart, MessageTypes, LinkTypes
    <3>3. LogTypes'
      BY <2>0, <2>7 DEF Restart, LogTypes
    <3>4. CountTypes'
      BY <2>0, <2>7 DEF Restart, CountTypes
    <3> QED
      BY <2>0, <2>7, <3>1, <3>2, <3>3, <3>4 DEF Restart, ViewTypes, LoadTypes
  <2>8. ASSUME NEW p \in Processes, Deliver(p) PROVE Typed'
    <3> DEFINE e == Head(pipe[p])
    <3>1. e \in Message /\ e.to \in Nat /\ e.from \in Nat /\ MessageTypes'
      <4>1. e \in Message
        BY <2>0, <2>8, EnvelopeTypes, PipeTypes DEF Deliver, MessageTypes
      <4> QED
        BY <2>0, <2>8, <4>1, PipeTypes DEF Deliver, MessageTypes, Message
    <3>2. LoadTypes'
      <4>1. recovery.target \in Nat /\ recovery \in Recovery
        BY <2>0 DEF LoadTypes, Recovery
      <4>2. Max({recovery.target, e.to}) \in Nat
        BY <3>1, <4>1, TwoMax
      <4>3. AskSnapshot(e.to) => recovery' \in Recovery
        BY <4>1, <4>2 DEF AskSnapshot, Recovery
      <4> QED
        BY <2>0, <2>8, <4>3 DEF Deliver, LoadTypes
    <3>3. ViewTypes'
      <4>1. CASE Follows(e) /\ ApplyChanges(e.from, e.to)
        BY <2>0, <3>1, <4>1, ApplyTypes
      <4>2. CASE UNCHANGED <<revision, view, overlay, fresh>>
        BY <2>0, <4>2 DEF ViewTypes
      <4> QED
        BY <2>8, <4>1, <4>2 DEF Deliver
    <3>4. CountTypes'
      BY <2>0, <2>8 DEF Deliver, CountTypes
    <3> QED
      BY <2>0, <2>8, <3>1, <3>2, <3>3, <3>4 DEF Deliver, LogTypes, MarkTypes, ReadingTypes, LinkTypes
  <2>9. CASE PrimeRead
    <3>1. LinkTypes'
      BY <2>0, <2>9 DEF PrimeRead, LinkTypes, Link
    <3> QED
      BY <2>0, <2>9, <3>1 DEF PrimeRead, LogTypes, MarkTypes, ReadingTypes, MessageTypes, ViewTypes,
                              LoadTypes, CountTypes
  <2>10. CASE PrimeSet
    <3>1. link.prime \in Nat /\ link.to \in Processes \cup {Unknown}
      BY <2>0, <2>10 DEF PrimeSet, LinkTypes, Link
    <3>2. MarkTypes'
      BY <2>0, <2>10, <3>1 DEF PrimeSet, MarkTypes
    <3>3. MessageTypes'
      <4>1. CASE link.to = Unknown
        BY <2>0, <2>10, <4>1 DEF PrimeSet, Emit, MessageTypes
      <4>2. CASE link.to \in Processes
        BY <2>10, <3>1, <4>2, EmitType, EnvelopeTypes DEF PrimeSet, MessageTypes
      <4> QED
        BY <3>1, <4>1, <4>2
    <3>4. LinkTypes'
      BY <2>0, <2>10 DEF PrimeSet, LinkTypes, Link
    <3> QED
      BY <2>0, <2>10, <3>2, <3>3, <3>4 DEF PrimeSet, LogTypes, ReadingTypes, ViewTypes, LoadTypes,
                                           CountTypes
  <2>11. CASE DropLink
    BY <2>0, <2>11 DEF DropLink, LogTypes, MarkTypes, ReadingTypes, MessageTypes, LinkTypes,
                       ViewTypes, LoadTypes, CountTypes
  <2>12. CASE SnapshotRead
    <3>1. LoadTypes'
      BY <2>0, <2>12 DEF SnapshotRead, LoadTypes, Recovery
    <3> QED
      BY <2>0, <2>12, <3>1 DEF SnapshotRead, LogTypes, MarkTypes, ReadingTypes, MessageTypes,
                               LinkTypes, ViewTypes, CountTypes
  <2>13. CASE SnapshotApplied
    <3>1. recovery.got \in Nat /\ Contents(recovery.got) \in [Tasks -> Nat]
      BY <2>0, ContentsType DEF LoadTypes, Recovery
    <3>2. ViewTypes'
      BY <2>0, <2>13, <3>1 DEF SnapshotApplied, ViewTypes
    <3>3. LoadTypes'
      BY <2>0, <2>13 DEF SnapshotApplied, LoadTypes, Recovery
    <3> QED
      BY <2>0, <2>13, <3>2, <3>3 DEF SnapshotApplied, LogTypes, MarkTypes, ReadingTypes,
                                     MessageTypes, LinkTypes, CountTypes
  <2>14. CASE SnapshotFails
    <3>1. LoadTypes'
      BY <2>0, <2>14 DEF SnapshotFails, LoadTypes, Recovery, Load, BeginLoad
    <3>2. ViewTypes'
      BY <2>0, <2>14 DEF SnapshotFails, ViewTypes
    <3> QED
      BY <2>0, <2>14, <3>1, <3>2 DEF SnapshotFails, LogTypes, MarkTypes, ReadingTypes,
                                     MessageTypes, LinkTypes, CountTypes
  <2>15. CASE OpenPage
    <3>1. LoadTypes' /\ ViewTypes'
      BY <2>0, <2>15 DEF OpenPage, LoadTypes, Load, ViewTypes
    <3> QED
      BY <2>0, <2>15, <3>1 DEF OpenPage, LogTypes, MarkTypes, ReadingTypes, MessageTypes,
                               LinkTypes, CountTypes
  <2>16. CASE ListRead
    <3>1. LoadTypes'
      BY <2>0, <2>16 DEF ListRead, LoadTypes, Load
    <3> QED
      BY <2>0, <2>16, <3>1 DEF ListRead, LogTypes, MarkTypes, ReadingTypes, MessageTypes,
                               LinkTypes, ViewTypes, CountTypes
  <2>17. CASE ListApplied
    <3>1. Contents(load.got) \in [Tasks -> Nat]
      BY <2>0, ContentsType DEF LoadTypes, Load
    <3>2. ViewTypes'
      BY <2>0, <2>17, <3>1 DEF ListApplied, ViewTypes
    <3>3. LoadTypes'
      BY <2>0, <2>17 DEF ListApplied, NextLoad, LoadTypes, Load
    <3> QED
      BY <2>0, <2>17, <3>2, <3>3 DEF ListApplied, LogTypes, MarkTypes, ReadingTypes, MessageTypes,
                                     LinkTypes, CountTypes
  <2>18. CASE ListFails
    <3>1. LoadTypes' /\ ViewTypes'
      BY <2>0, <2>18 DEF ListFails, NextLoad, LoadTypes, Load, ViewTypes
    <3> QED
      BY <2>0, <2>18, <3>1 DEF ListFails, LogTypes, MarkTypes, ReadingTypes, MessageTypes,
                               LinkTypes, CountTypes
  <2>19. CASE UNCHANGED feedVars
    BY <2>0, <2>19 DEF feedVars, LogTypes, MarkTypes, ReadingTypes, MessageTypes, LinkTypes,
                       ViewTypes, LoadTypes, CountTypes
  <2> QED
    BY <2>1, <2>2, <2>3, <2>4, <2>5, <2>6, <2>7, <2>8, <2>9, <2>10, <2>11, <2>12, <2>13, <2>14,
       <2>15, <2>16, <2>17, <2>18, <2>19 DEF FeedNext
<1> QED
  BY <1>1, <1>2, PTL DEF FeedSpec

-----------------------------------------------------------------------------
(* What a log of changes holds *)

Touches(c, t, from, to) == {k \in (from + 1)..to : c[k].task = t}

Held(c, n, t) ==
    LET past == Touches(c, t, 0, n)
    IN  IF past = {} \/ c[Max(past)].to # "active" THEN 0 ELSE Max(past)

\* v is what revision n or a later one holds of t, if revision n has it at all.
Shown(c, v, n, t) == Held(c, n, t) # 0 => \E k \in n..Len(c) : v = Held(c, k, t)

\* The specification's operators are these, of the log as it stands.
LEMMA Logged ==
    /\ \A n \in Nat, t \in Tasks : Contents(n)[t] = Held(changes, n, t)
    /\ \A t, from, to : ChangesOf(t, from, to) = Touches(changes, t, from, to)
BY DEF Contents, ChangesOf, Held, Touches

\* A Task nobody changes in between is held as it was.
LEMMA HeldSame ==
    ASSUME NEW c, NEW t, NEW m \in Nat, NEW n \in Nat, m <= n, Touches(c, t, m, n) = {}
    PROVE  Held(c, m, t) = Held(c, n, t)
<1>1. \A k \in 1..n : k \in 1..m \/ k \in (m + 1)..n
  OBVIOUS
<1>2. Touches(c, t, 0, m) = Touches(c, t, 0, n)
  BY <1>1 DEF Touches
<1> QED
  BY <1>2 DEF Held

\* What comes after a revision does not change what it holds.
LEMMA HeldGrown ==
    ASSUME NEW c \in Seq(Changed), NEW x \in Changed, NEW t, NEW n \in Nat, n <= Len(c)
    PROVE  Held(Append(c, x), n, t) = Held(c, n, t)
<1> DEFINE d == Append(c, x)
           past == Touches(c, t, 0, n)
<1>1. \A k \in 1..n : d[k] = c[k]
  OBVIOUS
<1>2. Touches(d, t, 0, n) = past
  BY <1>1 DEF Touches
<1>3. past # {} => Max(past) \in 1..n
  <2>1. past \in SUBSET (1..n)
    BY DEF Touches
  <2> HIDE DEF past
  <2> QED
    BY <2>1, LastOf
<1> HIDE DEF d
<1>4. Held(d, n, t) = IF past = {} \/ d[Max(past)].to # "active" THEN 0 ELSE Max(past)
  BY <1>2 DEF Held
<1> QED
  BY <1>1, <1>3, <1>4 DEF Held, d

LEMMA ShownGrown ==
    ASSUME NEW c \in Seq(Changed), NEW x \in Changed, NEW t, NEW v, NEW n \in Nat, n <= Len(c),
           Shown(c, v, n, t)
    PROVE  Shown(Append(c, x), v, n, t)
<1>1. Len(Append(c, x)) = Len(c) + 1 /\ Len(c) \in Nat
  OBVIOUS
<1>2. \A k \in n..Len(c) : Held(Append(c, x), k, t) = Held(c, k, t)
  BY HeldGrown
<1>3. Held(Append(c, x), n, t) = Held(c, n, t)
  BY HeldGrown
<1> QED
  BY <1>1, <1>2, <1>3 DEF Shown

\* What is shown at one revision still is at the next one, unless it changed.
LEMMA ShownLater ==
    ASSUME NEW c \in Seq(Changed), NEW t, NEW v, NEW m \in Nat, NEW n \in Nat, m <= n, n <= Len(c),
           Touches(c, t, m, n) = {}, Shown(c, v, m, t)
    PROVE  Shown(c, v, n, t)
<1> SUFFICES ASSUME Held(c, n, t) # 0 PROVE \E k \in n..Len(c) : v = Held(c, k, t)
  BY DEF Shown
<1>1. Held(c, m, t) = Held(c, n, t)
  BY HeldSame
<1>2. PICK k \in m..Len(c) : v = Held(c, k, t)
  BY <1>1 DEF Shown
<1>3. CASE k >= n
  BY <1>2, <1>3
<1>4. CASE k < n
  <2>1. Touches(c, t, k, n) = {} /\ k \in Nat
    BY <1>4 DEF Touches
  <2>2. v = Held(c, n, t)
    BY <1>2, <1>4, <2>1, HeldSame
  <2> QED
    BY <2>2
<1> QED
  BY <1>3, <1>4

LEMMA ShownNow ==
    ASSUME NEW c \in Seq(Changed), NEW t, NEW n \in Nat, NEW k \in n..Len(c)
    PROVE  Shown(c, Held(c, k, t), n, t)
BY DEF Shown

\* Of the changes to a Task that is there in the end, the last one is kept.
LEMMA LastKept ==
    ASSUME NEW c \in Seq(Changed), NEW t, NEW m \in Nat, NEW n \in Nat, n <= Len(c),
           Touches(c, t, m, n) # {}, Held(c, n, t) # 0,
           NEW kept, kept = {k \in Touches(c, t, m, n) : c[k].to # "deleted"}
    PROVE  kept # {} /\ Max(kept) \in Nat /\ Held(c, Max(kept), t) = Held(c, n, t)
<1> DEFINE past == Touches(c, t, 0, n)
           last == Max(past)
<1>1. past \in SUBSET (1..n) /\ past # {} /\ c[last].to = "active" /\ Held(c, n, t) = last
  BY DEF Held, Touches
<1>2. last \in past /\ last \in 1..n /\ \A k \in past : k <= last
  <2> HIDE DEF past
  <2> QED
    BY <1>1, LastOf
<1>3. last \in Touches(c, t, m, n)
  <2>1. PICK k \in Touches(c, t, m, n) : TRUE
    OBVIOUS
  <2>2. k \in past /\ k >= m + 1 /\ k \in Nat
    BY <2>1 DEF Touches
  <2>3. last >= m + 1 /\ c[last].task = t
    BY <1>2, <2>2 DEF Touches
  <2> HIDE DEF last
  <2> QED
    BY <1>2, <2>3 DEF Touches
<1>4. last \in kept /\ kept \in SUBSET past
  <2>1. last \in kept
    BY <1>1, <1>3
  <2>2. kept \in SUBSET past
    BY DEF Touches
  <2> QED
    BY <2>1, <2>2
<1> HIDE DEF past
<1>5. Max(kept) \in kept /\ Max(kept) \in 1..n /\ \A k \in kept : k <= Max(kept)
  BY <1>1, <1>4, LastOf
<1>6. Max(kept) = last
  <2>1. last <= Max(kept) /\ Max(kept) <= last
    BY <1>2, <1>4, <1>5
  <2> HIDE DEF last
  <2> QED
    BY <1>2, <1>5, <2>1
<1>7. Held(c, last, t) = last
  <2> DEFINE old == Touches(c, t, 0, last)
  <2>0. last \in 1..n /\ c[last].task = t
    BY <1>2 DEF Touches, past
  <2>1. old \in SUBSET (1..last) /\ last \in old
    <3> HIDE DEF last
    <3> QED
      BY <2>0 DEF Touches
  <2>2. Max(old) \in 1..last /\ last <= Max(old)
    <3> HIDE DEF old, last
    <3> QED
      BY <1>2, <2>1, LastOf
  <2>3. Max(old) = last
    BY <1>2, <2>2
  <2> HIDE DEF last
  <2> QED
    BY <1>1, <1>2, <2>1, <2>3 DEF Held
<1> QED
  BY <1>1, <1>4, <1>5, <1>6, <1>7

-----------------------------------------------------------------------------
(* The inductive invariant of NeverBehind *)

\* No revision anybody has read, sent or shown is one the database has not
\* reached, and a batch of rows leads forward.
MarksPast == \A p \in Processes : marks[p] # Unknown => marks[p] <= Counter

ReadingPast ==
    \A p \in Processes :
        /\ reading[p].to <= Counter
        /\ reading[p].at = "rows" => reading[p].from <= reading[p].to

Sound(e, n) == e.to <= n /\ (~e.reset => e.from <= e.to)
PipePast == \A p \in Processes : \A i \in 1..Len(pipe[p]) : Sound(pipe[p][i], Counter)

LinkPast == link.prime # Unknown => link.prime <= Counter

DevicePast ==
    /\ revision # Unknown => revision <= Counter
    /\ recovery.got <= Counter /\ recovery.target <= Counter /\ load.got <= Counter

Past == MarksPast /\ ReadingPast /\ PipePast /\ LinkPast /\ DevicePast

\* What the device shows, what it keeps for the list answer under way, and that
\* answer, where nothing newer stands beside it, are all up to its revision.
UpToDate ==
    revision # Unknown =>
        \A t \in Tasks :
            /\ Shown(changes, view[t], revision, t)
            /\ t \in fresh => Shown(changes, overlay[t], revision, t)
            /\ load.at = "read" /\ t \notin fresh =>
                   Shown(changes, Held(changes, load.got, t), revision, t)

FeedInv == FeedTypes /\ Past /\ UpToDate

\* Pipes without messages.
LEMMA SilentItems == \A q \in Processes : Silent[q] = <<>> /\ 1..Len(Silent[q]) = {}
BY DEF Silent

\* The messages of a pipe after one is put in it, and after the first is taken.
LEMMA PipeItems ==
    ASSUME NEW s \in Seq(Message), NEW e \in Message
    PROVE  /\ Len(s) \in Nat /\ Len(Append(s, e)) = Len(s) + 1
           /\ \A i \in 1..Len(s) : Append(s, e)[i] = s[i]
           /\ Append(s, e)[Len(s) + 1] = e
           /\ s # <<>> => /\ Len(s) > 0 /\ Head(s) = s[1] /\ Len(Tail(s)) = Len(s) - 1
                          /\ \A i \in 1..Len(Tail(s)) : Tail(s)[i] = s[i + 1]
OBVIOUS

LEMMA EmitSound ==
    ASSUME FeedTypes, PipePast, NEW p \in Processes, NEW e \in Message, Emit(p, e),
           UNCHANGED changes, Sound(e, Counter)
    PROVE  PipePast'
<1>1. CASE link.to = Unknown
  BY <1>1 DEF Emit, PipePast, Counter
<1>2. CASE link.to # Unknown
  <2> SUFFICES ASSUME NEW q \in Processes, NEW i \in 1..Len(pipe'[q])
               PROVE  Sound(pipe'[q][i], Counter)
    BY DEF PipePast, Counter
  <2>1. pipe \in [Processes -> Seq(Message)] /\ pipe[p] \in Seq(Message)
    BY DEF FeedTypes, Message
  <2>2. pipe' = [pipe EXCEPT ![p] = Append(@, e)]
    BY <1>2 DEF Emit
  <2>3. CASE q = p
    <3>1. pipe'[q] = Append(pipe[p], e)
      BY <2>1, <2>2, <2>3
    <3>2. i \in 1..Len(pipe[p]) \/ i = Len(pipe[p]) + 1
      BY <2>1, <3>1, PipeItems
    <3> QED
      BY <2>1, <3>1, <3>2, PipeItems DEF PipePast
  <2>4. CASE q # p
    <3>1. pipe'[q] = pipe[q]
      BY <2>1, <2>2, <2>4
    <3> QED
      BY <3>1 DEF PipePast
  <2> QED
    BY <2>3, <2>4
<1> QED
  BY <1>1, <1>2

\* The message a device takes is sound, and so are those that stay.
LEMMA DeliverSound ==
    ASSUME FeedTypes, PipePast, NEW p \in Processes, Deliver(p)
    PROVE  /\ Head(pipe[p]) \in Message /\ Sound(Head(pipe[p]), Counter)
           /\ PipePast'
<1>1. pipe \in [Processes -> Seq(Message)] /\ pipe[p] \in Seq(Message) /\ pipe[p] # <<>>
  BY DEF FeedTypes, Message, Deliver
<1>2. pipe' = [pipe EXCEPT ![p] = Tail(@)] /\ Counter' = Counter
  BY DEF Deliver, serverVars, Counter
<1>3. Envelope(0, 0) \in Message
  BY EnvelopeTypes
<1>4. Head(pipe[p]) \in Message
  BY <1>1
<1>5. Sound(Head(pipe[p]), Counter)
  <2>1. Len(pipe[p]) > 0 /\ Head(pipe[p]) = pipe[p][1] /\ Len(pipe[p]) \in Nat
    BY <1>1, <1>3, PipeItems
  <2>2. 1 \in 1..Len(pipe[p])
    BY <2>1
  <2> QED
    BY <2>1, <2>2 DEF PipePast
<1>6. PipePast'
  <2> SUFFICES ASSUME NEW q \in Processes, NEW i \in 1..Len(pipe'[q])
               PROVE  Sound(pipe'[q][i], Counter)
    BY <1>2 DEF PipePast
  <2>1. CASE q = p
    <3>1. pipe'[q] = Tail(pipe[p])
      BY <1>1, <1>2, <2>1
    <3>2. i + 1 \in 1..Len(pipe[p]) /\ pipe'[q][i] = pipe[p][i + 1]
      <4>1. Len(Tail(pipe[p])) = Len(pipe[p]) - 1 /\ Len(pipe[p]) \in Nat
            /\ \A j \in 1..Len(Tail(pipe[p])) : Tail(pipe[p])[j] = pipe[p][j + 1]
        BY <1>1, <1>3, PipeItems
      <4> QED
        BY <3>1, <4>1
    <3> QED
      BY <3>2 DEF PipePast
  <2>2. CASE q # p
    <3>1. pipe'[q] = pipe[q]
      BY <1>1, <1>2, <2>2
    <3> QED
      BY <3>1 DEF PipePast
  <2> QED
    BY <2>1, <2>2
<1> QED
  BY <1>4, <1>5, <1>6

\* No step reads, sends or shows a revision the database has not reached.
LEMMA PastKept == FeedTypes /\ Past /\ [FeedNext]_feedVars => Past'
<1> DEFINE Parts == MarksPast /\ ReadingPast /\ PipePast /\ LinkPast /\ DevicePast
<1> SUFFICES ASSUME FeedTypes, Past, [FeedNext]_feedVars PROVE Parts'
  BY DEF Past
<1>0. Parts /\ FeedTypes /\ Typed
  BY TypeParts DEF Past, Typed
<1>00. Counter \in Nat /\ (UNCHANGED changes => Counter' = Counter)
  BY <1>0 DEF Typed, LogTypes, Counter
<1> USE DEF serverVars, deviceVars
<1>1. ASSUME NEW p \in Processes, NEW t \in Tasks, NEW to \in {"active", "inactive", "deleted"},
             Change(p, t, to)
      PROVE  Parts'
  <2>1. Counter' = Counter + 1
    BY <1>0, <1>1 DEF Typed, LogTypes, Change, Counter, Changed
  <2>2. MarksPast'
    BY <1>0, <1>00, <1>1, <2>1 DEF Change, MarksPast, Typed, MarkTypes
  <2>3. ReadingPast'
    BY <1>0, <1>00, <1>1, <2>1 DEF Change, ReadingPast, Typed, ReadingTypes, Reading
  <2>4. PipePast'
    <3> SUFFICES ASSUME NEW q \in Processes, NEW i \in 1..Len(pipe[q])
                 PROVE  Sound(pipe[q][i], Counter')
      BY <1>1 DEF PipePast, Change
    <3>1. pipe[q] \in Seq(Message)
      BY <1>0 DEF Typed, MessageTypes
    <3>2. pipe[q][i] \in Message /\ Sound(pipe[q][i], Counter)
      BY <1>0, <3>1 DEF PipePast
    <3> QED
      BY <1>00, <2>1, <3>2 DEF Sound, Message
  <2>5. LinkPast'
    BY <1>0, <1>00, <1>1, <2>1 DEF Change, LinkPast, Typed, LinkTypes, Link
  <2>6. DevicePast'
    BY <1>0, <1>00, <1>1, <2>1
       DEF Change, DevicePast, Typed, ViewTypes, LoadTypes, Recovery, Load
  <2> QED
    BY <2>2, <2>3, <2>4, <2>5, <2>6
<1>2. ASSUME NEW p \in Processes, ReadCounter(p) PROVE Parts'
  <2>1. ReadingPast'
    BY <1>0, <1>00, <1>2 DEF ReadCounter, ReadingPast, Typed, ReadingTypes, Resting
  <2> QED
    BY <1>0, <1>00, <1>2, <2>1 DEF ReadCounter, MarksPast, PipePast, LinkPast, DevicePast
<1>3. ASSUME NEW p \in Processes, Compare(p) PROVE Parts'
  <2>1. /\ reading[p].to \in Nat /\ reading[p].to <= Counter
        /\ marks[p] # Unknown => marks[p] \in Nat /\ marks[p] <= Counter
    BY <1>0 DEF Typed, ReadingTypes, Reading, MarkTypes, MarksPast, ReadingPast
  <2>2. MarksPast'
    BY <1>0, <1>00, <1>3, <2>1 DEF Compare, MarksPast, Typed, MarkTypes
  <2>3. ReadingPast'
    <3>1. reading[p] \in Reading
      BY <1>0 DEF Typed, ReadingTypes
    <3>2. CASE reading' = [reading EXCEPT ![p] = Resting]
      BY <1>0, <1>00, <1>3, <3>2 DEF Compare, ReadingPast, Typed, ReadingTypes, Resting
    <3>3. CASE /\ marks[p] # Unknown /\ reading[p].to > marks[p]
               /\ reading' = [reading EXCEPT ![p] = [@ EXCEPT !.at = "rows", !.from = marks[p]]]
      <4>1. reading'[p].to = reading[p].to /\ reading'[p].from = marks[p]
        BY <1>0, <3>1, <3>3 DEF Typed, ReadingTypes, Reading
      <4>2. reading'[p].to <= Counter /\ reading'[p].from <= reading'[p].to
        BY <2>1, <3>3, <4>1
      <4>3. \A q \in Processes : q # p => reading'[q] = reading[q]
        BY <1>0, <3>3 DEF Typed, ReadingTypes
      <4> QED
        BY <1>0, <1>00, <1>3, <4>2, <4>3 DEF Compare, ReadingPast
    <3> QED
      BY <1>3, <3>2, <3>3 DEF Compare
  <2>4. PipePast'
    <3>1. CASE Emit(p, Reset(reading[p].to, reading[p].to))
      <4>1. Sound(Reset(reading[p].to, reading[p].to), Counter)
        BY <2>1 DEF Sound, Reset
      <4> QED
        BY <1>0, <1>3, <2>1, <3>1, <4>1, EmitSound, EnvelopeTypes DEF Compare
    <3>2. CASE marks[p] # Unknown /\ Emit(p, Envelope(marks[p], marks[p]))
      <4>1. Sound(Envelope(marks[p], marks[p]), Counter)
        BY <2>1, <3>2 DEF Sound, Envelope
      <4> QED
        BY <1>0, <1>3, <2>1, <3>2, <4>1, EmitSound, EnvelopeTypes DEF Compare
    <3>3. CASE UNCHANGED pipe
      BY <1>0, <1>00, <1>3, <3>3 DEF Compare, PipePast
    <3> QED
      BY <1>3, <3>1, <3>2, <3>3 DEF Compare
  <2> QED
    BY <1>0, <1>00, <1>3, <2>2, <2>3, <2>4 DEF Compare, LinkPast, DevicePast
<1>4. ASSUME NEW p \in Processes, ReadRows(p) PROVE Parts'
  <2> DEFINE from == reading[p].from
             to == reading[p].to
  <2>1. from \in Nat /\ to \in Nat /\ to <= Counter /\ from <= to
    BY <1>0, <1>4 DEF Typed, ReadingTypes, Reading, ReadingPast, ReadRows
  <2>2. MarksPast'
    BY <1>0, <1>00, <1>4, <2>1 DEF ReadRows, MarksPast, Typed, MarkTypes
  <2>3. ReadingPast'
    BY <1>0, <1>00, <1>4 DEF ReadRows, ReadingPast, Typed, ReadingTypes, Resting
  <2>4. PipePast'
    <3>1. Sound(Envelope(from, to), Counter) /\ Sound(Reset(from, to), Counter)
      BY <2>1 DEF Sound, Envelope, Reset
    <3>2. Envelope(from, to) \in Message /\ Reset(from, to) \in Message
      BY <2>1, EnvelopeTypes
    <3>3. Emit(p, Envelope(from, to)) \/ Emit(p, Reset(from, to))
      BY <1>4 DEF ReadRows
    <3>4. UNCHANGED changes
      BY <1>4 DEF ReadRows
    <3> HIDE DEF from, to
    <3> QED
      BY <1>0, <3>1, <3>2, <3>3, <3>4, EmitSound
  <2> QED
    BY <1>0, <1>00, <1>4, <2>2, <2>3, <2>4 DEF ReadRows, LinkPast, DevicePast
<1>5. ASSUME NEW p \in Processes, ReadFails(p) PROVE Parts'
  <2>1. ReadingPast'
    BY <1>0, <1>00, <1>5 DEF ReadFails, ReadingPast, Typed, ReadingTypes, Resting
  <2>2. PipePast'
    <3>1. Sound(Reset(0, 0), Counter) /\ Reset(0, 0) \in Message
      BY <1>00, EnvelopeTypes DEF Sound, Reset
    <3> QED
      BY <1>0, <1>5, <3>1, EmitSound DEF ReadFails
  <2>3. MarksPast'
    <3>1. reading[p].to \in Nat /\ (reading[p].at = "rows" => reading[p].to <= Counter)
      BY <1>0 DEF Typed, ReadingTypes, Reading, ReadingPast
    <3> QED
      BY <1>0, <1>00, <1>5, <3>1 DEF ReadFails, MarksPast, Typed, MarkTypes
  <2> QED
    BY <1>0, <1>00, <1>5, <2>1, <2>2, <2>3 DEF ReadFails, LinkPast, DevicePast
<1>6. ASSUME NEW p \in Processes, Connect(p) PROVE Parts'
  BY <1>0, <1>00, <1>6 DEF Connect, MarksPast, ReadingPast, PipePast, LinkPast, DevicePast, NoLink
<1>7. ASSUME NEW p \in Processes, Restart(p) PROVE Parts'
  <2>1. MarksPast'
    BY <1>0, <1>00, <1>7 DEF Restart, MarksPast, Typed, MarkTypes
  <2>2. ReadingPast'
    BY <1>0, <1>00, <1>7 DEF Restart, ReadingPast, Typed, ReadingTypes, Resting
  <2>3. PipePast' /\ LinkPast'
    BY <1>0, <1>00, <1>7, SilentItems DEF Restart, PipePast, LinkPast, NoLink
  <2> QED
    BY <1>0, <1>00, <1>7, <2>1, <2>2, <2>3 DEF Restart, DevicePast
<1>8. ASSUME NEW p \in Processes, Deliver(p) PROVE Parts'
  <2> DEFINE e == Head(pipe[p])
  <2>1. e \in Message /\ Sound(e, Counter) /\ PipePast'
    BY <1>0, <1>8, DeliverSound
  <2>2. e.to \in Nat /\ e.to <= Counter
    BY <2>1 DEF Message, Sound
  <2>3. DevicePast'
    <3>1. recovery.target \in Nat /\ recovery \in Recovery
      BY <1>0 DEF Typed, LoadTypes, Recovery
    <3>2. Max({recovery.target, e.to}) <= Counter
      BY <1>0, <2>2, <3>1, TwoMax DEF DevicePast
    <3>3. CASE AskSnapshot(e.to) /\ UNCHANGED revision
      <4>1. recovery'.got = recovery.got /\ recovery'.target = Max({recovery.target, e.to})
        BY <3>1, <3>3 DEF AskSnapshot, Recovery
      <4> QED
        BY <1>0, <1>00, <1>8, <3>2, <3>3, <4>1 DEF Deliver, DevicePast
    <3>4. CASE ApplyChanges(e.from, e.to) /\ UNCHANGED recovery
      BY <1>0, <1>00, <1>8, <2>2, <3>4 DEF Deliver, ApplyChanges, DevicePast
    <3> QED
      BY <1>8, <3>3, <3>4 DEF Deliver
  <2> QED
    BY <1>0, <1>00, <1>8, <2>1, <2>3 DEF Deliver, MarksPast, ReadingPast, LinkPast
<1>9. CASE PrimeRead
  <2>1. LinkPast'
    BY <1>0, <1>00, <1>9 DEF PrimeRead, LinkPast, Typed, LinkTypes, Link
  <2> QED
    BY <1>0, <1>00, <1>9, <2>1 DEF PrimeRead, MarksPast, ReadingPast, PipePast, DevicePast
<1>10. CASE PrimeSet
  <2>1. link.prime \in Nat /\ link.prime <= Counter /\ link.to \in Processes \cup {Unknown}
    BY <1>0, <1>10 DEF PrimeSet, Typed, LinkTypes, Link, LinkPast
  <2>2. MarksPast'
    BY <1>0, <1>00, <1>10, <2>1 DEF PrimeSet, MarksPast, Typed, MarkTypes
  <2>3. LinkPast'
    BY <1>0, <1>10 DEF PrimeSet, LinkPast, Typed, LinkTypes, Link
  <2>4. PipePast'
    <3>1. CASE link.to = Unknown
      BY <1>0, <1>00, <1>10, <3>1 DEF PrimeSet, Emit, PipePast
    <3>2. CASE link.to \in Processes
      <4>1. Sound(Reset(link.prime, link.prime), Counter)
        BY <2>1 DEF Sound, Reset
      <4>2. Reset(link.prime, link.prime) \in Message
        BY <2>1, EnvelopeTypes
      <4>3. Emit(link.to, Reset(link.prime, link.prime)) /\ UNCHANGED changes
        BY <1>10 DEF PrimeSet
      <4> QED
        BY <1>0, <3>2, <4>1, <4>2, <4>3, EmitSound
    <3> QED
      BY <2>1, <3>1, <3>2
  <2> QED
    BY <1>0, <1>00, <1>10, <2>2, <2>3, <2>4 DEF PrimeSet, ReadingPast, DevicePast
<1>11. CASE DropLink
  BY <1>0, <1>00, <1>11, SilentItems
     DEF DropLink, MarksPast, ReadingPast, PipePast, LinkPast, DevicePast, NoLink
<1>12. CASE SnapshotRead \/ SnapshotApplied \/ SnapshotFails
  <2>0. recovery \in Recovery /\ load \in Load /\ DevicePast
    BY <1>0 DEF Typed, LoadTypes
  <2>1. ASSUME SnapshotRead PROVE DevicePast'
    <3>1. recovery'.got = Counter /\ recovery'.target = recovery.target
      BY <2>0, <2>1 DEF SnapshotRead, Recovery
    <3> QED
      BY <1>00, <2>0, <2>1, <3>1 DEF SnapshotRead, DevicePast
  <2>2. ASSUME SnapshotApplied PROVE DevicePast'
    <3>1. recovery'.got = recovery.got /\ recovery'.target = recovery.target
      BY <2>0, <2>2 DEF SnapshotApplied, Recovery
    <3> QED
      BY <1>00, <2>0, <2>2, <3>1 DEF SnapshotApplied, DevicePast
  <2>3. ASSUME SnapshotFails PROVE DevicePast'
    <3>1. recovery'.got = recovery.got /\ recovery'.target = 0 /\ load'.got = load.got
      BY <2>0, <2>3 DEF SnapshotFails, BeginLoad, Recovery, Load
    <3> QED
      BY <1>00, <2>0, <2>3, <3>1 DEF SnapshotFails, DevicePast
  <2>4. DevicePast'
    BY <1>12, <2>1, <2>2, <2>3
  <2> QED
    BY <1>0, <1>00, <1>12, <2>4
       DEF SnapshotRead, SnapshotApplied, SnapshotFails, MarksPast, ReadingPast, PipePast, LinkPast
<1>13. CASE OpenPage \/ ListRead \/ ListApplied \/ ListFails
  <2>0. load \in Load /\ DevicePast
    BY <1>0 DEF Typed, LoadTypes
  <2>1. load'.got \in {load.got, Counter}
    BY <1>13, <2>0 DEF OpenPage, ListRead, ListApplied, ListFails, NextLoad, Load
  <2>2. load'.got <= Counter
    BY <1>00, <2>0, <2>1 DEF DevicePast
  <2>3. DevicePast'
    BY <1>00, <1>13, <2>0, <2>2 DEF OpenPage, ListRead, ListApplied, ListFails, DevicePast
  <2> QED
    BY <1>0, <1>00, <1>13, <2>3
       DEF OpenPage, ListRead, ListApplied, ListFails, MarksPast, ReadingPast, PipePast, LinkPast
<1>14. CASE UNCHANGED feedVars
  BY <1>0, <1>00, <1>14
     DEF feedVars, MarksPast, ReadingPast, PipePast, LinkPast, DevicePast
<1> QED
  BY <1>1, <1>2, <1>3, <1>4, <1>5, <1>6, <1>7, <1>8, <1>9, <1>10, <1>11, <1>12, <1>13, <1>14
     DEF FeedNext

\* A change that is made leaves what is shown as true as it was.
LEMMA ChangeUpToDate ==
    ASSUME FeedTypes, Past, UpToDate, NEW p \in Processes, NEW s \in Tasks,
           NEW to \in {"active", "inactive", "deleted"}, Change(p, s, to)
    PROVE  UpToDate'
<1> DEFINE x == [task |-> s, to |-> to]
<1>1. /\ changes \in Seq(Changed) /\ x \in Changed /\ changes' = Append(changes, x)
      /\ UNCHANGED <<revision, view, overlay, fresh, load>>
  BY DEF FeedTypes, Changed, Change, deviceVars
<1>2. /\ load.got \in Nat /\ load.got <= Len(changes)
      /\ revision # Unknown => revision \in Nat /\ revision <= Len(changes)
  BY DEF Past, DevicePast, FeedTypes, Counter
<1> HIDE DEF x
<1> SUFFICES ASSUME revision # Unknown, NEW t \in Tasks
             PROVE  /\ Shown(changes', view[t], revision, t)
                    /\ t \in fresh => Shown(changes', overlay[t], revision, t)
                    /\ load.at = "read" /\ t \notin fresh =>
                           Shown(changes', Held(changes', load.got, t), revision, t)
  BY <1>1 DEF UpToDate
<1>3. Held(changes', load.got, t) = Held(changes, load.got, t)
  BY <1>1, <1>2, HeldGrown
<1>4. \A v : Shown(changes, v, revision, t) => Shown(changes', v, revision, t)
  BY <1>1, <1>2, ShownGrown
<1> QED
  BY <1>3, <1>4 DEF UpToDate

\* A batch of changes brings the device to the revision it leads to.
LEMMA ApplyUpToDate ==
    ASSUME FeedTypes, Past, UpToDate, NEW e \in Message, Sound(e, Counter), Follows(e),
           ApplyChanges(e.from, e.to), UNCHANGED <<changes, load>>
    PROVE  UpToDate'
<1> DEFINE from == e.from
           to == e.to
           touched == {t \in Tasks : ChangesOf(t, from, to) # {}}
           kept(t) == {k \in ChangesOf(t, from, to) : changes[k].to # "deleted"}
           known == {t \in touched : kept(t) # {}}
           value == [t \in known |-> Contents(Max(kept(t)))[t]]
<1>1. /\ from \in Nat /\ to \in Nat /\ from <= to /\ to <= Len(changes) /\ from = revision
      /\ revision # Unknown /\ changes \in Seq(Changed) /\ Len(changes) \in Nat
  BY DEF Message, Sound, Follows, FeedTypes, Changed, Counter
<1>2. /\ view' = [t \in Tasks |-> IF t \in touched THEN Contents(to)[t] ELSE view[t]]
      /\ overlay' = [t \in Tasks |-> IF t \in known THEN value[t] ELSE overlay[t]]
      /\ fresh' = IF load.at = "idle" THEN {} ELSE fresh \cup known
      /\ revision' = to
  BY DEF ApplyChanges, Record
<1> SUFFICES ASSUME NEW t \in Tasks
             PROVE  /\ Shown(changes, view'[t], to, t)
                    /\ t \in fresh' => Shown(changes, overlay'[t], to, t)
                    /\ load.at = "read" /\ t \notin fresh' =>
                           Shown(changes, Held(changes, load.got, t), to, t)
  BY <1>2 DEF UpToDate
<1>3. CASE t \notin touched
  <2>1. Touches(changes, t, from, to) = {}
    BY <1>3, Logged
  <2>2. \A v : Shown(changes, v, revision, t) => Shown(changes, v, to, t)
    BY <1>1, <2>1, ShownLater
  <2>3. view'[t] = view[t] /\ overlay'[t] = overlay[t] /\ (t \in fresh' => t \in fresh)
        /\ (load.at = "read" /\ t \notin fresh' => t \notin fresh)
    <3> HIDE DEF touched, value, kept
    <3> QED
      BY <1>2, <1>3
  <2> HIDE DEF to, from, touched, known, value
  <2> QED
    BY <1>1, <2>2, <2>3 DEF UpToDate
<1>4. CASE t \in touched
  <2>1. Touches(changes, t, from, to) # {}
    BY <1>4, Logged
  <2>2. view'[t] = Held(changes, to, t)
    BY <1>1, <1>2, <1>4, Logged
  <2>3. Shown(changes, view'[t], to, t)
    BY <1>1, <2>2, ShownNow
  <2>4. CASE Held(changes, to, t) = 0
    <3> HIDE DEF to
    <3> QED
      BY <2>3, <2>4 DEF Shown
  <2>5. CASE Held(changes, to, t) # 0
    <3>1. kept(t) = {k \in Touches(changes, t, from, to) : changes[k].to # "deleted"}
      BY Logged
    <3>2. kept(t) # {} /\ Max(kept(t)) \in Nat
          /\ Held(changes, Max(kept(t)), t) = Held(changes, to, t)
      <4> HIDE DEF kept, from, to
      <4> QED
        BY <1>1, <2>1, <2>5, <3>1, LastKept
    <3>3. t \in known
      BY <1>4, <3>2
    <3>4. overlay'[t] = Held(changes, to, t)
      <4>1. value[t] = Held(changes, Max(kept(t)), t)
        <5> HIDE DEF kept
        <5> QED
          BY <3>2, <3>3, Logged
      <4> HIDE DEF kept, touched, value
      <4> QED
        BY <1>2, <3>2, <3>3, <4>1
    <3>5. Shown(changes, overlay'[t], to, t)
      BY <1>1, <3>4, ShownNow
    <3>6. load.at = "read" => t \in fresh'
      <4> HIDE DEF known
      <4> QED
        BY <1>2, <3>3
    <3> HIDE DEF to
    <3> QED
      BY <2>3, <3>5, <3>6
  <2> QED
    BY <2>4, <2>5
<1> QED
  BY <1>3, <1>4

\* A snapshot is what its revision holds.
LEMMA SnapshotUpToDate ==
    ASSUME FeedTypes, Past, UpToDate, SnapshotApplied
    PROVE  UpToDate'
<1> DEFINE got == recovery.got
<1>1. got \in Nat /\ got <= Len(changes) /\ changes \in Seq(Changed) /\ Len(changes) \in Nat
  BY DEF FeedTypes, Changed, Past, DevicePast, Counter
<1>2. /\ view' = Contents(got) /\ overlay' = Contents(got) /\ revision' = got
      /\ fresh' = IF load.at = "idle" THEN {} ELSE {t \in Tasks : Contents(got)[t] # 0}
      /\ UNCHANGED <<changes, load>>
  BY DEF SnapshotApplied, serverVars
<1> SUFFICES ASSUME NEW t \in Tasks
             PROVE  /\ Shown(changes, view'[t], got, t)
                    /\ t \in fresh' => Shown(changes, overlay'[t], got, t)
                    /\ load.at = "read" /\ t \notin fresh' =>
                           Shown(changes, Held(changes, load.got, t), got, t)
  BY <1>2 DEF UpToDate
<1>3. Contents(got)[t] = Held(changes, got, t)
  BY <1>1, Logged
<1>4. Shown(changes, Held(changes, got, t), got, t)
  BY <1>1, ShownNow
<1>5. load.at = "read" /\ t \notin fresh' => Held(changes, got, t) = 0
  BY <1>2, <1>3
<1> HIDE DEF got
<1>6. Held(changes, got, t) = 0 => Shown(changes, Held(changes, load.got, t), got, t)
  BY DEF Shown
<1> QED
  BY <1>2, <1>3, <1>4, <1>5, <1>6

\* A list answer is put under what came since it was asked for.
LEMMA ListUpToDate ==
    ASSUME FeedTypes, Past, UpToDate, OpenPage \/ ListRead \/ ListApplied \/ ListFails
    PROVE  UpToDate'
<1>1. /\ revision \in Nat \cup {Unknown} /\ (revision # Unknown => revision <= Len(changes))
      /\ load.got \in Nat /\ changes \in Seq(Changed) /\ Len(changes) \in Nat /\ load \in Load
  BY DEF FeedTypes, Changed, Past, DevicePast, Counter, Load
<1>2. UNCHANGED <<changes, revision, overlay>>
  BY DEF OpenPage, ListRead, ListApplied, ListFails, serverVars
<1> SUFFICES ASSUME revision # Unknown, NEW t \in Tasks
             PROVE  /\ Shown(changes, view'[t], revision, t)
                    /\ t \in fresh' => Shown(changes, overlay[t], revision, t)
                    /\ load'.at = "read" /\ t \notin fresh' =>
                           Shown(changes, Held(changes, load'.got, t), revision, t)
  BY <1>2 DEF UpToDate
<1>3. CASE OpenPage \/ ListFails
  <2>1. fresh' = {} /\ view' = view /\ load'.at # "read"
    <3>1. fresh' = {} /\ view' = view
      BY <1>3 DEF OpenPage, ListFails
    <3>2. \E a \in {"idle", "asked"} : load'.at = a
      BY <1>1, <1>3 DEF OpenPage, ListFails, NextLoad, Load
    <3> QED
      BY <3>1, <3>2
  <2> QED
    BY <2>1 DEF UpToDate
<1>4. CASE ListRead
  <2>1. fresh' = fresh /\ view' = view
    BY <1>4 DEF ListRead
  <2>3. load'.got = Len(changes)
    BY <1>1, <1>4 DEF ListRead, Counter, Load
  <2>2. Shown(changes, Held(changes, Len(changes), t), revision, t)
    BY <1>1, ShownNow
  <2> QED
    BY <2>1, <2>2, <2>3 DEF UpToDate
<1>5. CASE ListApplied
  <2>1. /\ fresh' = {} /\ load'.at # "read" /\ load.at = "read"
        /\ view'[t] = IF t \in fresh THEN overlay[t] ELSE Contents(load.got)[t]
    BY <1>1, <1>5 DEF ListApplied, NextLoad, Load
  <2>2. Contents(load.got)[t] = Held(changes, load.got, t)
    BY <1>1, Logged
  <2> QED
    BY <2>1, <2>2 DEF UpToDate
<1> QED
  BY <1>3, <1>4, <1>5

\* No step lets the device fall behind its revision.
LEMMA UpToDateKept == FeedTypes /\ Past /\ UpToDate /\ [FeedNext]_feedVars => UpToDate'
<1> SUFFICES ASSUME FeedTypes, Past, UpToDate, [FeedNext]_feedVars PROVE UpToDate'
  OBVIOUS
<1>1. CASE UNCHANGED <<changes, revision, view, overlay, fresh, load>>
  BY <1>1 DEF UpToDate
<1>2. ASSUME NEW p \in Processes, Deliver(p) PROVE UpToDate'
  <2> DEFINE e == Head(pipe[p])
  <2>1. e \in Message /\ Sound(e, Counter)
    BY <1>2, DeliverSound DEF Past
  <2>2. UNCHANGED <<changes, load>>
    BY <1>2 DEF Deliver, serverVars
  <2>3. \/ UNCHANGED <<revision, view, overlay, fresh>>
        \/ Follows(e) /\ ApplyChanges(e.from, e.to)
    BY <1>2 DEF Deliver
  <2> HIDE DEF e
  <2>4. CASE UNCHANGED <<revision, view, overlay, fresh>>
    BY <1>1, <2>2, <2>4
  <2> QED
    BY <2>1, <2>2, <2>3, <2>4, ApplyUpToDate
<1>3. CASE SnapshotFails
  BY <1>3 DEF SnapshotFails, UpToDate
<1>4. CASE PrimeRead \/ PrimeSet \/ DropLink \/ SnapshotRead
  <2>1. UNCHANGED <<changes, revision, view, overlay, fresh, load>>
    BY <1>4 DEF PrimeRead, PrimeSet, DropLink, SnapshotRead, serverVars, deviceVars
  <2> QED
    BY <1>1, <2>1
<1>5. ASSUME NEW p \in Processes,
             \/ ReadCounter(p) \/ Compare(p) \/ ReadRows(p) \/ ReadFails(p)
             \/ Connect(p) \/ Restart(p)
      PROVE  UpToDate'
  <2>1. UNCHANGED <<changes, revision, view, overlay, fresh, load>>
    BY <1>5 DEF ReadCounter, Compare, ReadRows, ReadFails, Connect, Restart, serverVars, deviceVars
  <2> QED
    BY <1>1, <2>1
<1>6. CASE UNCHANGED feedVars
  <2>1. UNCHANGED <<changes, revision, view, overlay, fresh, load>>
    BY <1>6 DEF feedVars
  <2> QED
    BY <1>1, <2>1
<1> QED
  BY <1>2, <1>3, <1>4, <1>5, <1>6, ChangeUpToDate, SnapshotUpToDate, ListUpToDate DEF FeedNext

LEMMA FeedInvHolds == FeedSpec => []FeedInv
<1>1. FeedInit => Past /\ UpToDate
  <2> SUFFICES ASSUME FeedInit PROVE Past /\ UpToDate
    OBVIOUS
  <2>1. Counter = 0
    BY DEF FeedInit, Counter
  <2>2. MarksPast /\ LinkPast /\ DevicePast /\ UpToDate
    BY <2>1 DEF FeedInit, MarksPast, LinkPast, DevicePast, UpToDate, NoLink
  <2>3. ReadingPast
    BY <2>1 DEF FeedInit, ReadingPast, Resting
  <2>4. PipePast
    BY SilentItems DEF FeedInit, PipePast
  <2> QED
    BY <2>2, <2>3, <2>4 DEF Past
<1>2. FeedTypes /\ Past /\ UpToDate /\ [FeedNext]_feedVars => (Past /\ UpToDate)'
  BY PastKept, UpToDateKept
<1> QED
  BY <1>1, <1>2, FeedTyped, PTL DEF FeedSpec, FeedInv

\* A device that follows the feed never shows a Task as it was before the
\* revision the device says it is at, whatever crossed on the way.
THEOREM NeverBehindHolds == FeedSpec => []NeverBehind
<1>1. FeedInv => NeverBehind
  <2> SUFFICES ASSUME FeedInv, revision # Unknown, NEW t \in Tasks, Contents(revision)[t] # 0
               PROVE  \E k \in revision..Counter : view[t] = Contents(k)[t]
    BY DEF NeverBehind
  <2>1. revision \in Nat /\ Len(changes) \in Nat /\ Counter = Len(changes)
    BY DEF FeedInv, FeedTypes, Counter
  <2>2. Held(changes, revision, t) # 0 /\ Shown(changes, view[t], revision, t)
    BY <2>1, Logged DEF FeedInv, UpToDate
  <2>3. PICK k \in revision..Len(changes) : view[t] = Held(changes, k, t)
    BY <2>2 DEF Shown
  <2> QED
    BY <2>1, <2>3, Logged
<1> QED
  BY <1>1, FeedInvHolds, PTL

-----------------------------------------------------------------------------
(* The inductive invariant of QuietIsCurrent *)

\* A device is ready, or its process primes, on a connection only.
LinkShape ==
    /\ link.ready => link.prime = Unknown /\ link.to # Unknown
    /\ link.prime # Unknown => link.to # Unknown

\* A snapshot that waits to be applied is not older than what the device shows.
Forward ==
    ~missed /\ recovery.at = "read" /\ revision # Unknown => revision <= recovery.got

\* A message that leads to revision n, or that cannot say how far.
Telling(e, n) == e.to = n \/ (e.reset /\ e.to = 0 /\ n > 0)
Carries(s, n) == \E i \in 1..Len(s) : Telling(s[i], n)

\* The process will tell the device of the last change.
ToTell(p) ==
    \/ due[p] > 0
    \/ reading[p].at # "idle" /\ reading[p].to = Counter
    \/ Carries(pipe[p], Counter)

\* The device asks for a snapshot that will have it, or will ask again.
Catching ==
    \/ recovery.at = "asked"
    \/ recovery.at = "read" /\ (recovery.got = Counter \/ recovery.target >= Counter)

\* Somebody still owes a connected device what it does not have.
Owing ==
    ~missed /\ (link.ready \/ link.prime # Unknown) =>
        \/ revision = Counter
        \/ \E p \in Processes : ToTell(p)
        \/ Catching
        \/ link.prime = Counter
        \/ revision = Unknown /\ recovery.at = "idle"

OwingInv == LinkShape /\ Forward /\ Owing

\* A message put in a pipe is carried, and one that is taken was the first.
LEMMA CarriesItems ==
    ASSUME NEW s \in Seq(Message), NEW e \in Message, NEW n \in Nat
    PROVE  /\ Carries(s, n) => Carries(Append(s, e), n)
           /\ Telling(e, n) => Carries(Append(s, e), n)
           /\ s # <<>> /\ Carries(s, n) => Telling(Head(s), n) \/ Carries(Tail(s), n)
           /\ ~Carries(<<>>, n)
<1>1. /\ Len(s) \in Nat /\ Len(Append(s, e)) = Len(s) + 1
      /\ \A i \in 1..Len(s) : Append(s, e)[i] = s[i]
      /\ Append(s, e)[Len(s) + 1] = e
  BY PipeItems
<1>2. Carries(s, n) => Carries(Append(s, e), n)
  <2> SUFFICES ASSUME NEW i \in 1..Len(s), Telling(s[i], n) PROVE Carries(Append(s, e), n)
    BY DEF Carries
  <2>1. i \in 1..Len(Append(s, e)) /\ Append(s, e)[i] = s[i]
    BY <1>1
  <2> QED
    BY <2>1 DEF Carries
<1>3. Telling(e, n) => Carries(Append(s, e), n)
  <2>1. Len(s) + 1 \in 1..Len(Append(s, e))
    BY <1>1
  <2> QED
    BY <1>1, <2>1 DEF Carries
<1>4. ASSUME s # <<>>, NEW i \in 1..Len(s), Telling(s[i], n)
      PROVE  Telling(Head(s), n) \/ Carries(Tail(s), n)
  <2>1. /\ Head(s) = s[1] /\ Len(Tail(s)) = Len(s) - 1
        /\ \A j \in 1..Len(Tail(s)) : Tail(s)[j] = s[j + 1]
    BY <1>4, PipeItems
  <2>2. CASE i = 1
    BY <1>4, <2>1, <2>2
  <2>3. CASE i # 1
    <3>1. i - 1 \in 1..Len(Tail(s))
      BY <1>1, <1>4, <2>1, <2>3
    <3>2. Tail(s)[i - 1] = s[i]
      BY <2>1, <3>1
    <3> QED
      BY <1>4, <3>1, <3>2 DEF Carries
  <2> QED
    BY <2>2, <2>3
<1>5. ~Carries(<<>>, n)
  BY DEF Carries
<1> QED
  BY <1>2, <1>3, <1>4, <1>5 DEF Carries

\* What a process emits to a connected device is carried, beside what was.
LEMMA EmitCarries ==
    ASSUME FeedTypes, NEW p \in Processes, NEW e \in Message, Emit(p, e), NEW n \in Nat
    PROVE  /\ \A q \in Processes : Carries(pipe[q], n) => Carries(pipe'[q], n)
           /\ link.to # Unknown /\ Telling(e, n) => Carries(pipe'[p], n)
<1>1. pipe \in [Processes -> Seq(Message)] /\ pipe[p] \in Seq(Message)
  BY DEF FeedTypes, Message
<1>2. CASE link.to = Unknown
  BY <1>2 DEF Emit
<1>3. CASE link.to # Unknown
  <2>1. pipe'[p] = Append(pipe[p], e) /\ \A q \in Processes : q # p => pipe'[q] = pipe[q]
    BY <1>1, <1>3 DEF Emit
  <2> QED
    BY <1>1, <2>1, CarriesItems
<1> QED
  BY <1>2, <1>3

\* A process that has to tell the device of the last change goes on until it is
\* on its way.
LEMMA ToTellStays ==
    ASSUME FeedTypes, Past, link.to # Unknown, NEW p \in Processes,
           ReadCounter(p) \/ Compare(p) \/ ReadRows(p) \/ ReadFails(p),
           NEW q \in Processes, ToTell(q)
    PROVE  ToTell(q)'
<1>0. /\ due \in [Processes -> Nat] /\ reading \in [Processes -> Reading]
      /\ pipe \in [Processes -> Seq(Message)] /\ Counter \in Nat /\ Counter' = Counter
      /\ reading[p] \in Reading /\ reading[p].to \in Nat
  <2>1. /\ due \in [Processes -> Nat] /\ reading \in [Processes -> Reading]
        /\ pipe \in [Processes -> Seq(Message)] /\ Counter \in Nat
    BY DEF FeedTypes, Reading, Message, Counter
  <2>2. Counter' = Counter
    BY DEF Counter, ReadCounter, Compare, ReadRows, ReadFails
  <2> QED
    BY <2>1, <2>2 DEF Reading
<1>1. CASE ReadCounter(p)
  <2>1. CASE q = p
    <3>1. reading'[p].at = "counted" /\ reading'[p].to = Counter
      BY <1>0, <1>1 DEF ReadCounter, Resting
    <3> QED
      BY <1>0, <2>1, <3>1 DEF ToTell
  <2>2. CASE q # p
    BY <1>0, <1>1, <2>2 DEF ReadCounter, ToTell
  <2> QED
    BY <2>1, <2>2
<1>2. ASSUME NEW e \in Message, Emit(p, e), due' = due,
             \A r \in Processes : r # p => reading'[r] = reading[r],
             reading[p].to = Counter => Telling(e, Counter)
      PROVE  ToTell(q)'
  <2>1. /\ \A r \in Processes : Carries(pipe[r], Counter) => Carries(pipe'[r], Counter)
        /\ Telling(e, Counter) => Carries(pipe'[p], Counter)
    BY <1>0, <1>2, EmitCarries
  <2>2. CASE due[q] > 0
    BY <1>2, <2>2 DEF ToTell
  <2>3. CASE Carries(pipe[q], Counter)
    BY <1>0, <2>1, <2>3 DEF ToTell
  <2>4. CASE reading[q].at # "idle" /\ reading[q].to = Counter
    <3>1. CASE q = p
      BY <1>0, <1>2, <2>1, <2>4, <3>1 DEF ToTell
    <3>2. CASE q # p
      BY <1>0, <1>2, <2>4, <3>2 DEF ToTell
    <3> QED
      BY <3>1, <3>2
  <2> QED
    BY <2>2, <2>3, <2>4 DEF ToTell
<1>3. CASE Compare(p)
  <2>1. marks[p] # Unknown => marks[p] \in Nat /\ marks[p] <= Counter
    BY DEF FeedTypes, Past, MarksPast
  <2>2. due' = due /\ \A r \in Processes : r # p => reading'[r] = reading[r]
    BY <1>0, <1>3 DEF Compare
  <2>3. CASE Emit(p, Reset(reading[p].to, reading[p].to))
    <3>1. reading[p].to = Counter => Telling(Reset(reading[p].to, reading[p].to), Counter)
      BY DEF Telling, Reset
    <3> QED
      BY <1>0, <1>2, <2>2, <2>3, <3>1, EnvelopeTypes
  <2>4. CASE /\ marks[p] # Unknown /\ reading[p].to <= marks[p]
             /\ Emit(p, Envelope(marks[p], marks[p]))
    <3>1. reading[p].to = Counter => Telling(Envelope(marks[p], marks[p]), Counter)
      BY <1>0, <2>1, <2>4 DEF Telling, Envelope
    <3> QED
      BY <1>0, <1>2, <2>1, <2>2, <2>4, <3>1, EnvelopeTypes
  <2>5. CASE /\ pipe' = pipe
             /\ reading' = [reading EXCEPT ![p] = [@ EXCEPT !.at = "rows", !.from = marks[p]]]
    <3>1. \A r \in Processes : reading'[r].to = reading[r].to
                               /\ (reading[r].at # "idle" => reading'[r].at # "idle")
      BY <1>0, <2>5 DEF Reading
    <3> QED
      BY <1>0, <2>2, <2>5, <3>1 DEF ToTell
  <2> QED
    BY <1>3, <2>3, <2>4, <2>5 DEF Compare
<1>4. CASE ReadRows(p)
  <2> DEFINE from == reading[p].from
             to == reading[p].to
  <2>1. due' = due /\ \A r \in Processes : r # p => reading'[r] = reading[r]
    BY <1>0, <1>4 DEF ReadRows
  <2>2. from \in Nat /\ to \in Nat
    BY <1>0 DEF Reading
  <2>3. Emit(p, Envelope(from, to)) \/ Emit(p, Reset(from, to))
    BY <1>4 DEF ReadRows
  <2>4. to = Counter => Telling(Envelope(from, to), Counter) /\ Telling(Reset(from, to), Counter)
    BY DEF Telling, Envelope, Reset
  <2>5. Envelope(from, to) \in Message /\ Reset(from, to) \in Message
    BY <2>2, EnvelopeTypes
  <2> QED
    BY <1>2, <2>1, <2>3, <2>4, <2>5
<1>5. CASE ReadFails(p)
  <2>1. due' = due /\ \A r \in Processes : r # p => reading'[r] = reading[r]
    BY <1>0, <1>5 DEF ReadFails
  <2>2. Telling(Reset(0, 0), Counter) /\ Reset(0, 0) \in Message
    BY <1>0, EnvelopeTypes DEF Telling, Reset
  <2> QED
    BY <1>2, <1>5, <2>1, <2>2 DEF ReadFails
<1> QED
  BY <1>1, <1>3, <1>4, <1>5

\* No step loses the last change on its way to the device.
LEMMA OwingKept == FeedTypes /\ Past /\ OwingInv /\ [FeedNext]_feedVars => OwingInv'
<1> SUFFICES ASSUME FeedTypes, Past, OwingInv, [FeedNext]_feedVars
             PROVE  LinkShape' /\ Forward' /\ Owing'
  BY DEF OwingInv
<1>0. /\ LinkShape /\ Forward /\ Owing /\ DevicePast
      /\ Counter \in Nat /\ (UNCHANGED changes => Counter' = Counter)
      /\ recovery \in Recovery /\ recovery.got \in Nat /\ recovery.target \in Nat
      /\ link \in Link /\ missed \in BOOLEAN /\ due \in [Processes -> Nat]
      /\ revision \in Nat \cup {Unknown} /\ Unknown \notin Nat
      /\ reading \in [Processes -> Reading] /\ pipe \in [Processes -> Seq(Message)]
  <2>1. LinkShape /\ Forward /\ Owing /\ DevicePast
    BY DEF OwingInv, Past
  <2>2. Counter \in Nat /\ (UNCHANGED changes => Counter' = Counter)
    BY DEF FeedTypes, Counter
  <2>3. recovery \in Recovery /\ recovery.got \in Nat /\ recovery.target \in Nat
    BY DEF FeedTypes, Recovery
  <2>4. link \in Link /\ missed \in BOOLEAN /\ due \in [Processes -> Nat]
    BY DEF FeedTypes, Link
  <2>5. /\ revision \in Nat \cup {Unknown} /\ Unknown \notin Nat
        /\ reading \in [Processes -> Reading] /\ pipe \in [Processes -> Seq(Message)]
    BY FeedConstants DEF FeedTypes, Reading, Message
  <2> QED
    BY <2>1, <2>2, <2>3, <2>4, <2>5
<1> USE DEF serverVars, deviceVars
<1>1. ASSUME NEW p \in Processes, NEW t \in Tasks, NEW to \in {"active", "inactive", "deleted"},
             Change(p, t, to)
      PROVE  LinkShape' /\ Forward' /\ Owing'
  <2>1. LinkShape' /\ Forward'
    BY <1>0, <1>1 DEF Change, LinkShape, Forward
  <2>2. due'[p] > 0
    BY <1>0, <1>1 DEF Change
  <2>3. ToTell(p)'
    BY <2>2 DEF ToTell
  <2> QED
    BY <2>1, <2>3 DEF Owing
<1>2. ASSUME NEW p \in Processes,
             ReadCounter(p) \/ Compare(p) \/ ReadRows(p) \/ ReadFails(p)
      PROVE  LinkShape' /\ Forward' /\ Owing'
  <2>1. UNCHANGED <<changes, link, revision, recovery, missed>>
    BY <1>2 DEF ReadCounter, Compare, ReadRows, ReadFails
  <2>2. LinkShape' /\ Forward'
    BY <1>0, <2>1 DEF LinkShape, Forward
  <2>3. Owing'
    <3>1. link.ready \/ link.prime # Unknown => link.to # Unknown
      BY <1>0 DEF LinkShape
    <3>2. link.to # Unknown /\ (\E q \in Processes : ToTell(q)) => (\E q \in Processes : ToTell(q)')
      BY <1>2, ToTellStays
    <3>3. Catching' <=> Catching
      BY <1>0, <2>1 DEF Catching
    <3> QED
      BY <1>0, <2>1, <3>1, <3>2, <3>3 DEF Owing
  <2> QED
    BY <2>2, <2>3
<1>3. ASSUME NEW p \in Processes, Connect(p) PROVE LinkShape' /\ Forward' /\ Owing'
  <2>1. link'.ready = FALSE /\ link'.prime = Unknown
    BY <1>3 DEF Connect, NoLink
  <2> QED
    BY <1>0, <1>3, <2>1 DEF Connect, LinkShape, Forward, Owing
<1>4. ASSUME NEW p \in Processes, Restart(p) PROVE LinkShape' /\ Forward' /\ Owing'
  <2>1. /\ UNCHANGED <<changes, revision, recovery>> /\ (missed => missed') /\ missed' \in BOOLEAN
        /\ ~missed' => due[p] = 0 /\ reading[p].at = "idle"
    <3>1. /\ UNCHANGED <<changes, revision, recovery>>
          /\ missed' = (missed \/ due[p] > 0 \/ reading[p].at # "idle")
      BY <1>4 DEF Restart
    <3>2. (missed => missed') /\ (~missed' => ~(due[p] > 0) /\ reading[p].at = "idle")
          /\ missed' \in BOOLEAN
      BY <3>1, Zenon
    <3>3. ~(due[p] > 0) => due[p] = 0
      BY <1>0
    <3> QED
      BY <3>1, <3>2, <3>3
  <2>2. Forward'
    BY <1>0, <2>1 DEF Forward
  <2>3. CASE link' = NoLink
    <3>1. link'.ready = FALSE /\ link'.prime = Unknown
      BY <2>3 DEF NoLink
    <3> QED
      BY <2>2, <3>1 DEF LinkShape, Owing
  <2>4. CASE UNCHANGED <<link, pipe>>
    <3>1. LinkShape'
      BY <1>0, <2>4 DEF LinkShape
    <3>2. ASSUME ~missed', NEW q \in Processes, ToTell(q) PROVE ToTell(q)'
      <4>1. CASE q = p
        BY <1>0, <2>1, <2>4, <3>2, <4>1 DEF ToTell
      <4>2. CASE q # p
        <5>1. due'[q] = due[q] /\ reading'[q] = reading[q]
          BY <1>0, <1>4, <4>2 DEF Restart
        <5> QED
          BY <1>0, <2>1, <2>4, <3>2, <5>1 DEF ToTell
      <4> QED
        BY <4>1, <4>2
    <3>3. Catching' <=> Catching
      BY <1>0, <2>1 DEF Catching
    <3>4. Owing'
      BY <1>0, <2>1, <2>4, <3>2, <3>3 DEF Owing
    <3> QED
      BY <2>2, <3>1, <3>4
  <2> QED
    BY <1>4, <2>3, <2>4 DEF Restart
<1>5. ASSUME NEW p \in Processes, Deliver(p) PROVE LinkShape' /\ Forward' /\ Owing'
  <2> DEFINE e == Head(pipe[p])
  <2>1. /\ e \in Message /\ Sound(e, Counter) /\ e.to \in Nat /\ e.from \in Nat /\ e.to <= Counter
        /\ ~e.reset => e.from <= e.to
    BY <1>5, DeliverSound DEF Past, Message, Sound
  <2>2. /\ UNCHANGED <<changes, due, reading, link>> /\ pipe' = [pipe EXCEPT ![p] = Tail(@)]
        /\ pipe[p] # <<>> /\ (missed => missed') /\ missed' \in BOOLEAN
    BY <1>0, <1>5 DEF Deliver
  <2>3. ASSUME NEW q \in Processes, ToTell(q), ~Telling(e, Counter) PROVE ToTell(q)'
    <3>1. Carries(pipe[q], Counter) => Carries(pipe'[q], Counter)
      <4>1. CASE q = p
        <5>1. pipe'[p] = Tail(pipe[p]) /\ pipe[p] \in Seq(Message)
          BY <1>0, <2>2
        <5> QED
          BY <1>0, <2>1, <2>2, <2>3, <4>1, <5>1, CarriesItems
      <4>2. CASE q # p
        BY <1>0, <2>2, <4>2
      <4> QED
        BY <4>1, <4>2
    <3> QED
      BY <1>0, <2>2, <2>3, <3>1 DEF ToTell
  <2>4. LinkShape'
    BY <1>0, <2>2 DEF LinkShape
  <2>5. CASE /\ ~Follows(e) /\ AskSnapshot(e.to) /\ UNCHANGED revision
             /\ missed' = (missed \/ (recovery.at # "idle" /\ Blind(e)))
    <3>1. /\ recovery'.at = (IF recovery.at = "idle" THEN "asked" ELSE recovery.at)
          /\ recovery'.got = recovery.got /\ recovery'.target = Max({recovery.target, e.to})
      BY <1>0, <2>5 DEF AskSnapshot, Recovery
    <3>2. recovery'.target \in Nat /\ recovery'.target >= recovery.target /\ recovery'.target >= e.to
      BY <1>0, <2>1, <3>1, TwoMax
    <3>3. Forward'
      BY <1>0, <2>2, <2>5, <3>1 DEF Forward
    <3>4. Catching => Catching'
      BY <1>0, <2>1, <2>2, <3>1, <3>2 DEF Catching
    <3>5. recovery.at = "idle" => Catching'
      BY <3>1 DEF Catching
    <3>6. ~missed' /\ Telling(e, Counter) => Catching'
      <4>1. SUFFICES ASSUME ~missed', Telling(e, Counter), recovery.at # "idle" PROVE Catching'
        BY <3>5
      <4>2. e.to = Counter
        BY <1>0, <2>5, <4>1 DEF Telling, Blind
      <4>3. recovery.at \in {"asked", "read"}
        BY <1>0, <4>1 DEF Recovery
      <4> QED
        BY <1>0, <2>2, <3>1, <3>2, <4>2, <4>3 DEF Catching
    <3>7. Owing'
      BY <1>0, <2>2, <2>3, <2>5, <3>4, <3>5, <3>6 DEF Owing
    <3> QED
      BY <2>4, <3>3, <3>7
  <2>6. CASE /\ Follows(e) /\ ApplyChanges(e.from, e.to) /\ UNCHANGED recovery
             /\ missed' = (missed \/ (recovery.at # "idle" /\ e.to > e.from))
    <3>1. ~e.reset /\ revision # Unknown /\ e.from = revision /\ revision' = e.to
      BY <2>6 DEF Follows, ApplyChanges
    <3>2. Forward'
      <4>1. ~missed' /\ recovery.at = "read" => e.to = revision /\ ~missed
        <5>1. ~missed' => ~missed /\ ~(recovery.at # "idle" /\ e.to > e.from)
          BY <2>6, Zenon
        <5>2. recovery.at = "read" => recovery.at # "idle"
          OBVIOUS
        <5>3. ~(e.to > e.from) => e.to = revision
          BY <2>1, <3>1
        <5> HIDE DEF e
        <5> QED
          BY <5>1, <5>2, <5>3, Zenon
      <4> QED
        BY <1>0, <2>6, <3>1, <4>1 DEF Forward
    <3>3. revision = Counter \/ Telling(e, Counter) => revision' = Counter'
      BY <1>0, <2>1, <2>2, <3>1 DEF Telling
    <3>4. Catching => Catching'
      BY <1>0, <2>2, <2>6 DEF Catching
    <3>5. Owing'
      BY <1>0, <2>2, <2>3, <3>1, <3>3, <3>4 DEF Owing
    <3> QED
      BY <2>4, <3>2, <3>5
  <2> QED
    BY <1>5, <2>5, <2>6 DEF Deliver
<1>6. CASE PrimeRead
  <2>1. link'.prime = Counter /\ link'.to = link.to /\ link'.ready = link.ready
        /\ link.to # Unknown /\ ~link.ready
    BY <1>0, <1>6 DEF PrimeRead, Link
  <2> QED
    BY <1>0, <1>6, <2>1 DEF PrimeRead, LinkShape, Forward, Owing
<1>7. CASE PrimeSet
  <2>1. /\ link.prime \in Nat /\ link.to \in Processes
        /\ link'.prime = Unknown /\ link'.to = link.to
        /\ Emit(link.to, Reset(link.prime, link.prime)) /\ link.to # Unknown
    BY <1>0, <1>7 DEF PrimeSet, Link, LinkShape
  <2>2. UNCHANGED <<changes, due, reading, revision, recovery, missed>>
    BY <1>7 DEF PrimeSet
  <2>3. Reset(link.prime, link.prime) \in Message
    BY <2>1, EnvelopeTypes
  <2>4. /\ \A q \in Processes : Carries(pipe[q], Counter) => Carries(pipe'[q], Counter)
        /\ Telling(Reset(link.prime, link.prime), Counter) => Carries(pipe'[link.to], Counter)
    BY <1>0, <2>1, <2>3, EmitCarries
  <2>5. \A q \in Processes : ToTell(q) => ToTell(q)'
    BY <1>0, <2>2, <2>4 DEF ToTell
  <2>6. link.prime = Counter => ToTell(link.to)'
    BY <1>0, <2>1, <2>2, <2>4 DEF ToTell, Telling, Reset
  <2>7. Catching' <=> Catching
    BY <1>0, <2>2 DEF Catching
  <2>8. LinkShape' /\ Forward'
    BY <1>0, <2>1, <2>2 DEF LinkShape, Forward
  <2>9. Owing'
    BY <1>0, <2>1, <2>2, <2>5, <2>6, <2>7 DEF Owing
  <2> QED
    BY <2>8, <2>9
<1>8. CASE DropLink
  <2>1. link'.ready = FALSE /\ link'.prime = Unknown
    BY <1>8 DEF DropLink, NoLink
  <2> QED
    BY <1>0, <1>8, <2>1 DEF DropLink, LinkShape, Forward, Owing
<1>9. CASE SnapshotRead
  <2>1. recovery'.at = "read" /\ recovery'.got = Counter
    BY <1>0, <1>9 DEF SnapshotRead, Recovery
  <2>2. Catching'
    BY <1>0, <1>9, <2>1 DEF SnapshotRead, Catching
  <2> QED
    BY <1>0, <1>9, <2>1, <2>2 DEF SnapshotRead, LinkShape, Forward, Owing, DevicePast
<1>10. CASE SnapshotApplied
  <2>1. /\ recovery.at = "read" /\ revision' = recovery.got /\ recovery.got <= Counter
        /\ recovery'.at = (IF recovery.got >= recovery.target THEN "idle" ELSE "asked")
    BY <1>0, <1>10 DEF SnapshotApplied, Recovery, DevicePast
  <2>2. UNCHANGED <<changes, due, reading, pipe, link, missed>>
    BY <1>10 DEF SnapshotApplied
  <2>3. \A q \in Processes : ToTell(q) => ToTell(q)'
    BY <1>0, <2>2 DEF ToTell
  <2>4. Catching => Catching' \/ revision' = Counter
    <3> SUFFICES ASSUME Catching, recovery.got # Counter PROVE Catching'
      BY <2>1
    <3>1. recovery.target >= Counter
      BY <2>1 DEF Catching
    <3>2. ~(recovery.got >= recovery.target)
      <4>1. /\ recovery.got \in Nat /\ recovery.target \in Nat /\ Counter \in Nat
            /\ recovery.got <= Counter
        BY <1>0, <2>1
      <4>2. recovery.got < Counter
        BY <4>1
      <4> QED
        BY <3>1, <4>1, <4>2
    <3>3. recovery'.at = "asked"
      BY <2>1, <3>2
    <3> QED
      BY <3>3 DEF Catching
  <2>5. ~missed /\ revision = Counter => revision' = Counter
    BY <1>0, <2>1 DEF Forward
  <2>6. LinkShape' /\ Forward'
    BY <1>0, <2>1, <2>2 DEF LinkShape, Forward
  <2>7. Owing'
    BY <1>0, <2>1, <2>2, <2>3, <2>4, <2>5 DEF Owing
  <2> QED
    BY <2>6, <2>7
<1>11. CASE SnapshotFails
  <2>1. recovery'.at = "idle" /\ revision' = Unknown /\ link' = link
    BY <1>0, <1>11 DEF SnapshotFails, Recovery
  <2> QED
    BY <1>0, <2>1 DEF LinkShape, Forward, Owing
<1>12. CASE OpenPage \/ ListRead \/ ListApplied \/ ListFails \/ UNCHANGED feedVars
  <2>1. UNCHANGED <<changes, due, reading, pipe, link, revision, recovery, missed>>
    BY <1>12 DEF OpenPage, ListRead, ListApplied, ListFails, feedVars
  <2>2. \A q \in Processes : ToTell(q) => ToTell(q)'
    BY <1>0, <2>1 DEF ToTell
  <2>3. Catching' <=> Catching
    BY <1>0, <2>1 DEF Catching
  <2> QED
    BY <1>0, <2>1, <2>2, <2>3 DEF LinkShape, Forward, Owing
<1> QED
  BY <1>1, <1>2, <1>3, <1>4, <1>5, <1>6, <1>7, <1>8, <1>9, <1>10, <1>11, <1>12 DEF FeedNext

LEMMA OwingInvHolds == FeedSpec => []OwingInv
<1>1. FeedInit => OwingInv
  BY DEF FeedInit, NoLink, OwingInv, LinkShape, Forward, Owing
<1>2. FeedTypes /\ Past /\ OwingInv /\ [FeedNext]_feedVars => OwingInv'
  BY OwingKept
<1> QED
  BY <1>1, <1>2, FeedInvHolds, PTL DEF FeedSpec, FeedInv

\* A connected device that follows the feed has the last change once nothing is
\* under way, unless a process died with it to announce or the device itself
\* passed it by.
THEOREM QuietIsCurrentHolds == FeedSpec => []QuietIsCurrent
<1>1. FeedTypes /\ OwingInv => QuietIsCurrent
  <2> SUFFICES ASSUME FeedTypes, OwingInv, Quiet, revision # Unknown, ~missed
               PROVE  revision = Counter
    BY DEF QuietIsCurrent
  <2>1. Counter \in Nat /\ Unknown \notin Nat
    BY FeedConstants DEF FeedTypes, Counter
  <2>2. ASSUME NEW p \in Processes PROVE ~ToTell(p)
    <3>1. due[p] = 0 /\ reading[p].at = "idle" /\ pipe[p] = <<>>
      BY DEF Quiet
    <3>2. ~Carries(<<>>, Counter)
      BY DEF Carries
    <3> QED
      BY <3>1, <3>2 DEF ToTell
  <2>3. ~Catching /\ link.ready /\ link.prime # Counter
    BY <2>1 DEF Quiet, Catching, OwingInv, LinkShape
  <2> QED
    BY <2>2, <2>3 DEF OwingInv, Owing
<1> QED
  BY <1>1, FeedTyped, OwingInvHolds, PTL
=============================================================================
