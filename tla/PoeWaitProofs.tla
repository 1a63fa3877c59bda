---------------------------- MODULE PoeWaitProofs ----------------------------
(***************************************************************************)
(* Proofs about PoeWait: the types, that no status change is missed while  *)
(* no frame is over the caps, that the first decisive snapshot settles the *)
(* wait, and that the resume point never moves back, for any length of the *)
(* record, any number of failed connections and any mix of frames.         *)
(***************************************************************************)
EXTENDS PoeWait, SequenceTheorems, WellFoundedInduction, TLAPS

IsChange(f) == f.kind = "change"
Decided == {"resolve", "failed"}

(* What the loop has not read of its connection: changes above the resume  *)
(* point, in order, and none left out up to the last one served.           *)
WireOrdered ==
  \A i, j \in 1..Len(wire) :
    IsChange(wire[i]) /\ IsChange(wire[j]) /\ i < j => wire[i].id < wire[j].id

WireAhead ==
  \A i \in 1..Len(wire) :
    IsChange(wire[i]) => lastEventId < wire[i].id /\ wire[i].id <= served

Carried(n) == \E i \in 1..Len(wire) : wire[i] = Change(n)

WireGapless ==
  /\ \A i \in 1..Len(wire) : IsChange(wire[i]) => \A n \in wire[i].id..served : Carried(n)
  /\ lastEventId # 0 => \A n \in (lastEventId + 1)..served : Carried(n)

WireInv ==
  loop = "read" =>
    /\ WireOrdered
    /\ WireAhead
    /\ WireGapless
    /\ lastEventId <= served
    /\ parserId \in {0, lastEventId}
    /\ (\E i \in 1..Len(wire) : wire[i] = Big) => oversized > 0

(* Until it is decided, the loop has evaluated up to its resume point.     *)
SeenInv ==
  /\ verdict \in Decided => loop \in {"close", "ended"}
  /\ verdict \notin Decided =>
       /\ seen \subseteq 1..lastEventId
       /\ oversized = 0 /\ lastEventId # 0 => lastEventId \in seen
  /\ NoChangeMissedWithinCaps

(* What it evaluated was not decisive, but for the last snapshot of a loop *)
(* that is decided; and only such a loop settles the wait with a snapshot. *)
Undecided(i) == Evaluate(log[i]) = "continue"

DecisionInv ==
  /\ verdict \notin Decided => \A i \in seen : Undecided(i)
  /\ verdict \in Decided =>
       /\ lastSnapshot \in seen
       /\ Evaluate(log[lastSnapshot]) = verdict
       /\ \A i \in seen \ {lastSnapshot} : Undecided(i)
  /\ outcome \in Decided => verdict = outcome

WaitInv == TypeOK /\ WireInv /\ SeenInv /\ DecisionInv
-----------------------------------------------------------------------------
(* Numbers, sequences and the operators of the loop.                       *)

(* A set of naturals that is not empty has a least element.                *)
LEMMA Least ==
  ASSUME NEW T \in SUBSET Nat, T # {}
  PROVE  \E x \in T : \A y \in T : x <= y
<1> DEFINE R == {ss \in Nat \X Nat : ss[1] < ss[2]}
<1>1. IsWellFoundedOn(R, Nat)
  BY NatLessThanWellFounded DEF OpToRel
<1>2. \E x \in T : \A y \in T : ~ (<<y, x>> \in R)
  <2> HIDE DEF R
  <2> QED
    BY <1>1, WFMin
<1>3. PICK x \in T : \A y \in T : ~ (<<y, x>> \in R)
  BY <1>2
<1>4. ASSUME NEW y \in T PROVE x <= y
  <2>1. ~ (<<y, x>> \in R) /\ x \in Nat /\ y \in Nat
    BY <1>3
  <2> QED
    BY <2>1
<1> QED
  BY <1>4

(* A bounded one has a greatest element.                                   *)
LEMMA Greatest ==
  ASSUME NEW N \in Nat, NEW T \in SUBSET (0..N), T # {}
  PROVE  \E x \in T : \A y \in T : y <= x
<1> DEFINE U == {N - x : x \in T}
<1>0. ASSUME NEW x \in T PROVE N - x \in Nat
  <2>1. x \in 0..N
    OBVIOUS
  <2> QED
    BY <2>1
<1>1. U \in SUBSET Nat /\ U # {}
  BY <1>0
<1>2. PICK u \in U : \A v \in U : u <= v
  <2> HIDE DEF U
  <2> QED
    BY <1>1, Least
<1>3. PICK x \in T : u = N - x
  OBVIOUS
<1>4. ASSUME NEW y \in T PROVE y <= x
  <2>1. N - y \in U /\ x \in 0..N /\ y \in 0..N
    OBVIOUS
  <2>2. N - x <= N - y
    BY <2>1, <1>2, <1>3
  <2> QED
    BY <2>1, <2>2
<1> QED
  BY <1>4

LEMMA AboveNat ==
  ASSUME NEW a \in Nat, NEW b \in Nat, NEW m \in (a + 1)..b
  PROVE  m \in Nat /\ m > a
OBVIOUS

LEMMA FrameTypes ==
  ASSUME NEW f \in Frames
  PROVE  /\ IsChange(f) => f.id \in 1..MaxSeq /\ f = Change(f.id)
         /\ ~IsChange(f) => f.id = 0
         /\ IsChange(f) => f # Big /\ f # Ping
BY DEF Frames, IsChange, Change, Big, Ping

(* A parser holds the last id of what it was fed, or what it held before.  *)
LEMMA CommittedIs ==
  ASSUME NEW frames \in Seq(Frames), NEW id
  PROVE  \/ Snapshots(frames) = {} /\ Committed(frames, id) = id
         \/ /\ Committed(frames, id) \in Snapshots(frames)
            /\ \A n \in Snapshots(frames) : n <= Committed(frames, id)
<1>1. CASE Snapshots(frames) = {}
  BY <1>1 DEF Committed, Snapshots
<1>2. CASE Snapshots(frames) # {}
  <2>1. Snapshots(frames) \in SUBSET (0..MaxSeq)
    BY FrameTypes, WaitAssumption DEF Snapshots, IsChange
  <2>2. \E m \in Snapshots(frames) : \A n \in Snapshots(frames) : n <= m
    BY <2>1, <1>2, WaitAssumption, Greatest
  <2>3. Committed(frames, id)
          = CHOOSE m \in Snapshots(frames) : \A n \in Snapshots(frames) : n <= m
    BY <1>2 DEF Committed, Snapshots
  <2> QED
    BY <2>2, <2>3
<1> QED
  BY <1>1, <1>2

(* The loop evaluates a chunk whole, or up to its first decisive frame.    *)
LEMMA EvaluatedIs ==
  ASSUME NEW frames \in Seq(Frames), Decisive(frames) # {}
  PROVE  \E e \in Decisive(frames) :
           /\ \A j \in Decisive(frames) : e <= j
           /\ Evaluated(frames) = SubSeq(frames, 1, e)
<1> DEFINE IsFirst(i) == \A j \in Decisive(frames) : i <= j
<1>1. Decisive(frames) \in SUBSET Nat
  BY DEF Decisive
<1>2. \E e \in Decisive(frames) : IsFirst(e)
  BY <1>1, Least
<1>3. IsFirst(CHOOSE i \in Decisive(frames) : IsFirst(i))
      /\ (CHOOSE i \in Decisive(frames) : IsFirst(i)) \in Decisive(frames)
  <2> HIDE DEF IsFirst
  <2> QED
    BY <1>2
<1>4. Evaluated(frames) = SubSeq(frames, 1, CHOOSE i \in Decisive(frames) : IsFirst(i))
  BY DEF Evaluated
<1> QED
  BY <1>3, <1>4

LEMMA Prefix ==
  ASSUME NEW S, NEW s \in Seq(S), NEW k \in 1..Len(s)
  PROVE  /\ SubSeq(s, 1, k) \in Seq(S)
         /\ Len(SubSeq(s, 1, k)) = k
         /\ \A i \in 1..k : SubSeq(s, 1, k)[i] = s[i]
         /\ SubSeq(s, k + 1, Len(s)) \in Seq(S)
         /\ Len(SubSeq(s, k + 1, Len(s))) = Len(s) - k
         /\ \A i \in 1..(Len(s) - k) : SubSeq(s, k + 1, Len(s))[i] = s[k + i]
BY SubSeqProperties

LEMMA EvaluateRange ==
  ASSUME NEW status
  PROVE  Evaluate(status) \in {"failed", "resolve", "continue"}
BY DEF Evaluate

-----------------------------------------------------------------------------
(* Types.  A step keeps them, given that the wire names no change that the *)
(* record has not made.                                                    *)

LEMMA SnapshotsBounded ==
  ASSUME TypeOK, WireInv, loop = "read", NEW k \in 1..Len(wire)
  PROVE  /\ SubSeq(wire, 1, k) \in Seq(Frames)
         /\ Snapshots(SubSeq(wire, 1, k)) \subseteq (lastEventId + 1)..served
         /\ (lastEventId + 1)..served \subseteq 1..Len(log)
         /\ served \in 0..Len(log) /\ lastEventId \in 0..Len(log) /\ Len(log) \in Nat
         /\ parserId \in {0, lastEventId}
<1> DEFINE chunk == SubSeq(wire, 1, k)
<1>1. wire \in Seq(Frames) /\ Len(wire) \in Nat
  BY DEF TypeOK
<1>2. /\ chunk \in Seq(Frames) /\ Len(chunk) = k
      /\ \A i \in 1..k : chunk[i] = wire[i]
  BY <1>1, Prefix
<1>3. served \in 0..Len(log) /\ lastEventId \in 0..Len(log) /\ Len(log) \in Nat
  BY DEF TypeOK
<1>4. ASSUME NEW i \in 1..k, chunk[i].kind = "change"
      PROVE  chunk[i].id \in (lastEventId + 1)..served
  <2>1. i \in 1..Len(wire) /\ wire[i] = chunk[i] /\ wire[i] \in Frames
    BY <1>1, <1>2
  <2>2. lastEventId < wire[i].id /\ wire[i].id <= served
    BY <2>1, <1>4 DEF WireInv, WireAhead, IsChange
  <2>3. wire[i].id \in 1..MaxSeq
    BY <2>1, <1>4, FrameTypes DEF IsChange
  <2> QED
    BY <2>1, <2>2, <2>3, <1>3, WaitAssumption
<1>5. Snapshots(chunk) \subseteq (lastEventId + 1)..served
  <2> HIDE DEF chunk
  <2> QED
    BY <1>4, <1>2 DEF Snapshots
<1>6. (lastEventId + 1)..served \subseteq 1..Len(log)
  BY <1>3
<1> QED
  BY <1>2, <1>3, <1>5, <1>6 DEF WireInv

(* The part of a chunk that the loop evaluates.                            *)
LEMMA EvaluatedPart ==
  ASSUME TypeOK, loop = "read", NEW k \in 1..Len(wire)
  PROVE  LET chunk == SubSeq(wire, 1, k) IN
         \E e \in 1..k :
           /\ Evaluated(chunk) = SubSeq(wire, 1, e)
           /\ Decisive(chunk) = {} => e = k
           /\ Decisive(chunk) # {} => IsChange(wire[e]) /\ ~Undecided(wire[e].id)
           /\ \A i \in 1..e :
                IsChange(wire[i]) /\ (i < e \/ Decisive(chunk) = {}) => Undecided(wire[i].id)
<1> DEFINE chunk == SubSeq(wire, 1, k)
<1>1. wire \in Seq(Frames) /\ Len(wire) \in Nat
  BY DEF TypeOK
<1>2. /\ chunk \in Seq(Frames) /\ Len(chunk) = k
      /\ \A i \in 1..k : chunk[i] = wire[i]
  BY <1>1, Prefix
<1>3. Decisive(chunk) = {i \in 1..k : IsChange(wire[i]) /\ ~Undecided(wire[i].id)}
  <2> HIDE DEF chunk
  <2> QED
    BY <1>2 DEF Decisive, IsChange, Undecided
<1>4. CASE Decisive(chunk) = {}
  <2>1. Evaluated(chunk) = SubSeq(wire, 1, k)
    BY <1>4 DEF Evaluated
  <2>2. \A i \in 1..k : IsChange(wire[i]) => Undecided(wire[i].id)
    BY <1>4, <1>3
  <2>3. k \in 1..k
    BY <1>1
  <2> QED
    BY <2>1, <2>2, <2>3, <1>4
<1>5. CASE Decisive(chunk) # {}
  <2>1. PICK e \in Decisive(chunk) :
          /\ \A j \in Decisive(chunk) : e <= j
          /\ Evaluated(chunk) = SubSeq(chunk, 1, e)
    <3> HIDE DEF chunk
    <3> QED
      BY <1>2, <1>5, EvaluatedIs
  <2>2. e \in 1..k /\ IsChange(wire[e]) /\ ~Undecided(wire[e].id)
    BY <1>3
  <2>3. SubSeq(chunk, 1, e) = SubSeq(wire, 1, e)
    BY <1>1, <2>2
  <2>4. \A i \in 1..e : IsChange(wire[i]) /\ i < e => Undecided(wire[i].id)
    <3> SUFFICES ASSUME NEW i \in 1..e, IsChange(wire[i]), i < e, ~Undecided(wire[i].id)
                 PROVE  FALSE
      OBVIOUS
    <3>1. i \in 1..k
      BY <2>2
    <3>2. i \in Decisive(chunk)
      BY <3>1, <1>3
    <3>3. e <= i
      BY <3>2, <2>1
    <3> QED
      BY <3>3, <2>2
  <2> QED
    BY <2>1, <2>2, <2>3, <2>4, <1>5
<1> QED
  BY <1>4, <1>5

(* What reading a chunk of k frames does, e of them evaluated.             *)
ChunkRead(k, e) ==
  LET ids == Snapshots(SubSeq(wire, 1, e)) IN
  /\ \A j \in 1..k : wire[j] # Big
  /\ seen' = seen \cup ids
  /\ \/ ids = {} /\ lastSnapshot' = lastSnapshot
     \/ lastSnapshot' \in ids /\ \A n \in ids : n <= lastSnapshot'
  /\ \A i \in 1..(e - 1) : IsChange(wire[i]) => Undecided(wire[i].id)

ChunkDecides(k, e) ==
  /\ ChunkRead(k, e)
  /\ IsChange(wire[e]) /\ ~Undecided(wire[e].id)
  /\ verdict' = Evaluate(log[lastSnapshot'])
  /\ loop' = "close" /\ wire' = <<>> /\ lastEventId' = lastEventId
  /\ parserId' \in 0..Len(log)

ChunkContinues(k) ==
  /\ ChunkRead(k, k)
  /\ IsChange(wire[k]) => Undecided(wire[k].id)
  /\ LET ids == Snapshots(SubSeq(wire, 1, k)) IN
     \/ ids = {} /\ lastEventId' = lastEventId /\ parserId' = parserId
     \/ /\ lastEventId' \in ids /\ \A n \in ids : n <= lastEventId'
        /\ parserId' = lastEventId'
  /\ wire' = SubSeq(wire, k + 1, Len(wire))
  /\ UNCHANGED <<verdict, loop>>

LEMMA ReadChunkDoes ==
  ASSUME TypeOK, WireInv, ReadChunk
  PROVE  \E k \in 1..Len(wire) : ChunkContinues(k) \/ \E e \in 1..k : ChunkDecides(k, e)
<1>1. loop = "read"
  BY DEF ReadChunk
<1>2. PICK k \in 1..Len(wire) :
        LET chunk == SubSeq(wire, 1, k)
            ids   == Snapshots(Evaluated(chunk))
        IN /\ \A j \in 1..k : chunk[j] # Big
           /\ parserId' = Committed(chunk, parserId)
           /\ seen' = seen \cup ids
           /\ lastSnapshot' = Committed(Evaluated(chunk), lastSnapshot)
           /\ \/ /\ Decisive(chunk) # {}
                 /\ verdict' = Evaluate(log[lastSnapshot'])
                 /\ loop' = "close"
                 /\ wire' = <<>>
                 /\ UNCHANGED lastEventId
              \/ /\ Decisive(chunk) = {}
                 /\ lastEventId' = ResumePoint(parserId')
                 /\ wire' = SubSeq(wire, k + 1, Len(wire))
                 /\ UNCHANGED <<verdict, loop>>
  BY DEF ReadChunk
<1> DEFINE chunk == SubSeq(wire, 1, k)
<1>3. PICK e \in 1..k :
        /\ Evaluated(chunk) = SubSeq(wire, 1, e)
        /\ Decisive(chunk) = {} => e = k
        /\ Decisive(chunk) # {} => IsChange(wire[e]) /\ ~Undecided(wire[e].id)
        /\ \A i \in 1..e :
             IsChange(wire[i]) /\ (i < e \/ Decisive(chunk) = {}) => Undecided(wire[i].id)
  BY <1>1, EvaluatedPart
<1>4. wire \in Seq(Frames) /\ Len(wire) \in Nat /\ e \in 1..Len(wire) /\ e \in Int
  BY DEF TypeOK
<1>5. /\ chunk \in Seq(Frames) /\ \A i \in 1..k : chunk[i] = wire[i]
      /\ SubSeq(wire, 1, e) \in Seq(Frames)
  BY <1>4, Prefix
<1>6. /\ Snapshots(chunk) \subseteq (lastEventId + 1)..served
      /\ Snapshots(chunk) \subseteq 1..Len(log)
      /\ Len(log) \in Nat /\ lastEventId \in 0..Len(log) /\ parserId \in {0, lastEventId}
  BY <1>1, SnapshotsBounded
<1>7. \/ Snapshots(chunk) = {} /\ parserId' = parserId
      \/ /\ parserId' \in Snapshots(chunk)
         /\ \A n \in Snapshots(chunk) : n <= parserId'
  <2>1. parserId' = Committed(chunk, parserId)
    BY <1>2
  <2> HIDE DEF chunk
  <2> QED
    BY <2>1, <1>5, CommittedIs
<1>8. ChunkRead(k, e)
  <2>1. \A j \in 1..k : wire[j] # Big
    BY <1>2, <1>5
  <2>2. seen' = seen \cup Snapshots(SubSeq(wire, 1, e))
    BY <1>2, <1>3
  <2>3. lastSnapshot' = Committed(SubSeq(wire, 1, e), lastSnapshot)
    BY <1>2, <1>3
  <2>4. \A i \in 1..(e - 1) : IsChange(wire[i]) => Undecided(wire[i].id)
    BY <1>3, <1>4
  <2> QED
    BY <2>1, <2>2, <2>3, <2>4, <1>5, CommittedIs DEF ChunkRead
<1>9. CASE Decisive(chunk) # {}
  <2>1. parserId' \in 0..Len(log)
    BY <1>6, <1>7
  <2>2. ChunkDecides(k, e)
    BY <2>1, <1>2, <1>3, <1>8, <1>9 DEF ChunkDecides
  <2> QED
    BY <2>2
<1>10. CASE Decisive(chunk) = {}
  <2>1. e = k /\ (IsChange(wire[k]) => Undecided(wire[k].id))
    BY <1>3, <1>4, <1>10
  <2>2. /\ lastEventId' = ResumePoint(parserId')
        /\ wire' = SubSeq(wire, k + 1, Len(wire))
        /\ UNCHANGED <<verdict, loop>>
    BY <1>2, <1>10
  <2>3. \/ Snapshots(chunk) = {} /\ lastEventId' = lastEventId /\ parserId' = parserId
        \/ /\ lastEventId' \in Snapshots(chunk)
           /\ \A n \in Snapshots(chunk) : n <= lastEventId'
           /\ parserId' = lastEventId'
    <3>1. CASE Snapshots(chunk) = {} /\ parserId' = parserId
      BY <3>1, <2>2, <1>6 DEF ResumePoint
    <3>2. CASE parserId' \in Snapshots(chunk) /\ \A n \in Snapshots(chunk) : n <= parserId'
      <4>1. parserId' # 0
        BY <3>2, <1>6
      <4> QED
        BY <4>1, <3>2, <2>2 DEF ResumePoint
    <3> QED
      BY <3>1, <3>2, <1>7
  <2>4. ChunkContinues(k)
    BY <2>1, <2>2, <2>3, <1>8 DEF ChunkContinues
  <2> QED
    BY <2>4
<1> QED
  BY <1>9, <1>10

(* Reading up to an oversized frame commits what stood before it.          *)
LEMMA ReadOversizedDoes ==
  ASSUME TypeOK, WireInv, ReadOversized
  PROVE  /\ oversized > 0
         /\ lastEventId' \in lastEventId..Len(log)
         /\ parserId' \in 0..Len(log)
<1>1. loop = "read" /\ lastEventId' = ResumePoint(parserId')
  BY DEF ReadOversized
<1>2. PICK k \in 1..Len(wire) :
        wire[k] = Big /\ parserId' = Committed(SubSeq(wire, 1, k - 1), parserId)
  BY DEF ReadOversized
<1>3. /\ wire \in Seq(Frames) /\ Len(wire) \in Nat /\ Len(log) \in Nat
      /\ lastEventId \in 0..Len(log) /\ parserId \in {0, lastEventId}
      /\ oversized > 0
  BY <1>1, <1>2 DEF TypeOK, WireInv
<1>4. CASE k = 1
  <2>1. SubSeq(wire, 1, k - 1) \in Seq(Frames) /\ Snapshots(SubSeq(wire, 1, k - 1)) = {}
    BY <1>3, <1>4 DEF Snapshots
  <2>2. parserId' = parserId
    BY <2>1, <1>2, CommittedIs
  <2> QED
    BY <2>2, <1>1, <1>3 DEF ResumePoint
<1>5. CASE k # 1
  <2>1. k - 1 \in 1..Len(wire)
    BY <1>3, <1>5
  <2>2. /\ SubSeq(wire, 1, k - 1) \in Seq(Frames)
        /\ Snapshots(SubSeq(wire, 1, k - 1)) \subseteq (lastEventId + 1)..served
        /\ (lastEventId + 1)..served \subseteq 1..Len(log)
        /\ served \in 0..Len(log)
    BY <2>1, <1>1, SnapshotsBounded
  <2>3. parserId' = parserId \/ parserId' \in (lastEventId + 1)..served
    BY <2>2, <1>2, CommittedIs
  <2> QED
    BY <2>2, <2>3, <1>1, <1>3 DEF ResumePoint
<1> QED
  BY <1>4, <1>5

-----------------------------------------------------------------------------
(* The steps, one lemma for each part of the invariant.                    *)

LEMMA PauseType ==
  ASSUME NEW index \in 0..LadderTop, PauseFrom(index)
  PROVE  loop' = "sleep" /\ backoff' \in 0..LadderTop
BY WaitAssumption DEF PauseFrom, Smaller

(* A chunk that decides does so with the last snapshot evaluated.          *)
LEMMA DecidesAt ==
  ASSUME TypeOK, WireInv, loop = "read", NEW k \in 1..Len(wire), NEW e \in 1..Len(wire),
         ChunkDecides(k, e)
  PROVE  /\ lastSnapshot' = wire[e].id
         /\ lastSnapshot' \in seen'
         /\ verdict' \in Decided
<1>1. /\ wire \in Seq(Frames) /\ Len(wire) \in Nat /\ Len(log) \in Nat
      /\ Snapshots(SubSeq(wire, 1, e)) \subseteq 1..Len(log)
  BY SnapshotsBounded DEF TypeOK
<1>2. wire[e] \in Frames /\ IsChange(wire[e])
  BY <1>1 DEF ChunkDecides
<1>3. /\ Len(SubSeq(wire, 1, e)) = e /\ e \in 1..e
      /\ \A i \in 1..e : SubSeq(wire, 1, e)[i] = wire[i]
  BY <1>1, Prefix
<1>4. wire[e].id \in Snapshots(SubSeq(wire, 1, e))
  BY <1>2, <1>3 DEF Snapshots, IsChange
<1>5. \A n \in Snapshots(SubSeq(wire, 1, e)) : n <= wire[e].id
  <2> SUFFICES ASSUME NEW i \in 1..e, IsChange(wire[i])
               PROVE  wire[i].id <= wire[e].id
    BY <1>3 DEF Snapshots, IsChange
  <2>1. i = e \/ i < e
    BY <1>1
  <2>2. i \in 1..Len(wire) /\ wire[i] \in Frames
    BY <1>1
  <2>3. wire[i].id \in Nat /\ wire[e].id \in Nat
    BY <1>2, <2>2, FrameTypes, WaitAssumption
  <2>4. i < e => wire[i].id < wire[e].id
    BY <1>1, <1>2, <2>2 DEF WireInv, WireOrdered
  <2> QED
    BY <2>1, <2>3, <2>4
<1>6. lastSnapshot' \in Snapshots(SubSeq(wire, 1, e)) /\ wire[e].id <= lastSnapshot'
  BY <1>4 DEF ChunkDecides, ChunkRead
<1>7. lastSnapshot' = wire[e].id
  BY <1>1, <1>4, <1>5, <1>6
<1>8. lastSnapshot' \in seen'
  BY <1>6 DEF ChunkDecides, ChunkRead
<1>9. verdict' \in Decided
  BY <1>7, EvaluateRange DEF ChunkDecides, Undecided, Decided
<1> QED
  BY <1>7, <1>8, <1>9

LEMMA TypeKeeps ==
  ASSUME TypeOK, WireInv, [Next]_vars
  PROVE  TypeOK'
<1>1. CASE RecordChanges
  <2>1. PICK status \in Statuses : log' = Append(log, status)
    BY <1>1 DEF RecordChanges
  <2>2. log' \in Seq(Statuses) /\ Len(log') = Len(log) + 1 /\ Len(log) < MaxSeq
    BY <1>1, <2>1 DEF RecordChanges, TypeOK
  <2> QED
    BY <1>1, <2>2, WaitAssumption DEF RecordChanges, TypeOK, loopVars, waitVars
<1>2. CASE Push
  <2>1. served + 1 \in 1..Len(log) /\ served + 1 \in 1..MaxSeq
    BY <1>2, WaitAssumption DEF Push, TypeOK
  <2>2. Change(served + 1) \in Frames
    BY <2>1 DEF Change, Frames
  <2>3. wire' \in Seq(Frames)
    BY <1>2, <2>2 DEF Push, TypeOK
  <2> QED
    BY <1>2, <2>1, <2>3 DEF Push, TypeOK, loopVars, waitVars
<1>3. CASE KeepAlive
  <2>1. Ping \in Frames
    BY DEF Ping, Frames
  <2>2. wire' \in Seq(Frames)
    BY <1>3, <2>1 DEF KeepAlive, TypeOK
  <2> QED
    BY <1>3, <2>2, WaitAssumption DEF KeepAlive, TypeOK, loopVars, waitVars
<1>4. CASE SendOversized
  <2>1. Big \in Frames
    BY DEF Big, Frames
  <2>2. wire' \in Seq(Frames)
    BY <1>4, <2>1 DEF SendOversized, TypeOK
  <2> QED
    BY <1>4, <2>2, WaitAssumption DEF SendOversized, TypeOK, loopVars, waitVars
<1>5. CASE Connect
  <2>1. Change(Len(log)) \in Frames
    BY WaitAssumption DEF TypeOK, Change, Frames
  <2>2. wire' \in Seq(Frames) /\ served' \in 0..Len(log)
    BY <1>5, <2>1 DEF Connect, TypeOK
  <2>3. 0 \in 0..Len(log)
    BY DEF TypeOK
  <2> QED
    BY <1>5, <2>2, <2>3 DEF Connect, TypeOK, waitVars
<1>6. CASE FetchFails
  <2>1. loop' = "sleep" /\ backoff' \in 0..LadderTop
    BY <1>6, PauseType DEF FetchFails, TypeOK
  <2> QED
    BY <1>6, <2>1, WaitAssumption DEF FetchFails, TypeOK, waitVars
<1>7. CASE Refused
  BY <1>7 DEF Refused, TypeOK, gatewayVars
<1>8. CASE ReadChunk
  <2>0. PICK k \in 1..Len(wire) :
          ChunkContinues(k) \/ \E e \in 1..k : ChunkDecides(k, e)
    BY <1>8, ReadChunkDoes
  <2>1. /\ wire \in Seq(Frames) /\ Len(wire) \in Nat /\ Len(log) \in Nat /\ loop = "read"
        /\ delivered' = TRUE
        /\ UNCHANGED <<log, served, faults, pings, oversized, backoff, target, outcome>>
    BY <1>8 DEF TypeOK, ReadChunk
  <2>2. ASSUME NEW j \in 1..Len(wire)
        PROVE  Snapshots(SubSeq(wire, 1, j)) \subseteq 1..Len(log)
    BY <2>1, SnapshotsBounded
  <2>3. CASE ChunkContinues(k)
    <3>1. wire' \in Seq(Frames)
      BY <2>1, <2>3, Prefix DEF ChunkContinues
    <3>2. lastEventId' \in 0..Len(log) /\ parserId' \in 0..Len(log)
      BY <2>2, <2>3 DEF ChunkContinues, TypeOK
    <3>3. seen' \subseteq 1..Len(log) /\ lastSnapshot' \in 0..Len(log)
      <4>1. /\ seen' = seen \cup Snapshots(SubSeq(wire, 1, k))
            /\ lastSnapshot' = lastSnapshot \/ lastSnapshot' \in Snapshots(SubSeq(wire, 1, k))
        BY <2>3 DEF ChunkContinues, ChunkRead
      <4>2. /\ Snapshots(SubSeq(wire, 1, k)) \subseteq 1..Len(log)
            /\ seen \subseteq 1..Len(log) /\ lastSnapshot \in 0..Len(log)
        BY <2>1, <2>2 DEF TypeOK
      <4>3. 1..Len(log) \subseteq 0..Len(log)
        BY <2>1
      <4> QED
        BY <4>1, <4>2, <4>3
    <3> QED
      BY <2>1, <2>3, <3>1, <3>2, <3>3 DEF ChunkContinues, TypeOK
  <2>4. ASSUME NEW e \in 1..k, ChunkDecides(k, e)
        PROVE  TypeOK'
    <3>1. e \in 1..Len(wire)
      BY <2>1
    <3>2. seen' \subseteq 1..Len(log) /\ lastSnapshot' \in 0..Len(log)
      <4>1. /\ seen' = seen \cup Snapshots(SubSeq(wire, 1, e))
            /\ lastSnapshot' = lastSnapshot \/ lastSnapshot' \in Snapshots(SubSeq(wire, 1, e))
        BY <2>4 DEF ChunkDecides, ChunkRead
      <4>2. /\ Snapshots(SubSeq(wire, 1, e)) \subseteq 1..Len(log)
            /\ seen \subseteq 1..Len(log) /\ lastSnapshot \in 0..Len(log)
        BY <2>1, <2>2, <3>1 DEF TypeOK
      <4>3. 1..Len(log) \subseteq 0..Len(log)
        BY <2>1
      <4> QED
        BY <4>1, <4>2, <4>3
    <3>4. verdict' \in Decided
      BY <2>1, <2>4, <3>1, DecidesAt
    <3>5. wire' = <<>> /\ loop' = "close" /\ UNCHANGED lastEventId /\ parserId' \in 0..Len(log)
      BY <2>4 DEF ChunkDecides
    <3> QED
      BY <2>1, <3>2, <3>4, <3>5 DEF Decided, TypeOK
  <2> QED
    BY <2>0, <2>3, <2>4
<1>9. CASE ReadOversized
  <2>1. lastEventId' \in 0..Len(log) /\ parserId' \in 0..Len(log)
    BY <1>9, ReadOversizedDoes DEF TypeOK
  <2> QED
    BY <1>9, <2>1 DEF ReadOversized, TypeOK, waitVars
<1>10. CASE ConnectionEnds
  <2>1. lastEventId' \in 0..Len(log)
    BY <1>10 DEF ConnectionEnds, ResumePoint, TypeOK
  <2> QED
    BY <1>10, <2>1, WaitAssumption DEF ConnectionEnds, TypeOK, waitVars
<1>11. CASE LoopAborted
  <2>1. loop' \in {"ended", "close"} /\ verdict' \in {verdict, "abort"} /\ wire' \in {wire, <<>>}
    BY <1>11 DEF LoopAborted
  <2>2. wire' \in Seq(Frames)
    BY <2>1, EmptySeq DEF TypeOK
  <2> QED
    BY <1>11, <2>1, <2>2 DEF LoopAborted, TypeOK, waitVars
<1>12. CASE BodyCancelled
  <2>1. loop' \in {"ended", "sleep"} /\ backoff' \in 0..LadderTop
    BY <1>12, PauseType, WaitAssumption DEF BodyCancelled, TypeOK
  <2>2. outcome' \in {outcome, verdict} /\ (verdict = "retry" \/ verdict = "abort" => outcome' = outcome)
    BY <1>12 DEF BodyCancelled
  <2> QED
    BY <1>12, <2>1, <2>2 DEF BodyCancelled, TypeOK, gatewayVars
<1>13. CASE Wake
  BY <1>13 DEF Wake, TypeOK, gatewayVars, waitVars
<1>14. CASE DeadlinePasses
  BY <1>14 DEF DeadlinePasses, TypeOK, gatewayVars, loopVars
<1>15. CASE CallerAborts
  BY <1>15 DEF CallerAborts, TypeOK, gatewayVars, loopVars
<1>16. CASE UNCHANGED vars
  BY <1>16 DEF vars, TypeOK, gatewayVars, loopVars, waitVars
<1> QED
  BY <1>1, <1>2, <1>3, <1>4, <1>5, <1>6, <1>7, <1>8, <1>9, <1>10, <1>11, <1>12, <1>13,
     <1>14, <1>15, <1>16 DEF Next, Gateway, Request, Read, Race

(* A frame that joins the wire.                                            *)
LEMMA Appended ==
  ASSUME TypeOK, NEW f \in Frames, wire' = Append(wire, f)
  PROVE  /\ Len(wire) \in Nat /\ Len(wire') = Len(wire) + 1
         /\ wire'[Len(wire) + 1] = f
         /\ \A i \in 1..Len(wire) : wire'[i] = wire[i]
         /\ \A i \in 1..Len(wire') : i \in 1..Len(wire) \/ i = Len(wire) + 1
         /\ \A i \in 1..Len(wire) : i \in 1..Len(wire') /\ wire[i] \in Frames
<1>1. wire \in Seq(Frames)
  BY DEF TypeOK
<1> QED
  BY <1>1, AppendProperties

LEMMA PushKeepsWire ==
  ASSUME TypeOK, WireInv, Push
  PROVE  WireInv'
<1> DEFINE n == Len(wire)
           f == Change(served + 1)
<1>1. /\ served \in Nat /\ served + 1 \in 1..MaxSeq /\ lastEventId \in Nat /\ loop = "read"
      /\ served' = served + 1 /\ wire' = Append(wire, f)
      /\ UNCHANGED <<lastEventId, parserId, oversized>>
  BY WaitAssumption DEF Push, TypeOK, loopVars
<1>2. f \in Frames /\ IsChange(f) /\ f.id = served + 1 /\ f # Big
  BY <1>1 DEF Change, Frames, IsChange, Big
<1> HIDE DEF f
<1>3. /\ n \in Nat /\ Len(wire') = n + 1 /\ wire'[n + 1] = f
      /\ \A i \in 1..n : wire'[i] = wire[i]
      /\ \A i \in 1..Len(wire') : i \in 1..n \/ i = n + 1
      /\ \A i \in 1..n : i \in 1..Len(wire') /\ wire[i] \in Frames
  BY <1>1, <1>2, Appended
<1>4. \A i \in 1..n : IsChange(wire[i]) =>
        wire[i].id \in Nat /\ lastEventId < wire[i].id /\ wire[i].id <= served
  BY <1>1, <1>3, FrameTypes, WaitAssumption DEF WireInv, WireAhead
<1>5. WireOrdered'
  <2> SUFFICES ASSUME NEW i \in 1..Len(wire'), NEW j \in 1..Len(wire'),
                      IsChange(wire'[i]), IsChange(wire'[j]), i < j
               PROVE  wire'[i].id < wire'[j].id
    BY DEF WireOrdered, IsChange
  <2>1. i \in 1..n
    BY <1>3
  <2>2. CASE j \in 1..n
    BY <2>1, <2>2, <1>1, <1>3 DEF WireInv, WireOrdered
  <2>3. CASE j = n + 1
    BY <2>1, <2>3, <1>1, <1>2, <1>3, <1>4
  <2> QED
    BY <2>2, <2>3, <1>3
<1>6. WireAhead'
  <2> SUFFICES ASSUME NEW i \in 1..Len(wire'), IsChange(wire'[i])
               PROVE  lastEventId' < wire'[i].id /\ wire'[i].id <= served'
    BY DEF WireAhead, IsChange
  <2>1. CASE i \in 1..n
    BY <2>1, <1>1, <1>3, <1>4
  <2>2. CASE i = n + 1
    BY <2>2, <1>1, <1>2, <1>3 DEF WireInv
  <2> QED
    BY <2>1, <2>2, <1>3
<1>7. WireGapless'
  <2>1. \A m : Carried(m) => Carried(m)'
    BY <1>3 DEF Carried, Change
  <2>2. ASSUME NEW m, m = served + 1
        PROVE  Carried(m)'
    <3>1. n + 1 \in 1..Len(wire') /\ wire'[n + 1] = Change(m)
      BY <2>2, <1>3 DEF f
    <3> QED
      BY <3>1 DEF Carried, Change
  <2>3. ASSUME NEW i \in 1..Len(wire'), IsChange(wire'[i]), NEW m \in wire'[i].id..served'
        PROVE  Carried(m)'
    <3>1. m \in Int /\ m <= served + 1
      BY <1>1
    <3>2. CASE m = served + 1
      BY <3>2, <2>2
    <3>3. CASE m # served + 1
      <4>1. i \in 1..n
        BY <3>1, <3>3, <1>1, <1>2, <1>3
      <4>2. m \in wire[i].id..served
        BY <4>1, <3>1, <3>3, <1>1, <1>3, <1>4
      <4>3. Carried(m)
        BY <4>1, <4>2, <2>3, <1>1, <1>3 DEF WireInv, WireGapless
      <4> QED
        BY <4>3, <2>1
    <3> QED
      BY <3>2, <3>3
  <2>4. ASSUME lastEventId' # 0, NEW m \in (lastEventId' + 1)..served'
        PROVE  Carried(m)'
    <3>1. CASE m = served + 1
      BY <3>1, <2>2
    <3>2. CASE m # served + 1
      <4>1. m \in (lastEventId + 1)..served /\ lastEventId # 0
        BY <3>2, <2>4, <1>1
      <4> QED
        BY <4>1, <2>1, <1>1 DEF WireInv, WireGapless
    <3> QED
      BY <3>1, <3>2
  <2> QED
    BY <2>3, <2>4 DEF WireGapless, IsChange, Carried
<1>8. (\E i \in 1..Len(wire') : wire'[i] = Big) => oversized' > 0
  BY <1>1, <1>2, <1>3 DEF WireInv
<1> QED
  BY <1>1, <1>5, <1>6, <1>7, <1>8 DEF WireInv, Big

(* A frame that is no change joins the wire.                               *)
LEMMA OtherKeepsWire ==
  ASSUME TypeOK, WireInv, loop = "read", NEW f \in Frames, ~IsChange(f),
         wire' = Append(wire, f), f = Big => oversized' > 0, oversized' >= oversized,
         oversized' \in Nat, UNCHANGED <<served, lastEventId, parserId, loop>>
  PROVE  WireInv'
<1> DEFINE n == Len(wire)
<1>1. /\ n \in Nat /\ Len(wire') = n + 1 /\ wire'[n + 1] = f
      /\ \A i \in 1..n : wire'[i] = wire[i]
      /\ \A i \in 1..Len(wire') : i \in 1..n \/ i = n + 1
      /\ \A i \in 1..n : i \in 1..Len(wire')
      /\ oversized \in Nat
  BY Appended DEF TypeOK
<1>2. \A i \in 1..Len(wire') : IsChange(wire'[i]) => i \in 1..n /\ wire'[i] = wire[i]
  BY <1>1
<1>3. \A m : Carried(m) => Carried(m)'
  BY <1>1 DEF Carried, Change
<1>4. WireOrdered' /\ WireAhead'
  BY <1>2 DEF WireInv, WireOrdered, WireAhead, IsChange
<1>5. WireGapless'
  <2>1. ASSUME NEW i \in 1..Len(wire'), IsChange(wire'[i]), NEW m \in wire'[i].id..served'
        PROVE  Carried(m)'
    BY <2>1, <1>2, <1>3 DEF WireInv, WireGapless
  <2>2. ASSUME lastEventId' # 0, NEW m \in (lastEventId' + 1)..served'
        PROVE  Carried(m)'
    BY <2>2, <1>3 DEF WireInv, WireGapless
  <2> QED
    BY <2>1, <2>2 DEF WireGapless, IsChange, Carried
<1>6. (\E i \in 1..Len(wire') : wire'[i] = Big) => oversized' > 0
  BY <1>1 DEF WireInv
<1> QED
  BY <1>4, <1>5, <1>6 DEF WireInv, Big

LEMMA ConnectKeepsWire ==
  ASSUME TypeOK, Connect
  PROVE  WireInv'
<1>1. /\ lastEventId \in Nat /\ Len(log) \in 1..MaxSeq /\ lastEventId \in 0..Len(log)
      /\ UNCHANGED lastEventId /\ parserId' = 0
  BY DEF Connect, TypeOK
<1>2. CASE lastEventId # 0
  <2>1. wire' = <<>> /\ served' = lastEventId
    BY <1>2 DEF Connect
  <2>2. Len(wire') = 0
    BY <2>1
  <2> QED
    BY <2>1, <2>2, <1>1 DEF WireInv, WireOrdered, WireAhead, WireGapless
<1>3. CASE lastEventId = 0
  <2> DEFINE m == Len(log)
  <2>1. wire' = <<Change(m)>> /\ served' = m
    BY <1>3 DEF Connect
  <2>2. /\ Len(wire') = 1 /\ wire'[1] = Change(m) /\ 1 \in 1..1
        /\ \A i \in 1..Len(wire') : i = 1
    BY <2>1
  <2>3. Change(m).id = m /\ Change(m) # Big
    BY DEF Change, Big
  <2>4. \A n \in m..m : n = m
    BY <1>1
  <2>5. WireOrdered' /\ WireAhead'
    BY <2>1, <2>2, <2>3, <1>1, <1>3 DEF WireOrdered, WireAhead, IsChange
  <2>6. WireGapless'
    BY <2>1, <2>2, <2>3, <2>4, <1>1, <1>3 DEF WireGapless, Carried, Change
  <2> QED
    BY <2>1, <2>2, <2>3, <2>5, <2>6, <1>1 DEF WireInv, Big
<1> QED
  BY <1>2, <1>3

LEMMA SnapshotsOfPrefix ==
  ASSUME TypeOK, NEW k \in 1..Len(wire)
  PROVE  /\ \A i \in 1..k : IsChange(wire[i]) => wire[i].id \in Snapshots(SubSeq(wire, 1, k))
         /\ \A n \in Snapshots(SubSeq(wire, 1, k)) :
              \E i \in 1..k : IsChange(wire[i]) /\ n = wire[i].id
<1>1. wire \in Seq(Frames)
  BY DEF TypeOK
<1>2. /\ Len(SubSeq(wire, 1, k)) = k
      /\ \A i \in 1..k : SubSeq(wire, 1, k)[i] = wire[i]
  BY <1>1, Prefix
<1> QED
  BY <1>2 DEF Snapshots, IsChange

(* Every change of the wire is a natural between the resume point and the  *)
(* last one served.                                                        *)
LEMMA WireIds ==
  ASSUME TypeOK, WireInv, loop = "read"
  PROVE  /\ Len(wire) \in Nat /\ lastEventId \in Nat /\ served \in Nat
         /\ \A i \in 1..Len(wire) : IsChange(wire[i]) =>
              /\ wire[i].id \in Nat /\ wire[i].id > lastEventId /\ wire[i].id <= served
              /\ wire[i] = Change(wire[i].id)
<1>1. wire \in Seq(Frames) /\ Len(wire) \in Nat /\ lastEventId \in Nat /\ served \in Nat
  BY DEF TypeOK
<1>2. \A i \in 1..Len(wire) : wire[i] \in Frames
  BY <1>1
<1> QED
  BY <1>1, <1>2, FrameTypes, WaitAssumption DEF WireInv, WireAhead

LEMMA ContinueKeepsWire ==
  ASSUME TypeOK, WireInv, loop = "read", NEW k \in 1..Len(wire), ChunkContinues(k),
         UNCHANGED <<served, oversized>>
  PROVE  WireInv'
<1> DEFINE ids == Snapshots(SubSeq(wire, 1, k))
           rest == Len(wire) - k
<1>1. /\ Len(wire) \in Nat /\ lastEventId \in Nat /\ served \in Nat
      /\ \A i \in 1..Len(wire) : IsChange(wire[i]) =>
           /\ wire[i].id \in Nat /\ wire[i].id > lastEventId /\ wire[i].id <= served
           /\ wire[i] = Change(wire[i].id)
  BY WireIds
<1>2. /\ Len(wire') = rest
      /\ \A i \in 1..rest : wire'[i] = wire[k + i]
      /\ \A i \in 1..rest : k + i \in 1..Len(wire) /\ k + i > k
  BY <1>1, Prefix DEF ChunkContinues, TypeOK
<1>3. /\ \A i \in 1..k : IsChange(wire[i]) => wire[i].id \in ids
      /\ \A n \in ids : \E i \in 1..k : IsChange(wire[i]) /\ n = wire[i].id
  BY SnapshotsOfPrefix
<1>4. \/ ids = {} /\ lastEventId' = lastEventId /\ parserId' = parserId
      \/ /\ lastEventId' \in ids /\ \A n \in ids : n <= lastEventId'
         /\ parserId' = lastEventId'
  BY DEF ChunkContinues
<1> HIDE DEF ids
<1>5. /\ lastEventId' \in Nat /\ lastEventId <= lastEventId' /\ lastEventId' <= served'
      /\ parserId' \in {0, lastEventId'}
  <2>1. CASE ids = {} /\ lastEventId' = lastEventId /\ parserId' = parserId
    BY <2>1, <1>1 DEF WireInv
  <2>2. CASE lastEventId' \in ids /\ parserId' = lastEventId'
    <3>1. PICK i \in 1..k : IsChange(wire[i]) /\ lastEventId' = wire[i].id
      BY <2>2, <1>3
    <3>2. i \in 1..Len(wire)
      BY <1>1
    <3> QED
      BY <3>1, <3>2, <2>2, <1>1
  <2> QED
    BY <2>1, <2>2, <1>4
<1>50. served' \in Nat
  <2>1. served' = served
    OBVIOUS
  <2> QED
    BY <2>1, <1>1
<1>51. lastEventId' \in Nat
  BY <1>5
<1>6. ASSUME NEW i \in 1..rest, IsChange(wire'[i])
      PROVE  lastEventId' < wire'[i].id /\ wire'[i].id <= served'
  <2>1. k + i \in 1..Len(wire) /\ IsChange(wire[k + i]) /\ wire'[i] = wire[k + i]
    BY <1>2, <1>6
  <2>2. CASE lastEventId' = lastEventId
    BY <2>1, <2>2, <1>1
  <2>3. CASE lastEventId' \in ids
    <3>1. PICK j \in 1..k : IsChange(wire[j]) /\ lastEventId' = wire[j].id
      BY <2>3, <1>3
    <3>2. j \in 1..Len(wire) /\ j < k + i
      BY <1>1
    <3> QED
      BY <3>1, <3>2, <2>1, <1>1 DEF WireInv, WireOrdered
  <2> QED
    BY <2>2, <2>3, <1>4
<1>7. ASSUME NEW n \in Nat, n > lastEventId', Carried(n)
      PROVE  Carried(n)'
  <2>1. PICK p \in 1..Len(wire) : wire[p] = Change(n)
    BY <1>7 DEF Carried
  <2>2. IsChange(wire[p]) /\ wire[p].id = n
    BY <2>1 DEF Change, IsChange
  <2>3. CASE p \in 1..k
    <3>1. n \in ids
      BY <2>2, <2>3, <1>3
    <3>2. n <= lastEventId'
      BY <3>1, <1>4
    <3> QED
      BY <3>2, <1>5, <1>7
  <2>4. CASE p \notin 1..k
    <3>1. p - k \in 1..rest /\ k + (p - k) = p
      BY <2>4, <1>1
    <3>2. wire'[p - k] = Change(n) /\ p - k \in 1..Len(wire')
      BY <3>1, <2>1, <1>2
    <3> QED
      BY <3>2 DEF Carried, Change
  <2> QED
    BY <2>3, <2>4
<1>8. WireOrdered'
  <2> SUFFICES ASSUME NEW i \in 1..rest, NEW j \in 1..rest,
                      IsChange(wire'[i]), IsChange(wire'[j]), i < j
               PROVE  wire'[i].id < wire'[j].id
    BY <1>2 DEF WireOrdered, IsChange
  <2>1. k + i \in 1..Len(wire) /\ k + j \in 1..Len(wire) /\ k + i < k + j
    BY <1>1
  <2> QED
    BY <2>1, <1>2 DEF WireInv, WireOrdered
<1>9. WireAhead'
  BY <1>2, <1>6 DEF WireAhead, IsChange
<1>10. WireGapless'
  <2>1. ASSUME NEW i \in 1..rest, IsChange(wire'[i]), NEW n \in wire'[i].id..served'
        PROVE  Carried(n)'
    <3>1. /\ k + i \in 1..Len(wire) /\ IsChange(wire[k + i]) /\ wire'[i] = wire[k + i]
          /\ lastEventId' < wire'[i].id
      BY <2>1, <1>2, <1>6
    <3>2. Carried(n)
      BY <3>1 DEF WireInv, WireGapless
    <3>3. n \in Nat /\ n > lastEventId'
      BY <3>1, <1>1, <1>5
    <3> QED
      BY <3>2, <3>3, <1>7
  <2>2. ASSUME lastEventId' # 0, NEW m \in (lastEventId' + 1)..served'
        PROVE  Carried(m)'
    <3>1. m \in Nat /\ m > lastEventId'
      BY <1>50, <1>51, AboveNat
    <3>2. Carried(m)
      <4>1. CASE lastEventId' = lastEventId
        BY <4>1, <2>2 DEF WireInv, WireGapless
      <4>2. CASE lastEventId' \in ids
        <5>1. PICK j \in 1..k : IsChange(wire[j]) /\ lastEventId' = wire[j].id
          BY <4>2, <1>3
        <5>2. j \in 1..Len(wire) /\ m \in wire[j].id..served
          BY <5>1, <3>1, <1>1, <1>5, <2>2
        <5> QED
          BY <5>1, <5>2 DEF WireInv, WireGapless
      <4> QED
        BY <4>1, <4>2, <1>4
    <3> QED
      BY <3>1, <3>2, <1>7
  <2> QED
    BY <2>1, <2>2, <1>2 DEF WireGapless, IsChange, Carried
<1>11. (\E i \in 1..Len(wire') : wire'[i] = Big) => oversized' > 0
  BY <1>2 DEF WireInv
<1> QED
  BY <1>5, <1>8, <1>9, <1>10, <1>11 DEF WireInv, Big

LEMMA WireKeeps ==
  ASSUME TypeOK, WireInv, [Next]_vars
  PROVE  WireInv'
<1>1. CASE RecordChanges
  BY <1>1 DEF RecordChanges, loopVars, WireInv, WireOrdered, WireAhead, WireGapless, Carried,
              IsChange, Change, Big
<1>2. CASE Push
  BY <1>2, PushKeepsWire
<1>3. CASE KeepAlive
  <2>1. Ping \in Frames /\ ~IsChange(Ping) /\ Ping # Big
    BY DEF Ping, Big, Frames, IsChange
  <2> QED
    BY <1>3, <2>1, OtherKeepsWire DEF KeepAlive, loopVars, TypeOK
<1>4. CASE SendOversized
  <2>1. Big \in Frames /\ ~IsChange(Big)
    BY DEF Big, Frames, IsChange
  <2> QED
    BY <1>4, <2>1, OtherKeepsWire, WaitAssumption DEF SendOversized, loopVars, TypeOK
<1>5. CASE Connect
  BY <1>5, ConnectKeepsWire
<1>6. CASE FetchFails
  BY <1>6 DEF FetchFails, PauseFrom, WireInv
<1>7. CASE Refused
  BY <1>7 DEF Refused, WireInv
<1>8. CASE ReadChunk
  <2>1. PICK k \in 1..Len(wire) :
          ChunkContinues(k) \/ \E e \in 1..k : ChunkDecides(k, e)
    BY <1>8, ReadChunkDoes
  <2>2. loop = "read" /\ UNCHANGED <<served, oversized>>
    BY <1>8 DEF ReadChunk
  <2>3. CASE ChunkContinues(k)
    BY <2>2, <2>3, ContinueKeepsWire
  <2>4. CASE \E e \in 1..k : ChunkDecides(k, e)
    BY <2>4 DEF ChunkDecides, WireInv
  <2> QED
    BY <2>1, <2>3, <2>4
<1>9. CASE ReadOversized
  BY <1>9 DEF ReadOversized, WireInv
<1>10. CASE ConnectionEnds
  BY <1>10 DEF ConnectionEnds, WireInv
<1>11. CASE LoopAborted
  <2>1. loop' # "read"
    BY <1>11 DEF LoopAborted
  <2> QED
    BY <2>1 DEF WireInv
<1>12. CASE BodyCancelled
  <2>1. loop' # "read"
    BY <1>12 DEF BodyCancelled, PauseFrom
  <2> QED
    BY <2>1 DEF WireInv
<1>13. CASE Wake
  BY <1>13 DEF Wake, WireInv
<1>14. CASE Race \/ UNCHANGED vars
  BY <1>14 DEF Race, DeadlinePasses, CallerAborts, vars, gatewayVars, loopVars, WireInv,
               WireOrdered, WireAhead, WireGapless, Carried, IsChange, Change, Big
<1> QED
  BY <1>1, <1>2, <1>3, <1>4, <1>5, <1>6, <1>7, <1>8, <1>9, <1>10, <1>11, <1>12, <1>13,
     <1>14 DEF Next, Gateway, Request, Read

(* Evaluating a prefix of the wire up to position e leaves no gap: what is *)
(* on the wire continues what was evaluated before.                        *)
LEMMA NoGap ==
  ASSUME TypeOK, WireInv, SeenInv, loop = "read", verdict \notin Decided, oversized = 0,
         NEW e \in 1..Len(wire), seen' = seen \cup Snapshots(SubSeq(wire, 1, e))
  PROVE  NoChangeMissed'
<1>1. /\ Len(wire) \in Nat /\ lastEventId \in Nat /\ served \in Nat
      /\ \A i \in 1..Len(wire) : IsChange(wire[i]) =>
           /\ wire[i].id \in Nat /\ wire[i].id > lastEventId /\ wire[i].id <= served
           /\ wire[i] = Change(wire[i].id)
  BY WireIds
<1>2. /\ \A i \in 1..e : IsChange(wire[i]) => wire[i].id \in seen'
      /\ \A n \in seen' : n \in seen \/ \E i \in 1..e : IsChange(wire[i]) /\ n = wire[i].id
      /\ seen \subseteq seen'
  BY SnapshotsOfPrefix
<1>3. /\ seen \subseteq 1..lastEventId
      /\ lastEventId # 0 => lastEventId \in seen
      /\ \A i, j \in seen : \A k \in i..j : k \in seen
  BY DEF SeenInv, NoChangeMissedWithinCaps, NoChangeMissed
<1> SUFFICES ASSUME NEW i \in seen', NEW j \in seen', NEW k \in i..j
             PROVE  k \in seen'
  BY DEF NoChangeMissed
<1>4. i \in Nat /\ j \in Nat /\ k \in Nat /\ i <= k /\ k <= j /\ i >= 1
  <2>1. ASSUME NEW n \in seen' PROVE n \in Nat /\ n >= 1
    <3>1. CASE n \in seen
      BY <3>1, <1>1, <1>3
    <3>2. CASE \E q \in 1..e : IsChange(wire[q]) /\ n = wire[q].id
      BY <3>2, <1>1
    <3> QED
      BY <3>1, <3>2, <1>2
  <2> QED
    BY <2>1
<1>5. CASE k <= lastEventId
  <2>1. i \in seen
    <3> SUFFICES ASSUME NEW q \in 1..e, IsChange(wire[q]), i = wire[q].id
                 PROVE  FALSE
      BY <1>2
    <3>1. q \in 1..Len(wire)
      BY <1>1
    <3> QED
      BY <3>1, <1>1, <1>4, <1>5
  <2>2. lastEventId \in seen /\ k \in i..lastEventId
    BY <1>1, <1>3, <1>4, <1>5
  <2> QED
    BY <2>1, <2>2, <1>2, <1>3
<1>6. CASE k > lastEventId
  <2>1. PICK q \in 1..e : IsChange(wire[q]) /\ j = wire[q].id
    <3>1. j \notin seen
      BY <1>1, <1>3, <1>4, <1>6
    <3> QED
      BY <3>1, <1>2
  <2>2. q \in 1..Len(wire) /\ j <= served
    BY <2>1, <1>1
  <2>3. Carried(k)
    <3>1. CASE i \in seen
      <4>1. lastEventId # 0 /\ k \in (lastEventId + 1)..served
        BY <3>1, <2>2, <1>1, <1>3, <1>4, <1>6
      <4> QED
        BY <4>1 DEF WireInv, WireGapless
    <3>2. CASE \E r \in 1..e : IsChange(wire[r]) /\ i = wire[r].id
      <4>1. PICK r \in 1..e : IsChange(wire[r]) /\ i = wire[r].id
        BY <3>2
      <4>2. r \in 1..Len(wire) /\ k \in wire[r].id..served
        BY <4>1, <2>2, <1>1, <1>4
      <4> QED
        BY <4>1, <4>2 DEF WireInv, WireGapless
    <3> QED
      BY <3>1, <3>2, <1>2
  <2>4. PICK p \in 1..Len(wire) : wire[p] = Change(k)
    BY <2>3 DEF Carried
  <2>5. IsChange(wire[p]) /\ wire[p].id = k
    BY <2>4 DEF Change, IsChange
  <2>6. p \in 1..e
    <3> SUFFICES ASSUME q < p PROVE FALSE
      BY <1>1, <2>1
    <3>1. j < k
      BY <2>1, <2>2, <2>5 DEF WireInv, WireOrdered
    <3> QED
      BY <3>1, <1>4
  <2> QED
    BY <2>5, <2>6, <1>2
<1> QED
  BY <1>4, <1>5, <1>6, <1>1

(* The steps that leave alone what has been evaluated.                     *)
LEMMA SeenStays ==
  ASSUME TypeOK, SeenInv, UNCHANGED seen, oversized' >= oversized, oversized' \in Nat,
         verdict' \in Decided => verdict \in Decided /\ loop' \in {"close", "ended"},
         verdict' \notin Decided => verdict \notin Decided,
         lastEventId' \in Nat,
         lastEventId' = lastEventId \/ (lastEventId' >= lastEventId /\ oversized' > 0)
  PROVE  SeenInv'
<1>1. lastEventId \in Nat /\ oversized \in Nat
  BY DEF TypeOK
<1>2. verdict' \notin Decided =>
        /\ seen' \subseteq 1..lastEventId'
        /\ oversized' = 0 /\ lastEventId' # 0 => lastEventId' \in seen'
  BY <1>1 DEF SeenInv
<1>3. NoChangeMissedWithinCaps'
  BY <1>1 DEF SeenInv, NoChangeMissedWithinCaps, NoChangeMissed
<1> QED
  BY <1>2, <1>3 DEF SeenInv, Decided

LEMMA SeenKeeps ==
  ASSUME TypeOK, WireInv, SeenInv, [Next]_vars
  PROVE  SeenInv'
<1>0. oversized \in Nat /\ lastEventId \in Nat /\ Len(log) \in Nat
  BY DEF TypeOK
<1>1. CASE ReadChunk
  <2>1. PICK k \in 1..Len(wire) :
          ChunkContinues(k) \/ \E e \in 1..k : ChunkDecides(k, e)
    BY <1>1, ReadChunkDoes
  <2>2. loop = "read" /\ UNCHANGED oversized /\ Len(wire) \in Nat /\ verdict \notin Decided
    BY <1>1 DEF ReadChunk, TypeOK, SeenInv
  <2>3. ASSUME NEW e \in 1..Len(wire), ChunkRead(k, e)
        PROVE  NoChangeMissedWithinCaps'
    BY <2>2, <2>3, NoGap DEF ChunkRead, NoChangeMissedWithinCaps
  <2>4. CASE ChunkContinues(k)
    <3> DEFINE ids == Snapshots(SubSeq(wire, 1, k))
    <3>1. /\ ids \subseteq (lastEventId + 1)..served /\ served \in Nat
          /\ seen \subseteq 1..lastEventId
          /\ oversized = 0 /\ lastEventId # 0 => lastEventId \in seen
      BY <2>2, SnapshotsBounded DEF SeenInv
    <3>2. /\ seen' = seen \cup ids /\ UNCHANGED <<verdict, loop>>
          /\ \/ ids = {} /\ lastEventId' = lastEventId
             \/ lastEventId' \in ids /\ \A n \in ids : n <= lastEventId'
      BY <2>4 DEF ChunkContinues, ChunkRead
    <3> HIDE DEF ids
    <3>3. seen' \subseteq 1..lastEventId'
      <4>1. CASE ids = {}
        BY <4>1, <3>1, <3>2
      <4>2. CASE lastEventId' \in ids /\ \A n \in ids : n <= lastEventId'
        <5>1. lastEventId' \in Nat /\ lastEventId <= lastEventId'
          BY <4>2, <3>1, <1>0
        <5>2. \A n \in seen : n \in 1..lastEventId'
          BY <5>1, <3>1, <1>0
        <5>3. \A n \in ids : n \in 1..lastEventId'
          BY <5>1, <4>2, <3>1, <1>0
        <5> QED
          BY <5>2, <5>3, <3>2
      <4> QED
        BY <4>1, <4>2, <3>2
    <3>4. oversized' = 0 /\ lastEventId' # 0 => lastEventId' \in seen'
      BY <3>1, <3>2, <2>2
    <3>5. NoChangeMissedWithinCaps'
      BY <2>3, <2>4 DEF ChunkContinues
    <3> QED
      BY <3>2, <3>3, <3>4, <3>5, <2>2 DEF SeenInv
  <2>5. ASSUME NEW e \in 1..k, ChunkDecides(k, e)
        PROVE  SeenInv'
    <3>1. e \in 1..Len(wire)
      BY <2>2
    <3>2. verdict' \in Decided /\ loop' = "close"
      BY <2>2, <2>5, <3>1, DecidesAt DEF ChunkDecides
    <3>3. NoChangeMissedWithinCaps'
      BY <2>3, <2>5, <3>1 DEF ChunkDecides
    <3> QED
      BY <3>2, <3>3 DEF SeenInv
  <2> QED
    BY <2>1, <2>4, <2>5
<1>2. CASE ReadOversized
  <2>1. oversized > 0 /\ lastEventId' \in lastEventId..Len(log)
    BY <1>2, ReadOversizedDoes
  <2>2. /\ verdict' = "retry" /\ verdict \notin Decided /\ UNCHANGED <<seen, oversized>>
        /\ lastEventId' \in Nat /\ lastEventId' >= lastEventId
    BY <1>2, <2>1, <1>0 DEF ReadOversized, waitVars, SeenInv
  <2> QED
    BY <2>1, <2>2, <1>0, SeenStays DEF Decided
<1>3. CASE ConnectionEnds
  <2>1. loop = "read" /\ lastEventId' = lastEventId
    BY <1>3 DEF ConnectionEnds, ResumePoint, WireInv
  <2> QED
    BY <1>3, <2>1, <1>0, SeenStays DEF ConnectionEnds, waitVars, Decided, SeenInv
<1>4. CASE Gateway
  <2>1. /\ UNCHANGED <<seen, verdict, loop, lastEventId>>
        /\ oversized' >= oversized /\ oversized' \in Nat
    BY <1>4, <1>0 DEF Gateway, RecordChanges, Push, KeepAlive, SendOversized, loopVars, waitVars
  <2> QED
    BY <2>1, <1>0, SeenStays DEF SeenInv
<1>5. CASE Request
  <2>1. UNCHANGED <<seen, verdict, lastEventId, oversized>> /\ loop \notin {"close", "ended"}
    BY <1>5 DEF Request, Connect, FetchFails, Refused, waitVars, gatewayVars
  <2> QED
    BY <2>1, <1>0, SeenStays DEF SeenInv
<1>6. CASE LoopAborted
  <2>1. /\ UNCHANGED <<seen, lastEventId, oversized>> /\ verdict' \in {verdict, "abort"}
        /\ loop \notin {"close", "ended"} /\ loop' \in {"close", "ended"}
    BY <1>6 DEF LoopAborted, waitVars
  <2> QED
    BY <2>1, <1>0, SeenStays DEF SeenInv, Decided
<1>7. CASE BodyCancelled
  <2>1. UNCHANGED <<seen, lastEventId, oversized, verdict>>
    BY <1>7 DEF BodyCancelled, gatewayVars
  <2>2. verdict \in Decided => loop' = "ended"
    BY <1>7 DEF BodyCancelled, Decided
  <2> QED
    BY <2>1, <2>2, <1>0, SeenStays
<1>8. CASE Wake
  <2>1. UNCHANGED <<seen, lastEventId, oversized, verdict>> /\ loop = "sleep"
    BY <1>8 DEF Wake, gatewayVars, waitVars
  <2> QED
    BY <2>1, <1>0, SeenStays DEF SeenInv
<1>9. CASE Race \/ UNCHANGED vars
  <2>1. UNCHANGED <<seen, lastEventId, oversized, verdict, loop>>
    BY <1>9 DEF Race, DeadlinePasses, CallerAborts, vars, gatewayVars, loopVars, waitVars
  <2> QED
    BY <2>1, <1>0, SeenStays DEF SeenInv
<1> QED
  BY <1>1, <1>2, <1>3, <1>4, <1>5, <1>6, <1>7, <1>8, <1>9 DEF Next, Read

(* The steps that evaluate nothing: the log may grow, a loop that is not   *)
(* decided may change its verdict, and only a decided loop settles the     *)
(* wait with a snapshot.                                                   *)
LEMMA DecisionStays ==
  ASSUME TypeOK, DecisionInv, UNCHANGED <<seen, lastSnapshot, target>>,
         \A i \in 1..Len(log) : log'[i] = log[i],
         verdict' = verdict \/ (verdict \notin Decided /\ verdict' \notin Decided),
         outcome' \in Decided => outcome' = outcome \/ outcome' = verdict
  PROVE  DecisionInv'
<1>1. seen \subseteq 1..Len(log)
  BY DEF TypeOK
<1>2. ASSUME NEW i \in 1..Len(log)
      PROVE  Evaluate(log[i])' = Evaluate(log[i])
  <2>1. log'[i] = log[i] /\ target' = target
    OBVIOUS
  <2> QED
    BY <2>1 DEF Evaluate
<1>3. \A i \in seen : Undecided(i)' <=> Undecided(i)
  BY <1>1, <1>2 DEF Undecided
<1>4. verdict \in Decided => Evaluate(log[lastSnapshot])' = Evaluate(log[lastSnapshot])
  BY <1>1, <1>2 DEF DecisionInv
<1>5. CASE verdict \in Decided
  <2>1. verdict' = verdict
    BY <1>5
  <2>2. /\ lastSnapshot' \in seen'
        /\ Evaluate(log[lastSnapshot])' = verdict'
        /\ \A i \in seen' \ {lastSnapshot'} : Undecided(i)'
    BY <1>3, <1>4, <1>5, <2>1 DEF DecisionInv
  <2>3. outcome' \in Decided => verdict' = outcome'
    BY <2>1 DEF DecisionInv
  <2> QED
    BY <1>5, <2>1, <2>2, <2>3 DEF DecisionInv, Decided, Undecided
<1>6. CASE verdict \notin Decided
  <2>1. verdict' \notin Decided /\ outcome' \notin Decided
    BY <1>6 DEF DecisionInv
  <2>2. \A i \in seen' : Undecided(i)'
    BY <1>3, <1>6 DEF DecisionInv
  <2> QED
    BY <2>1, <2>2 DEF DecisionInv, Decided, Undecided
<1> QED
  BY <1>5, <1>6

LEMMA DecisionKeeps ==
  ASSUME TypeOK, WireInv, SeenInv, DecisionInv, [Next]_vars
  PROVE  DecisionInv'
<1>1. CASE ReadChunk
  <2>1. PICK k \in 1..Len(wire) :
          ChunkContinues(k) \/ \E e \in 1..k : ChunkDecides(k, e)
    BY <1>1, ReadChunkDoes
  <2>2. /\ loop = "read" /\ Len(wire) \in Nat /\ verdict \notin Decided
        /\ UNCHANGED <<log, target, outcome>> /\ outcome \notin Decided
        /\ \A i \in seen : Undecided(i)
    BY <1>1 DEF ReadChunk, TypeOK, SeenInv, DecisionInv
  <2>3. \A i : Undecided(i)' <=> Undecided(i)
    BY <2>2 DEF Undecided, Evaluate
  <2>4. CASE ChunkContinues(k)
    <3>1. UNCHANGED verdict /\ seen' = seen \cup Snapshots(SubSeq(wire, 1, k))
      BY <2>4 DEF ChunkContinues, ChunkRead
    <3>2. \A i \in 1..k : IsChange(wire[i]) => Undecided(wire[i].id)
      <4>1. \A i \in 1..k : i \in 1..(k - 1) \/ i = k
        BY <2>2
      <4> QED
        BY <4>1, <2>4 DEF ChunkContinues, ChunkRead
    <3>3. \A i \in seen' : Undecided(i)
      BY <3>1, <3>2, <2>2, SnapshotsOfPrefix
    <3> QED
      BY <3>1, <3>3, <2>2, <2>3 DEF DecisionInv, Decided, Undecided
  <2>5. ASSUME NEW e \in 1..k, ChunkDecides(k, e)
        PROVE  DecisionInv'
    <3>1. e \in 1..Len(wire) /\ \A i \in 1..e : i \in 1..(e - 1) \/ i = e
      BY <2>2
    <3>2. lastSnapshot' = wire[e].id /\ lastSnapshot' \in seen' /\ verdict' \in Decided
      BY <2>2, <2>5, <3>1, DecidesAt
    <3>3. Evaluate(log[lastSnapshot])' = verdict'
      <4>1. verdict' = Evaluate(log[lastSnapshot'])
        BY <2>5 DEF ChunkDecides
      <4> QED
        BY <4>1, <2>2 DEF Evaluate
    <3>4. \A i \in seen' \ {lastSnapshot'} : Undecided(i)
      <4>1. /\ seen' = seen \cup Snapshots(SubSeq(wire, 1, e))
            /\ \A i \in 1..(e - 1) : IsChange(wire[i]) => Undecided(wire[i].id)
        BY <2>5 DEF ChunkDecides, ChunkRead
      <4> QED
        BY <4>1, <3>1, <3>2, <2>2, SnapshotsOfPrefix
    <3> QED
      BY <3>2, <3>3, <3>4, <2>2, <2>3 DEF DecisionInv, Decided, Undecided
  <2> QED
    BY <2>1, <2>4, <2>5
<1>2. CASE RecordChanges
  <2>1. \A i \in 1..Len(log) : log'[i] = log[i]
    BY <1>2, AppendProperties DEF RecordChanges, TypeOK
  <2> QED
    BY <1>2, <2>1, DecisionStays DEF RecordChanges, loopVars, waitVars
<1>3. CASE Push \/ KeepAlive \/ SendOversized \/ Connect \/ FetchFails \/ Wake
  <2>1. UNCHANGED <<log, seen, lastSnapshot, target, outcome, verdict>>
    BY <1>3 DEF Push, KeepAlive, SendOversized, Connect, FetchFails, Wake, gatewayVars,
                loopVars, waitVars
  <2> QED
    BY <2>1, DecisionStays
<1>4. CASE ReadOversized \/ ConnectionEnds \/ LoopAborted
  <2>1. /\ UNCHANGED <<log, seen, lastSnapshot, target, outcome>>
        /\ verdict' \in {verdict, "retry", "abort"}
        /\ loop \notin {"close", "ended"}
    BY <1>4 DEF ReadOversized, ConnectionEnds, LoopAborted, waitVars
  <2>2. verdict \notin Decided
    BY <2>1 DEF SeenInv
  <2> QED
    BY <2>1, <2>2, DecisionStays DEF Decided
<1>5. CASE BodyCancelled
  <2>1. /\ UNCHANGED <<log, seen, lastSnapshot, target, verdict>>
        /\ outcome' = outcome \/ outcome' = verdict
    BY <1>5 DEF BodyCancelled, gatewayVars
  <2> QED
    BY <2>1, DecisionStays
<1>6. CASE Refused \/ Race \/ UNCHANGED vars
  <2>1. /\ UNCHANGED <<log, seen, lastSnapshot, target, verdict>>
        /\ outcome' \in {outcome, "refused", "timeout", "aborted"}
    BY <1>6 DEF Refused, Race, DeadlinePasses, CallerAborts, vars, gatewayVars, loopVars, waitVars
  <2> QED
    BY <2>1, DecisionStays DEF Decided
<1> QED
  BY <1>1, <1>2, <1>3, <1>4, <1>5, <1>6 DEF Next, Gateway, Request, Read

LEMMA InitKeeps == Init => WaitInv
<1> SUFFICES ASSUME Init PROVE WaitInv
  OBVIOUS
<1>1. TypeOK
  <2>1. log \in Seq(Statuses) /\ Len(log) = 1 /\ wire \in Seq(Frames)
    BY DEF Init, Statuses
  <2>2. Len(log) \in 1..MaxSeq /\ 0 \in 0..Len(log)
    BY <2>1, WaitAssumption
  <2>3. 0 \in 0..MaxFaults /\ 0 \in 0..MaxPings /\ 0 \in 0..MaxOversized /\ 0 \in 0..LadderTop
    BY WaitAssumption
  <2> QED
    BY <2>1, <2>2, <2>3 DEF Init, TypeOK
<1>2. WireInv
  BY DEF Init, WireInv
<1>3. SeenInv /\ DecisionInv
  BY DEF Init, SeenInv, DecisionInv, NoChangeMissedWithinCaps, NoChangeMissed, Decided
<1> QED
  BY <1>1, <1>2, <1>3 DEF WaitInv

-----------------------------------------------------------------------------
(* The theorems.                                                           *)

(* The inductive invariant: what is on the wire continues, in order and    *)
(* without a gap, what the loop has evaluated, and a decided loop holds    *)
(* the one decisive snapshot it evaluated (poe-events.ts).                 *)
THEOREM WaitInvAlways == Spec => []WaitInv
<1>1. WaitInv /\ [Next]_vars => WaitInv'
  BY TypeKeeps, WireKeeps, SeenKeeps, DecisionKeeps DEF WaitInv
<1> QED
  BY <1>1, InitKeeps, PTL DEF Spec

(* Every variable has its type, and no SSE id is ahead of the record.      *)
THEOREM WaitTypeCorrect == Spec => []TypeOK
<1>1. WaitInv => TypeOK
  BY DEF WaitInv
<1> QED
  BY <1>1, WaitInvAlways, PTL

(* No status change is missed across a reconnect while no frame is over    *)
(* the parser's caps, whichever frames the dropped connections took along. *)
THEOREM NothingMissed == Spec => []NoChangeMissedWithinCaps
<1>1. WaitInv => NoChangeMissedWithinCaps
  BY DEF WaitInv, SeenInv
<1> QED
  BY <1>1, WaitInvAlways, PTL

(* A wait settled by a snapshot is settled by the first decisive one.      *)
THEOREM FirstDecisiveCorrect == Spec => []FirstDecisiveWins
<1>1. WaitInv => FirstDecisiveWins
  BY DEF WaitInv, DecisionInv, FirstDecisiveWins, Decided, Undecided
<1> QED
  BY <1>1, WaitInvAlways, PTL

(* No step moves the resume point back: what was committed is not replayed *)
(* and a reconnect does not start over from a fresh snapshot.              *)
THEOREM ResumePointCorrect == Spec => ResumePointAdvances
<1>1. ASSUME WaitInv, [Next]_vars
      PROVE  [lastEventId' >= lastEventId]_lastEventId
  <2>0. TypeOK /\ WireInv /\ lastEventId \in Nat /\ served \in Nat
    BY <1>1 DEF WaitInv, TypeOK
  <2>1. CASE ReadChunk
    <3>1. PICK k \in 1..Len(wire) :
            ChunkContinues(k) \/ \E e \in 1..k : ChunkDecides(k, e)
      BY <2>0, <2>1, ReadChunkDoes
    <3>2. Snapshots(SubSeq(wire, 1, k)) \subseteq (lastEventId + 1)..served
      BY <2>0, <2>1, SnapshotsBounded DEF ReadChunk
    <3> QED
      BY <3>1, <3>2, <2>0 DEF ChunkContinues, ChunkDecides
  <2>2. CASE ReadOversized
    BY <2>0, <2>2, ReadOversizedDoes DEF TypeOK
  <2>3. CASE ConnectionEnds
    BY <2>0, <2>3 DEF ConnectionEnds, ResumePoint, WireInv
  <2>4. CASE Gateway \/ Request \/ LoopAborted \/ BodyCancelled \/ Wake \/ Race \/ UNCHANGED vars
    BY <2>4 DEF Gateway, RecordChanges, Push, KeepAlive, SendOversized, Request, Connect,
                FetchFails, Refused, LoopAborted, BodyCancelled, Wake, Race, DeadlinePasses,
                CallerAborts, vars, loopVars
  <2> QED
    BY <1>1, <2>1, <2>2, <2>3, <2>4 DEF Next, Read
<1> QED
  BY <1>1, WaitInvAlways, PTL DEF Spec, ResumePointAdvances

=============================================================================
