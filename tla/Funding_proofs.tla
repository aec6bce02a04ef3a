--------------------------- MODULE Funding_proofs ---------------------------
(***************************************************************************)
(* The walk of Funding passes over no settlement and books none twice, for *)
(* any window, interval and horizon, however many pages fail.              *)
(***************************************************************************)
EXTENDS Funding, TLAPS

-----------------------------------------------------------------------------
(* The inductive invariant *)

\* The table is a bag in which whatever is there is there once.
OneOfEach == events = SetToBag(BagToSet(events))

FundingInv == TypeOK /\ OneOfEach /\ CoveredIsCollected

\* Recording what the table does not have makes it hold both, once each.
LEMMA RecordOnce ==
  ASSUME NEW table, NEW records, table = SetToBag(BagToSet(table))
  PROVE  /\ BagToSet(record_new_funding_events(table, records)) = BagToSet(table) \cup records
         /\ record_new_funding_events(table, records)
              = SetToBag(BagToSet(table) \cup records)
<1> DEFINE S == BagToSet(table)
           N == records \ S
<1>1. table = [e \in S |-> 1] /\ DOMAIN table = S
  BY DEF SetToBag, BagToSet
<1>2. SetToBag(N) = [e \in N |-> 1]
  BY DEF SetToBag
<1>3. S \cup N = S \cup records
  OBVIOUS
<1> DEFINE R == record_new_funding_events(table, records)
<1>4. R = [e \in S \cup N |->
             (IF e \in S THEN table[e] ELSE 0) + (IF e \in N THEN SetToBag(N)[e] ELSE 0)]
  BY <1>1, <1>2 DEF record_new_funding_events, (+), BagToSet, SetToBag
<1> HIDE DEF S, N, R
<1>5. S \cap N = {}
  BY DEF N
<1>6. ASSUME NEW e \in S \cup N
      PROVE  (IF e \in S THEN table[e] ELSE 0) + (IF e \in N THEN SetToBag(N)[e] ELSE 0) = 1
  BY <1>1, <1>2, <1>5
<1>7. R = [e \in S \cup N |-> 1]
  BY <1>4, <1>6
<1> QED
  BY <1>3, <1>7 DEF R, S, SetToBag, BagToSet

\* The windows up to t end no later than t, and the first one ends after its beginning.
LEMMA WindowBounds ==
  ASSUME NEW t \in Nat, NEW from \in Int, NEW n \in Nat
  PROVE  WindowEnd(from, n, t) \in Int /\ WindowEnd(from, n, t) <= t
<1>1. n * FundingWindow \in Int
  BY FundingAssumption
<1> QED
  BY <1>1 DEF WindowEnd, Earliest

\* The checkpoint goes forward, never past the end of the last whole window.
LEMMA CoveredBounds ==
  ASSUME NEW t \in Nat, NEW checkpoint \in 0 .. t, NEW from \in Int, NEW n \in Nat
  PROVE  /\ Covered(checkpoint, from, n, t) \in checkpoint .. t
         /\ \/ Covered(checkpoint, from, n, t) = checkpoint
            \/ Covered(checkpoint, from, n, t) = WindowEnd(from, n, t)
  BY WindowBounds DEF Covered

\* What a walk brings, and how far it gets.
LEMMA WalkReaches ==
  ASSUME NEW t \in Nat, NEW checkpoint \in 0 .. t, NEW known \in SUBSET (1 .. t),
         NEW walked \in Walk(known, checkpoint, t)
  PROVE  /\ walked.records \subseteq known
         /\ walked.covered \in checkpoint .. t
         /\ \A e \in known : /\ WalkFrom(checkpoint, t) <= e
                             /\ checkpoint <= e /\ e < walked.covered
                             => e \in walked.records
<1> DEFINE from == WalkFrom(checkpoint, t)
           windows == Windows(from, t)
           end(n) == WindowEnd(from, n, t)
           whole(n) == Settled(known, from, end(n))
           some(n) == IF n = windows THEN {{}} ELSE SUBSET Settled(known, end(n), end(n + 1))
<1>1. from \in Int /\ windows \in Nat
  <2>1. from \in Int
    BY FundingAssumption DEF WalkFrom
  <2>2. CASE from < t
    <3>1. t - from - 1 \in Nat
      BY <2>1, <2>2
    <3>2. (t - from - 1) \div FundingWindow \in Nat
      BY <3>1, FundingAssumption
    <3> QED
      BY <2>1, <2>2, <3>2 DEF Windows
  <2>3. CASE ~ from < t
    BY <2>1, <2>3 DEF Windows
  <2> QED
    BY <2>1, <2>2, <2>3
<1>2. PICK n \in 0 .. windows : \E part \in some(n) :
        walked = [records |-> whole(n) \union part,
                  covered |-> Covered(checkpoint, from, n, t)]
  BY DEF Walk
<1>3. PICK part \in some(n) :
        walked = [records |-> whole(n) \union part,
                  covered |-> Covered(checkpoint, from, n, t)]
  BY <1>2
<1>4. whole(n) \subseteq known /\ part \subseteq known
  BY DEF Settled
<1> HIDE DEF from, windows, some
<1>5. /\ walked.covered \in checkpoint .. t
      /\ walked.covered = checkpoint \/ walked.covered = end(n)
  BY <1>1, <1>3, CoveredBounds
<1>6. ASSUME NEW e \in known, from <= e, checkpoint <= e, e < walked.covered
      PROVE  e \in whole(n)
  <2>1. e \in Int /\ end(n) \in Int
    BY <1>1, WindowBounds
  <2>2. e < end(n)
    BY <1>5, <1>6, <2>1
  <2> QED
    BY <1>6, <2>1, <2>2 DEF Settled
<1> QED
  BY <1>3, <1>4, <1>5, <1>6 DEF from

-----------------------------------------------------------------------------
(* Every step keeps the invariant *)

\* The invariant holds before anything was collected.
LEMMA InitInv == Init => FundingInv
  BY FundingAssumption
     DEF Init, FundingInv, TypeOK, OneOfEach, CoveredIsCollected, Never,
         IsABag, EmptyBag, SetToBag, BagToSet

\* A table that holds everything once is a bag.
LEMMA OnceIsABag ==
  ASSUME NEW S
  PROVE  IsABag(SetToBag(S)) /\ BagToSet(SetToBag(S)) = S
  BY DEF IsABag, SetToBag, BagToSet

\* A collection that the transaction of its tick commits.
LEMMA CollectKeeps ==
  ASSUME FundingInv, CollectFunding
  PROVE  FundingInv'
<1> USE DEF FundingInv
<1>1. PICK walked \in Walk(settled, covered, now) :
        /\ events' = record_new_funding_events(events, walked.records)
        /\ covered' = walked.covered
  BY DEF CollectFunding
<1>2. /\ now \in Nat /\ covered \in 0 .. now /\ settled \in SUBSET (1 .. now)
      /\ BagToSet(events) \subseteq settled /\ anchor \in Int /\ anchor <= now
  BY DEF TypeOK
<1>3. /\ walked.records \subseteq settled
      /\ walked.covered \in covered .. now
      /\ \A e \in settled : /\ WalkFrom(covered, now) <= e
                            /\ covered <= e /\ e < walked.covered
                            => e \in walked.records
  BY <1>2, WalkReaches
<1>4. /\ BagToSet(events') = BagToSet(events) \cup walked.records
      /\ events' = SetToBag(BagToSet(events) \cup walked.records)
  BY <1>1, RecordOnce DEF OneOfEach
<1>5. OneOfEach'
  BY <1>4 DEF OneOfEach
<1>6. TypeOK'
  <2>1. IsABag(events') /\ BagToSet(events') \subseteq settled
    BY <1>2, <1>3, <1>4, OnceIsABag
  <2>2. anchor' \in Int /\ anchor' <= now
    BY <1>2, FundingAssumption DEF CollectFunding, WalkFrom
  <2> QED
    BY <1>1, <1>2, <1>3, <2>1, <2>2 DEF TypeOK, CollectFunding
<1>7. ASSUME NEW e \in settled, anchor' <= e, e < covered'
      PROVE  e \in BagToSet(events')
  <2>1. e \in 1 .. now
    BY <1>2
  <2>2. CASE covered = Never
    <3>1. WalkFrom(covered, now) <= e /\ covered <= e
      BY <1>7, <2>1, <2>2 DEF CollectFunding, Never
    <3> QED
      BY <1>1, <1>3, <1>4, <1>7, <3>1
  <2>3. CASE covered # Never /\ e < covered
    BY <1>4, <1>7, <2>3 DEF CollectFunding, CoveredIsCollected
  <2>4. CASE covered # Never /\ covered <= e
    <3>1. WalkFrom(covered, now) <= e
      BY <2>4 DEF WalkFrom
    <3> QED
      BY <1>1, <1>3, <1>4, <1>7, <2>4, <3>1
  <2> QED
    BY <1>2, <2>1, <2>2, <2>3, <2>4
<1> QED
  BY <1>5, <1>6, <1>7 DEF CoveredIsCollected, CollectFunding

\* FundingInv is inductive.
LEMMA StepKeeps == FundingInv /\ [Next]_vars => FundingInv'
<1> SUFFICES ASSUME FundingInv, [Next]_vars PROVE FundingInv'
  OBVIOUS
<1> USE DEF FundingInv
<1>1. CASE Settle
  <2>1. now \in Nat /\ covered <= now /\ covered \in Nat /\ settled \subseteq 1 .. now
    BY DEF TypeOK
  <2>2. TypeOK' /\ OneOfEach'
    BY <1>1 DEF Settle, TypeOK, OneOfEach
  <2>3. CoveredIsCollected'
    BY <1>1, <2>1 DEF Settle, CoveredIsCollected
  <2> QED
    BY <2>2, <2>3
<1>2. CASE Tick
  <2>1. TypeOK'
    BY <1>2, FundingAssumption DEF Tick, TypeOK
  <2> QED
    BY <1>2, <2>1 DEF Tick, OneOfEach, CoveredIsCollected
<1>3. CASE CollectUndone
  BY <1>3 DEF CollectUndone, TypeOK, OneOfEach, CoveredIsCollected
<1>4. CASE Restart
  BY <1>4 DEF Restart, TypeOK, OneOfEach, CoveredIsCollected, Never
<1>5. CASE UNCHANGED vars
  BY <1>5 DEF vars, TypeOK, OneOfEach, CoveredIsCollected
<1> QED
  BY <1>1, <1>2, <1>3, <1>4, <1>5, CollectKeeps DEF Next

-----------------------------------------------------------------------------
(* The theorems *)

\* Types, single entries and coverage hold in every state of every walk.
THEOREM FundingSafe == Spec => []FundingInv
  BY InitInv, StepKeeps, PTL DEF Spec

\* No settlement older than the checkpoint is missing from the table, for any window and
\* interval, whatever pages fail, ticks are undone or restarts come between.
THEOREM NothingPassedOver == Spec => []CoveredIsCollected
  BY FundingSafe, PTL DEF FundingInv

\* No settlement is booked twice, however often a window is read again.
THEOREM NothingTwice == Spec => []BookedOnce
<1>1. FundingInv => BookedOnce
  BY DEF FundingInv, OneOfEach, BookedOnce, SetToBag, BagToSet
<1> QED
  BY <1>1, FundingSafe, PTL
=============================================================================
