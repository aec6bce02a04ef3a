------------------------- MODULE MarketData_proofs -------------------------
(***************************************************************************)
(* What the path of the candles promises, for any bounds, pages, prices    *)
(* and faults: the cursor passes over no candle, a restart stands where a  *)
(* process that never stopped would, and no signal is another one for it.  *)
(***************************************************************************)
EXTENDS MarketDataProperties, FiniteSetTheorems, SequenceTheorems, WellFoundedInduction, TLAPS

-----------------------------------------------------------------------------
(* Minutes *)

\* A minute is a number up to the bound.
LEMMA MinuteIs ==
  /\ MaxMinute \in Nat \ {0}
  /\ \A m : m \in Minute <=> m \in Nat /\ m <= MaxMinute
  /\ Never \notin Minute
  BY MinuteAssumption DEF Minute, Never

\* Some minutes have a first one.
LEMMA FirstMinute ==
  ASSUME NEW S \in SUBSET Minute, S # {}
  PROVE  Min(S) \in S /\ \A m \in S : Min(S) <= m
<1>1. \A m \in S : m \in Nat
  BY MinuteIs
<1>2. PICK x \in S : \A y \in S : ~ (<<y, x>> \in OpToRel(<, Nat))
  BY <1>1, NatLessThanWellFounded, WFMin
<1>3. \A y \in S : ~ y < x
  BY <1>1, <1>2 DEF OpToRel
<1>4. \A y \in S : x <= y
  BY <1>1, <1>3
<1> QED
  BY <1>4 DEF Min

\* And a last one.
LEMMA LastMinute ==
  ASSUME NEW S \in SUBSET Minute, S # {}
  PROVE  Max(S) \in S /\ \A m \in S : m <= Max(S)
<1> DEFINE Left == {k \in Nat : \E m \in S : k = MaxMinute - m}
<1>1. \A m \in S : m \in Nat /\ MaxMinute \in Nat /\ m <= MaxMinute
  BY MinuteIs
<1>2. Left # {}
  BY <1>1
<1>3. PICK k \in Left : \A l \in Left : ~ (<<l, k>> \in OpToRel(<, Nat))
  BY <1>2, NatLessThanWellFounded, WFMin
<1>4. \A l \in Left : ~ l < k
  BY <1>3 DEF OpToRel
<1>5. PICK x \in S : k = MaxMinute - x
  OBVIOUS
<1>6. ASSUME NEW m \in S PROVE x >= m
  <2>1. MaxMinute - m \in Left
    BY <1>1
  <2> HIDE DEF Left
  <2> QED
    BY <1>1, <1>4, <1>5, <2>1
<1>7. /\ Max(S) \in S /\ \A m \in S : Max(S) >= m
  BY <1>6 DEF Max
<1> QED
  BY <1>1, <1>7

\* The last stored candle
LEMMA LastStoredIs ==
  ASSUME stored \subseteq Minute
  PROVE  /\ LastStored \in Minute \union {Never}
         /\ \A m \in stored : m <= LastStored
         /\ LastStored = Never <=> stored = {}
         /\ stored # {} => LastStored \in stored
<1>1. CASE stored = {}
  BY <1>1 DEF LastStored
<1>2. CASE stored # {}
  BY <1>2, LastMinute, MinuteIs DEF LastStored
<1> QED
  BY <1>1, <1>2

\* A minute, or none
Instant == Minute \union {Never}

\* It is a number, and none is before every minute.
LEMMA InstantIs ==
  /\ \A m \in Instant : m \in Int /\ m >= Never /\ m <= MaxMinute
  /\ \A m \in Instant : m # Never => m \in Minute
  /\ Never = -1
  BY MinuteIs DEF Instant, Never

\* A provider and a call at rest are well typed.
LEMMA IdleType == Idle \in Poll /\ FreshProvider \in Provider
<1>1. 0 \in Minute /\ 0 \in 0 .. MaxPages - 1
  BY MinuteIs, PageAssumption
<1> QED
  BY <1>1 DEF Idle, Poll, FreshProvider, Provider

-----------------------------------------------------------------------------
(* The exchange's candles: what a memory, a call and the tables have to do with another *)

\* f is the last minute that a provider of memory p is done with.
Stands(f, p, rows) ==
  /\ f \in Instant
  /\ p.queue # {} => f = Min(p.queue) - 1
  /\ p.queue = {} => f = Later(p.cursor, IF rows = {} THEN Never ELSE Max(rows))

Delivered(f, rows, gone) ==
  /\ \A m \in rows : m <= f
  /\ \A m \in Minute : m <= f /\ (\E k \in rows : k < m) => m \in rows \union gone

Queued(f, queue) == \A k \in queue : \A m \in Minute : f < m /\ m <= k => m \in queue

CallFits(p, c, rows) ==
  /\ c.phase = "deliver" => p.queue # {}
  /\ c.phase \in {"bootstrap", "paging"} => p.queue = {}
  /\ c.phase = "bootstrap" => rows = {} /\ c.got = {}
  /\ c.phase = "paging" => /\ (IF rows = {} THEN Never ELSE Max(rows)) <= p.cursor
                           /\ p.cursor <= c.cursor /\ c.got = p.cursor + 1 .. c.cursor

OnPath(f, p, c, rows, gone) ==
  Stands(f, p, rows) /\ Delivered(f, rows, gone) /\ Queued(f, p.queue) /\ CallFits(p, c, rows)

CursorTyped ==
  /\ now \in Minute /\ venue \subseteq Minute /\ source \in Sources
  /\ prov \in Provider /\ poll \in Poll /\ stored \subseteq Minute /\ lost \subseteq Minute

WalkInv ==
  /\ CursorTyped
  /\ poll.phase = "deliver" => prov.queue # {}
  /\ source = "bybit" => \E f : OnPath(f, prov, poll, stored, lost)
  /\ source = "replay" => FixtureInOrder

\* It is the invariant.
LEMMA WalkIsCursor == WalkInv => CursorInv
<1> SUFFICES ASSUME WalkInv PROVE CursorInv
  OBVIOUS
<1>1. ASSUME source = "bybit" PROVE DeliveredSoFar /\ NothingLeftOut
  <2>1. PICK f : OnPath(f, prov, poll, stored, lost)
    BY <1>1 DEF WalkInv
  <2>2. f = Reached
    BY <2>1 DEF OnPath, Stands, Reached, LastStored
  <2> QED
    BY <2>1, <2>2 DEF OnPath, Delivered, Queued, CallFits, DeliveredSoFar, NothingLeftOut, LastStored
<1> QED
  BY <1>1 DEF WalkInv, CursorInv, CursorTyped

\* A memory with nothing queued that was begun anew stands at the last stored candle.
LEMMA BegunAnew ==
  ASSUME NEW rows \in SUBSET Minute, NEW gone, NEW f \in Instant,
         Delivered(f, rows, gone)
  PROVE  \E g : OnPath(g, FreshProvider, Idle, rows, gone)
<1> DEFINE g == IF rows = {} THEN Never ELSE Max(rows)
<1>1. g \in Instant /\ \A m \in rows : m <= g
  BY LastMinute DEF Instant
<1>2. rows # {} => g <= f
  BY LastMinute DEF Delivered
<1> HIDE DEF g
<1>3. \A m \in rows : m \in Nat
  BY MinuteIs
<1>4. Delivered(g, rows, gone)
  <2> SUFFICES ASSUME NEW m \in Minute, m <= g, NEW k \in rows, k < m
               PROVE  m \in rows \union gone
    BY <1>1 DEF Delivered
  <2>1. rows # {} /\ m <= f
    <3>1. g \in Int /\ m \in Int
      BY <1>1, InstantIs DEF Instant
    <3>2. rows # {}
      OBVIOUS
    <3>3. g <= f /\ f \in Int
      BY <1>2, <3>2, InstantIs
    <3> QED
      BY <3>1, <3>2, <3>3
  <2> QED
    BY <2>1 DEF Delivered
<1>5. Later(Never, g) = g
  BY <1>1, InstantIs DEF Later
<1>6. Stands(g, FreshProvider, rows)
  BY <1>1, <1>5 DEF Stands, FreshProvider, g
<1> QED
  BY <1>4, <1>6 DEF OnPath, Queued, CallFits, FreshProvider, Idle

\* What is handed out is the next minute, and after it the memory stands there.
LEMMA HandedOut ==
  ASSUME NEW p \in Provider, p.queue # {}, NEW rows \in SUBSET Minute, NEW gone, NEW f,
         NEW c, OnPath(f, p, c, rows, gone), NEW more, NEW missed, NEW m, m = Min(p.queue),
         \/ more = rows \union {m} /\ missed = gone
         \/ more = rows /\ missed = gone \union {m},
         NEW q, q.queue = p.queue \ {m}, q.cursor = m
  PROVE  m \in Minute /\ m \notin rows /\ OnPath(m, q, Idle, more, missed)
<1>1. p.queue \in SUBSET Minute /\ m \in p.queue /\ \A k \in p.queue : m <= k
  BY FirstMinute DEF Provider
<1>2. m \in Minute /\ m \in Nat /\ m \in Instant
  BY <1>1, MinuteIs DEF Instant
<1>3. f = m - 1 /\ f \in Int
  BY <1>2 DEF OnPath, Stands
<1>4. q.queue = p.queue \ {m} /\ q.cursor = m
  OBVIOUS
<1>5. \A k \in rows : k \in Nat /\ k <= f
  BY MinuteIs DEF OnPath, Delivered
<1>6. /\ \A k \in Minute : k <= f /\ (\E j \in rows : j < k) => k \in rows \union gone
      /\ \A k \in p.queue : \A j \in Minute : f < j /\ j <= k => j \in p.queue
  BY DEF OnPath, Delivered, Queued
<1>7. \/ more = rows \union {m} /\ missed = gone
      \/ more = rows /\ missed = gone \union {m}
  OBVIOUS
<1>8. m \notin rows
  BY <1>2, <1>3, <1>5
<1>9. Delivered(m, more, missed)
  <2>0. \A k \in rows : k <= m
    BY <1>2, <1>3, <1>5
  <2>1. \A k \in more : k <= m
    <3>1. m <= m
      BY ONLY <1>2, m \in Nat
    <3>2. ASSUME NEW k \in more PROVE k \in rows \/ k = m
      BY <1>7
    <3> QED
      BY <2>0, <3>1, <3>2
  <2>2. ASSUME NEW k \in Minute, k <= m, NEW j \in more, j < k
        PROVE  k \in more \union missed
    <3>1. k \in Nat
      BY MinuteIs
    <3>2. CASE k = m
      BY <3>2, <1>7
    <3>3. CASE k # m
      <4>1. k <= f /\ j # m
        BY <3>1, <3>3, <2>2, <1>2, <1>3
      <4>2. j \in rows
        BY <4>1, <1>7
      <4> QED
        BY <4>1, <4>2, <2>2, <1>6, <1>7
    <3> QED
      BY <3>2, <3>3
  <2> QED
    BY <2>1, <2>2 DEF Delivered
<1>10. Queued(m, q.queue)
  <2> SUFFICES ASSUME NEW k \in q.queue, NEW j \in Minute, m < j, j <= k
               PROVE  j \in q.queue
    BY DEF Queued
  <2>1. j \in Nat /\ j # m /\ f < j
    BY MinuteIs, <1>2, <1>3
  <2> QED
    BY <2>1, <1>4, <1>6
<1>11. Stands(m, q, more)
  <2>1. CASE q.queue = {}
    <3> DEFINE last == IF more = {} THEN Never ELSE Max(more)
    <3>1. last \in Instant /\ last <= m
      <4>1. more \in SUBSET Minute
        BY <1>2, <1>7
      <4>2. CASE more = {}
        BY <4>2, <1>2, InstantIs DEF Instant
      <4>3. CASE more # {}
        BY <4>1, <4>3, <1>9, LastMinute DEF Delivered, Instant
      <4> QED
        BY <4>2, <4>3
    <3>2. last \in Int /\ m \in Int
      BY <1>2, <3>1, InstantIs
    <3>3. Later(m, last) = m
      <4> HIDE DEF last
      <4> QED
        BY <3>1, <3>2 DEF Later
    <3> QED
      BY <1>2, <1>4, <2>1, <3>3 DEF Stands
  <2>2. CASE q.queue # {}
    <3> DEFINE n == Min(q.queue)
    <3>1. q.queue \in SUBSET Minute
      BY <1>1, <1>4
    <3>2. n \in q.queue /\ \A k \in q.queue : n <= k
      BY <2>2, <3>1, FirstMinute
    <3>3. n \in Nat /\ n <= MaxMinute /\ n \in p.queue /\ n # m
      BY <3>1, <3>2, <1>4, MinuteIs
    <3> HIDE DEF n
    <3>4. m < n
      BY <1>1, <1>2, <3>3
    <3>5. m + 1 \in Minute
      BY <1>2, <3>3, <3>4, MinuteIs
    <3>6. m + 1 \in q.queue
      BY <1>2, <1>10, <3>2, <3>3, <3>4, <3>5 DEF Queued
    <3>7. n = m + 1
      BY <1>2, <3>2, <3>3, <3>4, <3>6
    <3>8. m = n - 1
      BY <1>2, <3>7
    <3> QED
      BY <1>2, <2>2, <3>8 DEF Stands, n
  <2> QED
    BY <2>1, <2>2
<1>12. CallFits(q, Idle, more)
  BY DEF CallFits, Idle
<1> QED
  BY <1>2, <1>8, <1>9, <1>10, <1>11, <1>12 DEF OnPath

-----------------------------------------------------------------------------
(* The steps of a call *)

\* A memory that asks again stands where it stood, at its own cursor.
LEMMA Asked ==
  ASSUME NEW p \in Provider, p.queue = {}, NEW rows \in SUBSET Minute, NEW gone, NEW f, NEW c,
         OnPath(f, p, c, rows, gone), NEW from \in Instant, NEW d \in Poll,
         NEW last, last = (IF rows = {} THEN Never ELSE Max(rows)),
         Later(p.cursor, last) # Never => from = Later(p.cursor, last),
         d.got = {}, d.cursor = from,
         d.phase = "paging" \/ (d.phase = "bootstrap" /\ Later(p.cursor, last) = Never)
  PROVE  \E g : OnPath(g, [p EXCEPT !.cursor = from], d, rows, gone)
<1> DEFINE q == [p EXCEPT !.cursor = from]
<1>1. f = Later(p.cursor, last) /\ f \in Instant /\ Delivered(f, rows, gone)
  BY DEF OnPath, Stands
<1>2. q.queue = {} /\ q.cursor = from
  BY DEF Provider
<1> HIDE DEF q
<1>3. from \in Int /\ f \in Int /\ last \in Instant /\ \A m \in rows : m <= last
  BY <1>1, InstantIs, LastMinute DEF Instant
<1>4. last \in Int /\ p.cursor \in Instant /\ last >= Never /\ p.cursor >= Never
  BY <1>3, InstantIs DEF Provider, Instant
<1>5. last <= f /\ from >= Never
  BY <1>1, <1>3, <1>4, InstantIs DEF Later
<1>6. f = Never => rows = {}
  <2> SUFFICES ASSUME f = Never, NEW m \in rows PROVE FALSE
    OBVIOUS
  <2>1. m \in Nat /\ m <= last
    BY <1>3, MinuteIs
  <2> QED
    BY <1>3, <1>4, <1>5, <2>1, InstantIs
<1>7. last <= from
  BY <1>1, <1>3, <1>4, <1>5, InstantIs
<1>8. Later(from, last) = from
  BY <1>3, <1>4, <1>7 DEF Later
<1>9. Delivered(from, rows, gone)
  BY <1>1, <1>6 DEF Delivered
<1>10. Stands(from, q, rows)
  BY <1>2, <1>8 DEF Stands
<1>11. d.got = from + 1 .. from
  BY <1>3
<1>12. CallFits(q, d, rows)
  BY <1>1, <1>2, <1>3, <1>6, <1>7, <1>11 DEF CallFits
<1> QED
  BY <1>2, <1>9, <1>10, <1>12 DEF OnPath, Queued, q

\* What is usable follows the cursor without interruption.
LEMMA UsableFollows ==
  ASSUME NEW rows \in SUBSET Minute, NEW cursor \in Int, NEW at \in Int, cursor >= Never,
         Usable(rows, cursor, at) # {}
  PROVE  /\ Usable(rows, cursor, at) \in SUBSET Minute
         /\ Max(Usable(rows, cursor, at)) \in Minute
         /\ Max(Usable(rows, cursor, at)) > cursor
         /\ Usable(rows, cursor, at) = cursor + 1 .. Max(Usable(rows, cursor, at))
<1> DEFINE U == Usable(rows, cursor, at)
           last == Max(U)
<1>1. U \in SUBSET Minute /\ last \in U /\ \A m \in U : m <= last
  BY LastMinute DEF Usable
<1>2. /\ last \in Nat /\ last \in Minute /\ last > cursor /\ last < at
      /\ \A k \in cursor + 1 .. last : k \in rows
  BY <1>1, MinuteIs DEF Usable
<1>3. \A m \in U : m \in cursor + 1 .. last
  BY <1>1, <1>2, MinuteIs DEF Usable
<1>4. ASSUME NEW m \in cursor + 1 .. last
      PROVE  m \in U
  <2>1. m \in rows /\ m > cursor
    BY <1>2
  <2> QED
    BY <1>2, <2>1, MinuteIs DEF Usable
<1> QED
  BY <1>1, <1>2, <1>3, <1>4

\* What was filled from where the memory stands waits there.
LEMMA Filled ==
  ASSUME NEW e \in Instant, NEW n \in Int, e + 1 .. n # {}, e + 1 .. n \in SUBSET Minute,
         NEW rows, NEW gone, Delivered(e, rows, gone),
         NEW p, p.queue = e + 1 .. n, NEW d, d.phase = "deliver"
  PROVE  OnPath(e, p, d, rows, gone)
<1>1. e \in Int /\ e + 1 <= n
  BY InstantIs
<1>2. Min(e + 1 .. n) = e + 1
  <2> DEFINE m == Min(e + 1 .. n)
  <2>1. m \in e + 1 .. n /\ \A k \in e + 1 .. n : m <= k
    BY FirstMinute
  <2>2. e + 1 \in e + 1 .. n
    BY <1>1
  <2> HIDE DEF m
  <2>3. m <= e + 1 /\ m >= e + 1
    BY <1>1, <2>1, <2>2
  <2>4. m = e + 1
    BY <1>1, <2>1, <2>3
  <2> QED
    BY <2>4 DEF m
<1>3. e = (e + 1) - 1
  BY <1>1
<1>4. Stands(e, p, rows)
  BY <1>2, <1>3 DEF Stands
<1>5. Queued(e, p.queue)
  BY <1>1, MinuteIs DEF Queued
<1>6. CallFits(p, d, rows)
  BY DEF CallFits
<1> QED
  BY <1>4, <1>5, <1>6 DEF OnPath

\* An end of the call without anything leaves the memory where it stands.
LEMMA EndsThere ==
  ASSUME NEW p, NEW rows, NEW gone, NEW f, NEW c, OnPath(f, p, c, rows, gone),
         NEW q, q.queue = p.queue, q.cursor = p.cursor
  PROVE  OnPath(f, q, Idle, rows, gone)
  BY DEF OnPath, Stands, CallFits, Idle

\* Where a call stands while it reads pages
LEMMA PagingStands ==
  ASSUME NEW p \in Provider, NEW c \in Poll, NEW rows \in SUBSET Minute, NEW gone, NEW f,
         OnPath(f, p, c, rows, gone), c.phase = "paging"
  PROVE  /\ p.queue = {} /\ f = p.cursor /\ Delivered(p.cursor, rows, gone)
         /\ c.cursor \in Instant /\ p.cursor \in Instant
         /\ p.cursor <= c.cursor /\ c.got = p.cursor + 1 .. c.cursor
<1> DEFINE last == IF rows = {} THEN Never ELSE Max(rows)
<1>1. /\ p.queue = {} /\ last <= p.cursor /\ f = Later(p.cursor, last)
      /\ p.cursor <= c.cursor /\ c.got = p.cursor + 1 .. c.cursor
  BY DEF OnPath, Stands, CallFits
<1>2. last \in Instant
  BY LastMinute DEF Instant
<1>3. p.cursor \in Instant /\ c.cursor \in Instant
  BY DEF Provider, Poll, Instant
<1> HIDE DEF last
<1>4. f = p.cursor
  BY <1>1, <1>2, <1>3, InstantIs DEF Later
<1> QED
  BY <1>1, <1>3, <1>4 DEF OnPath

\* The state after a call has collected what it could
LEMMA CollectedFits ==
  ASSUME CursorTyped, NEW f, OnPath(f, prov, poll, stored, lost), poll.phase = "paging",
         NEW n \in Instant, n >= poll.cursor, NEW got \in SUBSET Minute,
         got = prov.cursor + 1 .. n, NEW gap \in BOOLEAN, Collected(got, gap)
  PROVE  /\ prov' \in Provider /\ poll' \in Poll
         /\ poll'.phase = "deliver" => prov'.queue # {}
         /\ \E g : OnPath(g, prov', poll', stored, lost)
<1>1. prov \in Provider /\ poll \in Poll /\ stored \in SUBSET Minute
  BY DEF CursorTyped
<1>2. prov.queue = {} /\ prov.cursor \in Instant /\ Delivered(prov.cursor, stored, lost)
  BY <1>1, PagingStands
<1>3. n \in Int
  BY InstantIs
<1>4. prov.queue \union got = got
  BY <1>2
<1>5. CASE got # {}
  <2>1. /\ prov' = [prov EXCEPT !.queue = got, !.gap = prov.gap \/ gap]
        /\ poll' = [Idle EXCEPT !.phase = "deliver"]
    BY <1>4, <1>5 DEF Collected
  <2>2. prov' \in Provider /\ prov'.queue = got /\ prov'.cursor = prov.cursor
    BY <1>1, <2>1 DEF Provider
  <2>3. poll' \in Poll /\ poll'.phase = "deliver"
    BY <2>1, IdleType DEF Poll, Idle
  <2>4. OnPath(prov.cursor, prov', poll', stored, lost)
    BY <1>2, <1>3, <1>5, <2>2, <2>3, Filled
  <2> QED
    BY <1>5, <2>2, <2>3, <2>4
<1>6. CASE got = {}
  <2>1. prov' = [prov EXCEPT !.gap = FALSE] /\ poll' = Idle
    BY <1>4, <1>6 DEF Collected, Ends
  <2>2. prov' \in Provider /\ prov'.queue = prov.queue /\ prov'.cursor = prov.cursor
    BY <1>1, <2>1 DEF Provider
  <2>3. OnPath(f, prov', Idle, stored, lost)
    BY <2>2, EndsThere
  <2> QED
    BY <2>1, <2>2, <2>3, IdleType DEF Idle
<1> QED
  BY <1>5, <1>6

-----------------------------------------------------------------------------
(* The invariant, action by action *)

\* What an action of the exchange's provider that is no delivery has to show
Walks ==
  /\ prov' \in Provider /\ poll' \in Poll
  /\ poll'.phase = "deliver" => prov'.queue # {}
  /\ \E g : OnPath(g, prov', poll', stored, lost)

\* That is enough.
LEMMA WalksKeep ==
  ASSUME WalkInv, source = "bybit", Walks, UNCHANGED <<now, venue, source, stored, lost>>
  PROVE  WalkInv'
<1>1. CursorTyped'
  BY DEF WalkInv, CursorTyped, Walks
<1>2. \E f : OnPath(f, prov', poll', stored', lost')
  BY DEF Walks
<1>3. source' = "bybit"
  OBVIOUS
<1> QED
  BY <1>1, <1>2, <1>3 DEF WalkInv, Walks

\* What is queued waits for this tick.
LEMMA TickFromQueueKeeps ==
  ASSUME WalkInv, TickFromQueue
  PROVE  WalkInv'
<1>1. source = "bybit" /\ prov.queue # {} /\ prov' = Synced /\ poll' = [Idle EXCEPT !.phase = "deliver"]
  BY DEF TickFromQueue
<1>2. PICK f : OnPath(f, prov, poll, stored, lost)
  BY <1>1 DEF WalkInv
<1>3. prov \in Provider /\ Later(prov.cursor, LastStored) \in Instant
  <2>1. LastStored \in Instant /\ prov \in Provider /\ prov.cursor \in Instant
    BY LastStoredIs DEF WalkInv, CursorTyped, Provider, Instant
  <2> QED
    BY <2>1 DEF Later
<1>4. prov' \in Provider /\ prov'.queue = prov.queue
  BY <1>1, <1>3 DEF Synced, Provider, Instant
<1>5. poll' \in Poll /\ poll'.phase = "deliver"
  BY <1>1, IdleType DEF Poll, Idle
<1>6. OnPath(f, prov', poll', stored, lost)
  BY <1>1, <1>2, <1>4, <1>5 DEF OnPath, Stands, CallFits
<1>7. Walks
  BY <1>1, <1>4, <1>5, <1>6 DEF Walks
<1> QED
  BY <1>1, <1>7, WalksKeep DEF TickFromQueue, clock, strategy, history

\* A call begins where the memory stands.
LEMMA TickFromExchangeKeeps ==
  ASSUME WalkInv, TickFromExchange
  PROVE  WalkInv'
<1> DEFINE last == IF stored = {} THEN Never ELSE Max(stored)
           reached == Later(prov.cursor, last)
           from == IF reached # Never THEN reached
                   ELSE IF InitialStart # Never THEN InitialStart - 1 ELSE Never
           call == [Idle EXCEPT !.phase = IF reached = Never /\ InitialStart = Never
                                          THEN "bootstrap" ELSE "paging",
                                !.cursor = from, !.at = now]
<1>1. prov \in Provider /\ stored \in SUBSET Minute /\ now \in Minute
  BY DEF WalkInv, CursorTyped
<1>2. source = "bybit" /\ prov.queue = {} /\ poll.phase = "idle"
  BY DEF TickFromExchange
<1>3. last = LastStored
  BY DEF LastStored
<1>4. Synced.cursor = reached /\ prov' = [Synced EXCEPT !.cursor = from] /\ poll' = call
  <2>1. Synced.cursor = reached
    BY <1>1, <1>3 DEF Synced, Provider
  <2> QED
    BY <2>1 DEF TickFromExchange
<1>5. last \in Instant /\ prov.cursor \in Instant
  BY <1>1, LastMinute DEF Provider, Instant
<1>6. reached \in Instant
  BY <1>5 DEF Later
<1>7. InitialStart # Never => InitialStart - 1 \in Instant
  BY StartAssumption, MinuteIs, InstantIs DEF Instant
<1>8. from \in Instant
  BY <1>6, <1>7, InstantIs DEF Instant
<1>9. prov' = [prov EXCEPT !.cursor = from]
  BY <1>1, <1>4 DEF Synced, Provider
<1>10. prov' \in Provider
  BY <1>1, <1>8, <1>9 DEF Provider, Instant
<1>11. /\ poll' \in Poll /\ poll'.got = {} /\ poll'.cursor = from
       /\ poll'.phase = "paging" \/ (poll'.phase = "bootstrap" /\ reached = Never)
  <2>1. call \in Poll
    BY <1>1, <1>8, IdleType DEF Poll, Idle, Instant
  <2> QED
    BY <1>4, <2>1 DEF Idle
<1>12. PICK f : OnPath(f, prov, poll, stored, lost)
  BY <1>2 DEF WalkInv
<1>13. reached # Never => from = reached
  OBVIOUS
<1> HIDE DEF from, call
<1>14. \E g : OnPath(g, [prov EXCEPT !.cursor = from], poll', stored, lost)
  BY <1>1, <1>2, <1>8, <1>11, <1>12, <1>13, Asked
<1>15. Walks
  BY <1>9, <1>10, <1>11, <1>14 DEF Walks
<1> QED
  BY <1>2, <1>15, WalksKeep DEF TickFromExchange, clock, strategy, history

\* Pages belong to the exchange.
LEMMA PagesOfExchange ==
  ASSUME WalkInv, poll.phase \in {"bootstrap", "paging"}
  PROVE  source = "bybit" /\ \E f : OnPath(f, prov, poll, stored, lost)
<1>1. source = "bybit" \/ source = "replay"
  BY SourcesAssumption DEF WalkInv, CursorTyped
<1>2. ~ source = "replay"
  BY DEF WalkInv, FixtureInOrder
<1> QED
  BY <1>1, <1>2 DEF WalkInv

\* The first page may begin anywhere, as nothing is stored yet.
LEMMA BootstrapPageKeeps ==
  ASSUME WalkInv, BootstrapPage
  PROVE  WalkInv'
<1>1. poll.phase = "bootstrap"
  BY DEF BootstrapPage
<1>2. PICK f : source = "bybit" /\ OnPath(f, prov, poll, stored, lost)
  BY <1>1, PagesOfExchange
<1>3. prov \in Provider /\ poll \in Poll /\ stored \in SUBSET Minute /\ poll.at \in Nat
      /\ venue \in SUBSET Minute
  BY MinuteIs DEF WalkInv, CursorTyped, Poll
<1>4. prov.queue = {} /\ stored = {}
  BY <1>1, <1>2 DEF OnPath, CallFits
<1> DEFINE rows == Rows(Later(0, poll.at - PageSize + 1), poll.at)
           before == Min(rows) - 1
           usable == Usable(rows, before, poll.at)
           gap == prov.gap \/ \E m \in rows \ usable : m < poll.at
           next == [cursor |-> Max(usable), queue |-> usable, gap |-> gap]
<1>5. CASE rows = {} \/ usable = {}
  <2>1. prov' = prov /\ poll' = Idle
    BY <1>5 DEF BootstrapPage, Ends
  <2>2. OnPath(f, prov', poll', stored, lost)
    BY <1>2, <2>1, EndsThere
  <2>3. Walks
    BY <1>3, <2>1, <2>2, IdleType DEF Walks, Idle
  <2> QED
    BY <1>2, <2>3, WalksKeep DEF BootstrapPage, clock, strategy, history
<1>6. CASE ~ (rows = {} \/ usable = {})
  <2>1. prov' = next /\ poll' = [Idle EXCEPT !.phase = "deliver"]
    BY <1>6 DEF BootstrapPage
  <2>2. rows \in SUBSET Minute /\ rows # {}
    BY <1>3, <1>6 DEF Rows
  <2>3. before \in Instant
    <3>1. Min(rows) \in Minute
      BY <2>2, FirstMinute
    <3>2. Min(rows) \in Nat /\ Min(rows) <= MaxMinute
      BY <3>1, MinuteIs
    <3> QED
      BY <3>2, MinuteIs, InstantIs DEF Instant
  <2>4. usable # {} /\ before \in Int /\ before >= Never
    BY <1>6, <2>3, InstantIs
  <2>5. gap \in BOOLEAN
    BY <1>3 DEF Provider
  <2> HIDE DEF rows, before, gap
  <2>6. /\ usable \in SUBSET Minute /\ Max(usable) \in Minute
        /\ usable = before + 1 .. Max(usable)
    BY <1>3, <2>2, <2>4, UsableFollows
  <2> HIDE DEF usable
  <2>7. prov' \in Provider /\ prov'.queue = usable
    BY <2>1, <2>5, <2>6 DEF Provider
  <2>8. poll' \in Poll /\ poll'.phase = "deliver"
    BY <2>1, IdleType DEF Poll, Idle
  <2>9. Delivered(before, stored, lost)
    BY <1>4 DEF Delivered
  <2>10. OnPath(before, prov', poll', stored, lost)
    <3>1. Max(usable) \in Int
      BY <2>6, MinuteIs
    <3> DEFINE n == Max(usable)
    <3>2. n \in Int /\ before + 1 .. n # {} /\ before + 1 .. n \in SUBSET Minute
          /\ prov'.queue = before + 1 .. n
      BY <2>4, <2>6, <2>7, <3>1
    <3> HIDE DEF n
    <3> QED
      BY <2>3, <2>8, <2>9, <3>2, Filled
  <2>11. Walks
    BY <2>4, <2>7, <2>8, <2>10 DEF Walks
  <2> QED
    BY <1>2, <2>11, WalksKeep DEF BootstrapPage, clock, strategy, history
<1> QED
  BY <1>5, <1>6

\* A page brings what follows without interruption.
LEMMA FetchPageKeeps ==
  ASSUME WalkInv, FetchPage
  PROVE  WalkInv'
<1>1. poll.phase = "paging"
  BY DEF FetchPage
<1>2. PICK f : source = "bybit" /\ OnPath(f, prov, poll, stored, lost)
  BY <1>1, PagesOfExchange
<1>3. /\ prov \in Provider /\ poll \in Poll /\ stored \in SUBSET Minute /\ venue \in SUBSET Minute
      /\ poll.at \in Int /\ poll.pages \in 0 .. MaxPages - 1 /\ poll.got \in SUBSET Minute
      /\ CursorTyped
  BY MinuteIs DEF WalkInv, CursorTyped, Poll
<1>4. /\ prov.queue = {} /\ f = prov.cursor /\ Delivered(prov.cursor, stored, lost)
      /\ poll.cursor \in Instant /\ prov.cursor \in Instant
      /\ prov.cursor <= poll.cursor /\ poll.got = prov.cursor + 1 .. poll.cursor
  BY <1>1, <1>2, <1>3, PagingStands
<1> DEFINE rows == Rows(poll.cursor + 1, poll.cursor + PageSize)
           usable == Usable(rows, poll.cursor, poll.at)
           broken == Broken(rows, poll.cursor, poll.at)
           got == poll.got \union usable
           further == IF usable = {} THEN poll.cursor ELSE Max(usable)
<1>5. rows \in SUBSET Minute
  BY <1>3 DEF Rows
<1>6. broken \in BOOLEAN
  BY DEF Broken
<1>7. \/ usable = {} /\ prov' = prov /\ poll' = Idle
      \/ Collected(got, broken)
      \/ /\ usable # {} /\ ~ LastPage(poll.pages) /\ prov' = prov
         /\ poll' = [poll EXCEPT !.cursor = Max(usable), !.got = got, !.pages = @ + 1]
  BY DEF FetchPage, Ends
<1> HIDE DEF rows, broken
<1>8. /\ further \in Instant /\ further >= poll.cursor
      /\ got = prov.cursor + 1 .. further /\ got \in SUBSET Minute
      /\ usable # {} => further = Max(usable)
  <2>1. CASE usable = {}
    BY <1>3, <1>4, <2>1, InstantIs
  <2>2. CASE usable # {}
    <3>1. /\ usable \in SUBSET Minute /\ Max(usable) \in Minute /\ Max(usable) > poll.cursor
          /\ usable = poll.cursor + 1 .. Max(usable)
      BY <1>3, <1>4, <1>5, <2>2, InstantIs, UsableFollows
    <3>2. further = Max(usable)
      BY <2>2
    <3>3. further \in Int /\ prov.cursor \in Int /\ poll.cursor \in Int /\ further > poll.cursor
          /\ usable = poll.cursor + 1 .. further
      BY <1>4, <3>1, <3>2, InstantIs, MinuteIs
    <3> HIDE DEF further, usable
    <3>4. got = prov.cursor + 1 .. further
      BY <1>4, <3>3
    <3> QED
      BY <1>3, <3>1, <3>2, <3>3, <3>4 DEF Instant
  <2> QED
    BY <2>1, <2>2
<1> HIDE DEF usable, further, got
<1>9. Walks
  <2>1. CASE usable = {} /\ prov' = prov /\ poll' = Idle
    <3>1. OnPath(f, prov', poll', stored, lost)
      BY <1>2, <2>1, EndsThere
    <3> QED
      BY <1>3, <2>1, <3>1, IdleType DEF Walks, Idle
  <2>2. CASE Collected(got, broken)
    BY <1>1, <1>2, <1>3, <1>6, <1>8, <2>2, CollectedFits DEF Walks
  <2>3. CASE /\ usable # {} /\ ~ LastPage(poll.pages) /\ prov' = prov
             /\ poll' = [poll EXCEPT !.cursor = Max(usable), !.got = got, !.pages = @ + 1]
    <3>1. poll.pages + 1 \in 0 .. MaxPages - 1
      BY <1>3, <2>3, PageAssumption DEF LastPage
    <3>2. /\ poll'.phase = "paging" /\ poll'.cursor = further /\ poll'.got = got
          /\ poll' \in Poll
      BY <1>1, <1>3, <1>8, <2>3, <3>1 DEF Poll, Instant
    <3>3. CallFits(prov', poll', stored)
      <4>1. prov.cursor <= further
        BY <1>4, <1>8, InstantIs
      <4> QED
        BY <1>1, <1>2, <1>4, <1>8, <2>3, <3>2, <4>1 DEF OnPath, CallFits
    <3>4. OnPath(f, prov', poll', stored, lost)
      BY <1>2, <2>3, <3>3 DEF OnPath
    <3> QED
      BY <1>3, <2>3, <3>2, <3>4 DEF Walks
  <2> QED
    BY <1>7, <2>1, <2>2, <2>3
<1> QED
  BY <1>2, <1>9, WalksKeep DEF FetchPage, clock, strategy, history

\* A failed page leaves what the pages before it brought.
LEMMA FetchFailsKeeps ==
  ASSUME WalkInv, FetchFails
  PROVE  WalkInv'
<1>1. poll.phase \in {"bootstrap", "paging"}
  BY DEF FetchFails
<1>2. PICK f : source = "bybit" /\ OnPath(f, prov, poll, stored, lost)
  BY <1>1, PagesOfExchange
<1>3. prov \in Provider /\ poll \in Poll /\ poll.got \in SUBSET Minute /\ CursorTyped
      /\ stored \in SUBSET Minute
  BY DEF WalkInv, CursorTyped, Poll
<1>4. Walks
  <2>1. CASE poll.got = {}
    <3>1. prov' = prov /\ poll' = Idle
      BY <2>1 DEF FetchFails, Ends
    <3>2. OnPath(f, prov', poll', stored, lost)
      BY <1>2, <3>1, EndsThere
    <3> QED
      BY <1>3, <3>1, <3>2, IdleType DEF Walks, Idle
  <2>2. CASE poll.got # {}
    <3>1. poll.phase = "paging"
      BY <1>1, <1>2, <2>2 DEF OnPath, CallFits
    <3>2. poll.cursor \in Instant /\ poll.got = prov.cursor + 1 .. poll.cursor
      BY <1>2, <1>3, <3>1, PagingStands
    <3>3. PICK gap \in BOOLEAN : Collected(poll.got, gap)
      <4>1. Collected(poll.got, FALSE)
        BY <2>2 DEF FetchFails
      <4> QED
        BY <4>1, Zenon
    <3>4. poll.cursor >= poll.cursor
      BY <3>2, InstantIs
    <3> QED
      BY <1>2, <1>3, <3>1, <3>2, <3>3, <3>4, CollectedFits DEF Walks
  <2> QED
    BY <2>1, <2>2
<1> QED
  BY <1>2, <1>4, WalksKeep DEF FetchFails, clock, strategy

\* A fixture hands out the next minute that it has.
LEMMA FixtureHandsOut ==
  ASSUME WalkInv, source = "replay", poll.phase = "deliver"
  PROVE  /\ prov.queue = {NextUp} /\ NextUp \in venue /\ NextUp \in Minute
         /\ \A m \in venue : m < NextUp => m <= prov.cursor
<1>1. FixtureInOrder /\ prov.queue # {} /\ prov.queue \in SUBSET Minute
  BY DEF WalkInv, CursorTyped, Provider
<1>2. NextUp \in prov.queue
  BY <1>1, FirstMinute DEF NextUp
<1> QED
  BY <1>1, <1>2 DEF FixtureInOrder

\* What a delivery does to the path, whether it is stored, known, or undone
LEMMA DeliveryKeeps ==
  ASSUME WalkInv, poll.phase = "deliver", prov' = Popped, poll' = Idle,
         UNCHANGED <<now, venue, source>>,
         \/ stored' = stored /\ lost' = lost /\ NextUp \in stored
         \/ stored' = stored \union {NextUp} /\ lost' = lost
         \/ stored' = stored /\ lost' = lost \union {NextUp}
  PROVE  WalkInv'
<1>1. /\ prov \in Provider /\ prov.queue \in SUBSET Minute /\ prov.queue # {}
      /\ stored \in SUBSET Minute
  BY DEF WalkInv, CursorTyped, Provider
<1>2. NextUp \in prov.queue /\ NextUp \in Minute
  BY <1>1, FirstMinute DEF NextUp
<1>3. prov' = [prov EXCEPT !.queue = @ \ {NextUp}, !.cursor = NextUp]
  BY DEF Popped
<1>4. /\ prov' \in Provider /\ prov'.cursor = NextUp /\ prov'.queue = prov.queue \ {NextUp}
  BY <1>1, <1>2, <1>3 DEF Provider
<1>5. CursorTyped'
  BY <1>2, <1>4, IdleType DEF WalkInv, CursorTyped
<1>6. ASSUME source = "bybit"
      PROVE  \E g : OnPath(g, prov', poll', stored', lost')
  <2>1. PICK f : OnPath(f, prov, poll, stored, lost)
    BY <1>6 DEF WalkInv
  <2>2. ASSUME NEW more, NEW missed,
               \/ more = stored \union {NextUp} /\ missed = lost
               \/ more = stored /\ missed = lost \union {NextUp}
        PROVE  NextUp \notin stored /\ OnPath(NextUp, prov', Idle, more, missed)
    <3>1. NextUp = Min(prov.queue)
      BY DEF NextUp
    <3> QED
      BY <1>1, <1>4, <2>1, <2>2, <3>1, HandedOut
  <2>3. NextUp \notin stored
    BY <2>2
  <2> QED
    BY <2>2, <2>3
<1>7. ASSUME source = "replay"
      PROVE  FixtureInOrder'
  <2>1. /\ prov.queue = {NextUp} /\ NextUp \in venue /\ FixtureInOrder
        /\ \A m \in venue : m < NextUp => m <= prov.cursor
    BY <1>7, FixtureHandsOut DEF WalkInv
  <2>2. prov'.queue = {}
    BY <1>4, <2>1
  <2>3. ASSUME NEW m \in venue, m <= NextUp \/ \E k \in stored : m <= k
        PROVE  m \in stored' \union lost'
    <3>1. m \in Nat /\ NextUp \in Nat
      BY <1>2, MinuteIs DEF WalkInv, CursorTyped
    <3>2. m = NextUp \/ m \in stored \union lost
      BY <2>1, <2>3, <3>1 DEF FixtureInOrder
    <3> QED
      BY <3>2
  <2>4. \A k \in stored' : k \in stored \/ k = NextUp
    OBVIOUS
  <2>5. \A m \in venue' : m <= prov'.cursor \/ (\E k \in stored' : m <= k) => m \in stored' \union lost'
    BY <1>4, <2>3, <2>4
  <2> QED
    BY <2>2, <2>5 DEF FixtureInOrder, Idle
<1>8. poll'.phase # "deliver"
  BY DEF Idle
<1> QED
  BY <1>5, <1>6, <1>7, <1>8 DEF WalkInv

\* A candle is stored, or known already.
LEMMA DeliverKeeps ==
  ASSUME WalkInv, Deliver
  PROVE  WalkInv'
<1>1. /\ poll.phase = "deliver" /\ prov' = Popped /\ poll' = Idle
      /\ UNCHANGED <<now, venue, source>> /\ lost' = lost
  BY DEF Deliver, clock, history
<1>2. \/ stored' = stored /\ NextUp \in stored
      \/ stored' = stored \union {NextUp}
  BY DEF Deliver
<1> QED
  BY <1>1, <1>2, DeliveryKeeps

\* A candle is lost.
LEMMA DeliverRaisesKeeps ==
  ASSUME WalkInv, DeliverRaises
  PROVE  WalkInv'
<1>1. /\ poll.phase = "deliver" /\ prov' = Popped /\ poll' = Idle
      /\ UNCHANGED <<now, venue, source>> /\ stored' = stored /\ lost' = lost \union {NextUp}
  BY DEF DeliverRaises, clock
<1> QED
  BY <1>1, DeliveryKeeps

\* The fixture goes on with its next minute.
LEMMA TickFromFixtureKeeps ==
  ASSUME WalkInv, TickFromFixture
  PROVE  WalkInv'
<1> DEFINE rest == {m \in venue : m > prov.cursor}
<1>1. /\ source = "replay" /\ poll.phase = "idle" /\ prov \in Provider /\ FixtureInOrder
      /\ venue \in SUBSET Minute /\ CursorTyped
      /\ UNCHANGED <<now, venue, source, stored, lost>>
  BY DEF WalkInv, CursorTyped, TickFromFixture, clock, history
<1>2. CASE rest = {}
  <2>1. prov' = prov /\ poll' = Idle
    BY <1>2 DEF TickFromFixture, Ends
  <2>2. CursorTyped'
    BY <1>1, <2>1, IdleType DEF CursorTyped
  <2>3. FixtureInOrder'
    BY <1>1, <2>1 DEF FixtureInOrder, Idle
  <2> QED
    BY <1>1, <2>1, <2>2, <2>3 DEF WalkInv, Idle
<1>3. CASE rest # {}
  <2> DEFINE m == Min(rest)
  <2>1. prov' = [prov EXCEPT !.queue = {m}] /\ poll' = [Idle EXCEPT !.phase = "deliver"]
    BY <1>3 DEF TickFromFixture
  <2>2. rest \in SUBSET Minute
    BY <1>1
  <2>3. m \in rest /\ \A k \in rest : m <= k
    BY <1>3, <2>2, FirstMinute
  <2>4. m \in venue /\ m \in Minute /\ m \in Nat /\ prov.cursor \in Int
    BY <1>1, <2>2, <2>3, MinuteIs, InstantIs DEF Provider, Instant
  <2>5. \A k \in venue : k < m => k <= prov.cursor
    <3> SUFFICES ASSUME NEW k \in venue, k < m, ~ k <= prov.cursor PROVE FALSE
      OBVIOUS
    <3>1. k \in Nat
      BY <1>1, MinuteIs
    <3>2. k \in rest
      BY <2>4, <3>1
    <3> HIDE DEF m
    <3> QED
      BY <2>3, <2>4, <3>1, <3>2
  <2> HIDE DEF m, rest
  <2>6. prov' \in Provider /\ prov'.queue = {m} /\ prov'.cursor = prov.cursor
    BY <1>1, <2>1, <2>4 DEF Provider
  <2>7. poll' \in Poll /\ poll'.phase = "deliver"
    BY <2>1, IdleType DEF Poll, Idle
  <2>8. CursorTyped'
    BY <1>1, <2>6, <2>7 DEF CursorTyped
  <2>9. FixtureInOrder'
    BY <1>1, <2>4, <2>5, <2>6, <2>7 DEF FixtureInOrder
  <2> QED
    BY <1>1, <2>6, <2>8, <2>9 DEF WalkInv
<1> QED
  BY <1>2, <1>3

\* After a restart the path begins anew at the last stored candle, or at the first of the fixture.
LEMMA CrashKeeps ==
  ASSUME WalkInv, Crash
  PROVE  WalkInv'
<1>1. /\ prov' = FreshProvider /\ poll' = Idle
      /\ UNCHANGED <<now, venue, source, stored, lost>>
  BY DEF Crash, clock
<1>2. CursorTyped /\ stored \in SUBSET Minute /\ venue \in SUBSET Minute
  BY DEF WalkInv, CursorTyped
<1>3. CursorTyped'
  BY <1>1, <1>2, IdleType DEF CursorTyped
<1>4. ASSUME source = "bybit"
      PROVE  \E g : OnPath(g, prov', poll', stored', lost')
  <2>1. PICK f : OnPath(f, prov, poll, stored, lost)
    BY <1>4 DEF WalkInv
  <2>2. f \in Instant /\ Delivered(f, stored, lost)
    BY <2>1 DEF OnPath, Stands
  <2> QED
    BY <1>1, <1>2, <2>2, BegunAnew
<1>5. ASSUME source = "replay"
      PROVE  FixtureInOrder'
  <2>1. FixtureInOrder
    BY <1>5 DEF WalkInv
  <2>2. \A m \in venue : ~ m <= Never
    BY <1>2, MinuteIs DEF Never
  <2> QED
    BY <1>1, <2>1, <2>2 DEF FixtureInOrder, FreshProvider, Idle
<1>6. poll'.phase # "deliver"
  BY <1>1 DEF Idle
<1> QED
  BY <1>1, <1>3, <1>4, <1>5, <1>6 DEF WalkInv

\* The exchange moves by itself.
LEMMA VenueKeeps ==
  ASSUME WalkInv, MinutePasses \/ Backfill
  PROVE  WalkInv'
<1>1. /\ source = "bybit"
      /\ UNCHANGED <<source, prov, poll, stored, lost>>
  BY DEF MinutePasses, Backfill, history
<1>2. now' \in Minute /\ venue' \in SUBSET Minute
  <2>1. now \in Minute /\ venue \in SUBSET Minute
    BY DEF WalkInv, CursorTyped
  <2>2. CASE MinutePasses
    <3>1. now' \in Minute
      BY <2>1, <2>2, MinuteIs DEF MinutePasses
    <3> QED
      BY <2>1, <2>2, <3>1 DEF MinutePasses
  <2>3. CASE Backfill
    <3>1. \A m \in 0 .. now : m \in Minute
      BY <2>1, MinuteIs
    <3> QED
      BY <2>1, <2>3, <3>1 DEF Backfill
  <2> QED
    BY <2>2, <2>3
<1>3. CursorTyped'
  BY <1>1, <1>2 DEF WalkInv, CursorTyped
<1> QED
  BY <1>1, <1>3 DEF WalkInv

\* Nothing is stored yet.
LEMMA InitWalk == Init => WalkInv
<1> SUFFICES ASSUME Init PROVE WalkInv
  OBVIOUS
<1>1. /\ prov = FreshProvider /\ poll = Idle /\ stored = {} /\ lost = {} /\ source \in Sources
  BY DEF Init
<1>2. now \in Minute /\ venue \in SUBSET Minute
  BY <1>1, MinuteIs DEF Init, Minute
<1>3. CursorTyped
  BY <1>1, <1>2, IdleType DEF CursorTyped
<1>4. \E f : OnPath(f, prov, poll, stored, lost)
  <2>1. Delivered(Never, {}, {}) /\ Never \in Instant
    BY DEF Delivered, Instant
  <2> QED
    BY <1>1, <2>1, BegunAnew
<1>5. FixtureInOrder
  <2>1. \A m \in venue : ~ m <= Never
    BY <1>2, MinuteIs DEF Never
  <2> QED
    BY <1>1, <2>1 DEF FixtureInOrder, FreshProvider, Idle
<1> QED
  BY <1>1, <1>3, <1>4, <1>5 DEF WalkInv, Idle

\* Every step keeps the invariant.
LEMMA StepWalks == WalkInv /\ [Next]_vars => WalkInv'
<1> SUFFICES ASSUME WalkInv, [Next]_vars PROVE WalkInv'
  OBVIOUS
<1>1. CASE TickStep
  BY <1>1, TickFromQueueKeeps, TickFromExchangeKeeps, TickFromFixtureKeeps, BootstrapPageKeeps,
     FetchPageKeeps, DeliverKeeps DEF TickStep
<1>2. CASE UNCHANGED vars
  <2>1. UNCHANGED <<now, venue, source, prov, poll, stored, lost>>
    BY <1>2 DEF vars, clock, history
  <2>2. CursorTyped' /\ (source = "replay" => FixtureInOrder')
    BY <2>1 DEF WalkInv, CursorTyped, FixtureInOrder
  <2>3. source = "bybit" => \E f : OnPath(f, prov', poll', stored', lost')
    BY <2>1 DEF WalkInv
  <2> QED
    BY <2>1, <2>2, <2>3 DEF WalkInv
<1> QED
  BY <1>1, <1>2, FetchFailsKeeps, DeliverRaisesKeeps, CrashKeeps, VenueKeeps DEF Next

\* The inductive invariant of the path of the candles: what is queued or collected follows
\* what was delivered, and what was delivered follows what is stored.
THEOREM CursorSafe == Spec => []CursorInv
<1>1. Init => WalkInv
  BY InitWalk
<1>2. WalkInv /\ [Next]_vars => WalkInv'
  BY StepWalks
<1>3. WalkInv => CursorInv
  BY WalkIsCursor
<1> QED
  BY <1>1, <1>2, <1>3, PTL DEF Spec

\* No candle is skipped: what is missing between stored candles was lost with a tick that
\* was undone, or is missing from the fixture.
THEOREM NoneSkipped == Spec => []NoCandleSkipped
<1>1. ASSUME CursorInv PROVE NoCandleSkipped
  <2> SUFFICES ASSUME NEW m \in Minute, stored # {}, FirstStored < m, m < LastStored,
                      m \notin stored
               PROVE  m \in lost \/ (source = "replay" /\ m \notin venue)
    BY DEF NoCandleSkipped
  <2>1. stored \in SUBSET Minute /\ source \in {"bybit", "replay"} /\ m \in Nat
    BY <1>1, SourcesAssumption, MinuteIs DEF CursorInv
  <2>2. LastStored \in stored /\ FirstStored \in stored
    BY <2>1, LastStoredIs, FirstMinute DEF FirstStored
  <2>3. LastStored \in Nat /\ m <= LastStored
    BY <2>1, <2>2, MinuteIs
  <2>4. CASE source = "bybit"
    <3>1. DeliveredSoFar
      BY <1>1, <2>4 DEF CursorInv
    <3>2. LastStored <= Reached
      BY <2>2, <3>1 DEF DeliveredSoFar
    <3>3. Reached \in Int
      <4>1. prov.queue \in SUBSET Minute /\ prov.cursor \in Instant
        BY <1>1 DEF CursorInv, Provider, Instant
      <4>2. prov.queue # {} => Min(prov.queue) \in Nat
        BY <4>1, FirstMinute, MinuteIs
      <4> QED
        BY <2>3, <4>1, <4>2, InstantIs DEF Reached, Later
    <3>4. m <= Reached
      BY <2>1, <2>3, <3>2, <3>3
    <3> QED
      BY <2>2, <3>1, <3>4 DEF DeliveredSoFar
  <2>5. CASE source = "replay"
    BY <1>1, <2>2, <2>3, <2>5 DEF CursorInv, FixtureInOrder
  <2> QED
    BY <2>1, <2>4, <2>5
<1>2. CursorInv => NoCandleSkipped
  BY <1>1
<1> QED
  BY <1>2, CursorSafe, PTL

-----------------------------------------------------------------------------
(* Buckets *)

\* The bucket of a minute starts at a multiple of its width, no later than the minute.
LEMMA BucketIs ==
  ASSUME NEW m \in Nat
  PROVE  /\ Slots \in Nat \ {0} /\ bucket_start(m) \in Nat
         /\ bucket_start(m) <= m /\ m < bucket_start(m) + Slots
         /\ \E q \in Nat : bucket_start(m) = Slots * q
<1>1. Slots \in Nat /\ Slots > 0
  BY SlotsAssumption
<1>2. m = Slots * (m \div Slots) + (m % Slots) /\ m % Slots \in 0 .. Slots - 1 /\ m \div Slots \in Nat
  BY <1>1
<1>3. Slots * (m \div Slots) \in Nat
  BY <1>1, <1>2
<1>4. bucket_start(m) = Slots * (m \div Slots)
  BY <1>1, <1>2, <1>3 DEF bucket_start
<1> QED
  BY <1>1, <1>2, <1>3, <1>4

\* Buckets are apart by their width at least.
LEMMA MultiplesApart ==
  ASSUME NEW p \in Nat, NEW q \in Nat, NEW w \in Nat \ {0}, w * p < w * q
  PROVE  w * p + w <= w * q
<1>1. p < q
  <2>1. p >= q => w * p >= w * q
    <3> SUFFICES ASSUME p >= q PROVE w * p >= w * q
      OBVIOUS
    <3>1. p = q + (p - q) /\ p - q \in Nat
      OBVIOUS
    <3>2. w * p = w * q + w * (p - q)
      BY <3>1
    <3>3. w * (p - q) \in Nat /\ w * q \in Nat
      BY <3>1
    <3> QED
      BY <3>2, <3>3
  <2> QED
    BY <2>1
<1>2. q = p + 1 + (q - p - 1) /\ q - p - 1 \in Nat
  BY <1>1
<1>3. w * q = w * p + w + w * (q - p - 1)
  BY <1>2
<1>4. w * (q - p - 1) \in Nat
  BY <1>2
<1>5. w * p \in Nat /\ w * q \in Nat
  OBVIOUS
<1> QED
  BY <1>3, <1>4, <1>5

\* A later minute is in the same bucket or in one that starts after the end of this one.
LEMMA BucketOrder ==
  ASSUME NEW k \in Nat, NEW m \in Nat, k <= m
  PROVE  \/ bucket_start(k) = bucket_start(m)
         \/ bucket_start(k) + Slots <= bucket_start(m)
<1>1. PICK p \in Nat : bucket_start(k) = Slots * p
  BY BucketIs
<1>2. PICK q \in Nat : bucket_start(m) = Slots * q
  BY BucketIs
<1>3. /\ bucket_start(k) \in Nat /\ bucket_start(m) \in Nat /\ Slots \in Nat \ {0}
      /\ bucket_start(k) <= k /\ m < bucket_start(m) + Slots
  BY BucketIs
<1>4. CASE bucket_start(k) < bucket_start(m)
  BY <1>1, <1>2, <1>3, <1>4, MultiplesApart
<1>5. CASE bucket_start(k) > bucket_start(m)
  <2>1. bucket_start(m) + Slots <= bucket_start(k)
    BY <1>1, <1>2, <1>3, <1>5, MultiplesApart
  <2> QED
    BY <1>3, <2>1
<1> QED
  BY <1>3, <1>4, <1>5

\* The minutes of a bucket are those whose bucket it is.
LEMMA SlotsOfBucket ==
  ASSUME NEW k \in Nat, NEW m \in Nat
  PROVE  m \in ExpectedSlots(bucket_start(k)) <=> bucket_start(m) = bucket_start(k)
<1>1. /\ bucket_start(k) \in Nat /\ bucket_start(m) \in Nat /\ Slots \in Nat \ {0}
      /\ bucket_start(k) <= k /\ m < bucket_start(m) + Slots
      /\ bucket_start(m) <= m /\ k < bucket_start(k) + Slots
  BY BucketIs
<1>2. \/ bucket_start(k) = bucket_start(m)
      \/ bucket_start(k) + Slots <= bucket_start(m)
      \/ bucket_start(m) + Slots <= bucket_start(k)
  BY BucketOrder
<1> QED
  BY <1>1, <1>2 DEF ExpectedSlots

-----------------------------------------------------------------------------
(* In order of time *)

\* A set of numbers that has a bound is finite.
LEMMA MinutesFinite ==
  ASSUME NEW S \in SUBSET Minute
  PROVE  IsFiniteSet(S) /\ Cardinality(S) \in Nat
<1>1. IsFiniteSet(S)
  <2>1. S \in SUBSET (0 .. MaxMinute) /\ 0 \in Int /\ MaxMinute \in Int
    BY MinuteIs DEF Minute
  <2> QED
    BY <2>1, FS_Interval, FS_Subset
<1> QED
  BY <1>1, FS_CardinalityType

\* The rank of a minute
LEMMA RankedIs ==
  ASSUME NEW S, NEW i, NEW m
  PROVE  m \in Ranked(S, i) <=> m \in S /\ Cardinality(Before(S, m)) = i - 1
  BY DEF Ranked

\* What is not the last comes before less than all.
LEMMA RankBelow ==
  ASSUME NEW S \in SUBSET Minute, NEW m \in S
  PROVE  Cardinality(Before(S, m)) < Cardinality(S) /\ Cardinality(Before(S, m)) \in Nat
<1>1. Before(S, m) \in SUBSET (S \ {m}) /\ m \in Nat
  BY MinuteIs DEF Before
<1>2. IsFiniteSet(S) /\ Cardinality(S) \in Nat
  BY MinutesFinite
<1>3. IsFiniteSet(S \ {m}) /\ Cardinality(S \ {m}) = Cardinality(S) - 1
  BY <1>2, FS_RemoveElement
<1>4. Cardinality(Before(S, m)) <= Cardinality(S \ {m}) /\ IsFiniteSet(Before(S, m))
  BY <1>1, <1>3, FS_Subset
<1>5. Cardinality(Before(S, m)) \in Nat
  BY <1>4, FS_CardinalityType
<1> QED
  BY <1>2, <1>3, <1>4, <1>5

\* What comes after all the others comes last in the order.
LEMMA OrderAppended ==
  ASSUME NEW S \in SUBSET Minute, NEW m \in Minute, \A k \in S : k < m
  PROVE  /\ Cardinality(S \union {m}) = Cardinality(S) + 1
         /\ DOMAIN InOrder(S \union {m}) = 1 .. Cardinality(S) + 1
         /\ DOMAIN InOrder(S) = 1 .. Cardinality(S)
         /\ \A i \in 1 .. Cardinality(S) : InOrder(S \union {m})[i] = InOrder(S)[i]
         /\ InOrder(S \union {m})[Cardinality(S) + 1] = m
<1> DEFINE n == Cardinality(S)
           R == S \union {m}
<1>1. \A k \in S : k \in Nat /\ k < m
  BY MinuteIs
<1>2. m \in Nat /\ m \notin S
  BY <1>1, MinuteIs
<1>3. IsFiniteSet(S) /\ n \in Nat
  BY MinutesFinite
<1>4. Cardinality(R) = n + 1
  BY <1>2, <1>3, FS_AddElement
<1>5. Before(R, m) = S
  <2>1. ~ m < m
    BY <1>2
  <2> QED
    BY <1>1, <2>1 DEF Before
<1>6. \A j \in S : Before(R, j) = Before(S, j)
  BY <1>1, <1>2 DEF Before
<1>7. \A j \in S : Cardinality(Before(S, j)) < n /\ Cardinality(Before(S, j)) \in Nat
  BY RankBelow
<1>8. ASSUME NEW i \in 1 .. n PROVE Ranked(R, i) = Ranked(S, i)
  <2>1. m \notin Ranked(R, i)
    BY <1>3, <1>5 DEF Ranked
  <2>2. \A j \in S : j \in Ranked(R, i) <=> j \in Ranked(S, i)
    BY <1>6 DEF Ranked
  <2>3. Ranked(R, i) \subseteq R /\ Ranked(S, i) \subseteq S
    BY DEF Ranked
  <2> QED
    BY <2>1, <2>2, <2>3
<1>9. Ranked(R, n + 1) = {m}
  <2>1. m \in Ranked(R, n + 1)
    <3>1. Cardinality(Before(R, m)) = n + 1 - 1
      BY <1>3, <1>5
    <3>2. m \in R
      OBVIOUS
    <3> HIDE DEF n, R
    <3> QED
      BY <1>3, <3>1, <3>2, RankedIs
  <2>2. \A j \in S : j \notin Ranked(R, n + 1)
    <3> SUFFICES ASSUME NEW j \in S, j \in Ranked(R, n + 1) PROVE FALSE
      OBVIOUS
    <3>1. Cardinality(Before(S, j)) = n + 1 - 1
      <4> HIDE DEF n, R
      <4> QED
        BY <1>3, <1>6, RankedIs
    <3> QED
      BY <1>3, <1>7, <3>1
  <2>3. Ranked(R, n + 1) \subseteq R
    BY DEF Ranked
  <2> QED
    BY <2>1, <2>2, <2>3
<1>10. InOrder(R) = [i \in 1 .. n + 1 |-> CHOOSE j \in Ranked(R, i) : TRUE]
  BY <1>4 DEF InOrder
<1>11. InOrder(S) = [i \in 1 .. n |-> CHOOSE j \in Ranked(S, i) : TRUE]
  BY DEF InOrder
<1>12. \A i \in 1 .. n : i \in 1 .. n + 1
  BY <1>3
<1>13. n + 1 \in 1 .. n + 1
  BY <1>3
<1>14. InOrder(R)[n + 1] = m
  <2>1. InOrder(R)[n + 1] = CHOOSE j \in {m} : TRUE
    BY <1>9, <1>10, <1>13
  <2> QED
    BY <2>1
<1> HIDE DEF n, R
<1>15. \A i \in 1 .. n : InOrder(R)[i] = InOrder(S)[i]
  BY <1>8, <1>10, <1>11, <1>12
<1> QED
  BY <1>4, <1>10, <1>11, <1>14, <1>15 DEF n, R

\* The end of a set is the end of the order.
LEMMA OrderOfEnd ==
  ASSUME NEW S \in SUBSET Minute, NEW T \in SUBSET S, \A k \in S \ T : \A m \in T : k < m
  PROVE  /\ Cardinality(T) \in 0 .. Cardinality(S)
         /\ DOMAIN InOrder(T) = 1 .. Cardinality(T)
         /\ \A i \in 1 .. Cardinality(T) :
              InOrder(T)[i] = InOrder(S)[i + Cardinality(S) - Cardinality(T)]
<1> DEFINE d == Cardinality(S \ T)
<1>1. IsFiniteSet(S) /\ IsFiniteSet(T) /\ Cardinality(S) \in Nat /\ Cardinality(T) \in Nat
  BY MinutesFinite
<1>2. Cardinality(S) = Cardinality(T) + d /\ d \in Nat
  <2>1. S \intersect T = T /\ IsFiniteSet(S \ T)
    BY <1>1, MinutesFinite
  <2>2. d = Cardinality(S) - Cardinality(T)
    BY <1>1, <2>1, FS_Difference
  <2>3. d \in Nat
    BY <2>1, FS_CardinalityType
  <2> QED
    BY <1>1, <2>2, <2>3
<1>3. \A k \in S : k \in Nat
  BY MinuteIs
<1>4. ASSUME NEW m \in T PROVE Cardinality(Before(S, m)) = d + Cardinality(Before(T, m))
  <2> DEFINE B == Before(T, m)
  <2>1. Before(S, m) = (S \ T) \union B
    BY DEF Before
  <2>2. (S \ T) \intersect B = {} /\ B \in SUBSET Minute /\ (S \ T) \in SUBSET Minute
    BY DEF Before
  <2>3. IsFiniteSet(B) /\ IsFiniteSet(S \ T) /\ Cardinality(B) \in Nat
    BY <2>2, MinutesFinite
  <2> HIDE DEF B
  <2>4. Cardinality((S \ T) \union B) = d + Cardinality(B) - 0
    BY <2>2, <2>3, FS_Union, FS_EmptySet
  <2>5. Cardinality(Before(S, m)) = d + Cardinality(B)
    <3>1. d + Cardinality(B) - 0 = d + Cardinality(B)
      BY <1>2, <2>3
    <3> QED
      BY <2>1, <2>4, <3>1
  <2> QED
    BY <2>5 DEF B
<1>5. ASSUME NEW m \in S \ T PROVE Cardinality(Before(S, m)) < d
  <2>1. Before(S, m) = Before(S \ T, m)
    <3>1. \A k \in T : k \in Nat /\ m \in Nat /\ m < k /\ ~ k < m
      BY <1>3
    <3> QED
      BY <3>1 DEF Before
  <2>2. S \ T \in SUBSET Minute
    OBVIOUS
  <2> QED
    BY <2>1, <2>2, RankBelow
<1>6. ASSUME NEW i \in 1 .. Cardinality(T) PROVE Ranked(T, i) = Ranked(S, i + d)
  <2>1. ASSUME NEW m \in T PROVE m \in Ranked(T, i) <=> m \in Ranked(S, i + d)
    <3>1. Cardinality(Before(T, m)) \in Nat
      BY RankBelow
    <3>2. Cardinality(Before(T, m)) = i - 1 <=> Cardinality(Before(S, m)) = i + d - 1
      <4> DEFINE c == Cardinality(Before(T, m))
                 e == Cardinality(Before(S, m))
      <4>1. e = d + c /\ c \in Nat /\ d \in Nat /\ i \in Nat
        <5>1. i \in Nat
          BY <1>1
        <5> QED
          BY <1>2, <1>4, <3>1, <5>1
      <4> HIDE DEF c, e, d
      <4>2. c = i - 1 <=> e = i + d - 1
        BY <4>1
      <4> QED
        BY <4>2 DEF c, e
    <3>3. m \in S /\ i \in Nat
      BY <1>1
    <3> HIDE DEF d
    <3> QED
      BY <1>2, <3>2, <3>3, RankedIs
  <2>2. ASSUME NEW m \in S \ T PROVE m \notin Ranked(S, i + d)
    <3>1. Cardinality(Before(S, m)) \in Nat
      BY RankBelow
    <3>2. Cardinality(Before(S, m)) # i + d - 1
      <4> DEFINE e == Cardinality(Before(S, m))
      <4>1. e < d /\ e \in Nat /\ d \in Nat /\ i \in Nat /\ i >= 1
        BY <1>1, <1>2, <1>5, <3>1
      <4> HIDE DEF e, d
      <4>2. e # i + d - 1
        BY <4>1
      <4> QED
        BY <4>2 DEF e
    <3>3. m \in S /\ i \in Nat
      BY <1>1
    <3> HIDE DEF d
    <3> QED
      BY <1>2, <3>2, <3>3, RankedIs
  <2>3. Ranked(T, i) \subseteq T /\ Ranked(S, i + d) \subseteq S
    BY DEF Ranked
  <2> QED
    BY <2>1, <2>2, <2>3
<1>7. InOrder(S) = [i \in 1 .. Cardinality(S) |-> CHOOSE j \in Ranked(S, i) : TRUE]
  BY DEF InOrder
<1>8. InOrder(T) = [i \in 1 .. Cardinality(T) |-> CHOOSE j \in Ranked(T, i) : TRUE]
  BY DEF InOrder
<1> HIDE DEF d
<1>9. ASSUME NEW i \in 1 .. Cardinality(T) PROVE InOrder(T)[i] = InOrder(S)[i + d]
  <2>1. i + d \in 1 .. Cardinality(S)
    BY <1>1, <1>2
  <2> QED
    BY <1>6, <1>7, <1>8, <2>1
<1>10. \A i \in 1 .. Cardinality(T) : i + d = i + Cardinality(S) - Cardinality(T)
  BY <1>1, <1>2
<1>11. \A i \in 1 .. Cardinality(T) : InOrder(T)[i] = InOrder(S)[i + Cardinality(S) - Cardinality(T)]
  BY <1>9, <1>10
<1> QED
  BY <1>1, <1>2, <1>8, <1>11

-----------------------------------------------------------------------------
(* Whole buckets and their bars *)

\* A whole bucket is a minute and starts with one that is there.
LEMMA WholeIs ==
  ASSUME NEW S \in SUBSET Minute
  PROVE  /\ WholeBuckets(S) \in SUBSET Minute
         /\ \A b : b \in WholeBuckets(S) <=>
                     ExpectedSlots(b) \subseteq S /\ \E m \in S : b = bucket_start(m)
<1>1. \A b : b \in WholeBuckets(S) <=>
                ExpectedSlots(b) \subseteq S /\ \E m \in S : b = bucket_start(m)
  BY DEF WholeBuckets, BucketsOf
<1>2. ASSUME NEW m \in S PROVE bucket_start(m) \in Minute
  <2>1. m \in Nat /\ m <= MaxMinute /\ MaxMinute \in Nat
    BY MinuteIs
  <2> QED
    BY <2>1, BucketIs, MinuteIs
<1> QED
  BY <1>1, <1>2

\* A minute after all the others makes its own bucket whole, if it is its last one and no
\* other is missing, and no other bucket.
LEMMA WholeGrows ==
  ASSUME NEW S \in SUBSET Minute, NEW m \in Minute, \A k \in S : k < m, NEW R, R = S \union {m}
  PROVE  /\ R \in SUBSET Minute
         /\ bucket_start(m) \notin WholeBuckets(S)
         /\ \A b \in WholeBuckets(S) : b < bucket_start(m)
         /\ IF ExpectedSlots(bucket_start(m)) \subseteq R
            THEN /\ WholeBuckets(R) = WholeBuckets(S) \union {bucket_start(m)}
                 /\ m = bucket_start(m) + Slots - 1
            ELSE WholeBuckets(R) = WholeBuckets(S)
<1> DEFINE B == bucket_start(m)
<1>1. /\ m \in Nat /\ m \notin S /\ R \in SUBSET Minute
      /\ \A k \in S : k \in Nat /\ k <= m
  BY MinuteIs
<1>2. /\ Slots \in Nat \ {0} /\ B \in Nat /\ B <= m /\ m < B + Slots
  BY <1>1, BucketIs
<1>3. m \in ExpectedSlots(B)
  BY <1>1, <1>2 DEF ExpectedSlots
<1>4. B \notin WholeBuckets(S)
  BY <1>1, <1>3, WholeIs
<1>5. ASSUME NEW b \in WholeBuckets(S) PROVE b < B /\ b \in WholeBuckets(R)
  <2>1. PICK k \in S : b = bucket_start(k)
    BY WholeIs
  <2>2. b = B \/ b + Slots <= B
    BY <1>1, <2>1, BucketOrder
  <2>3. b \in Nat
    BY <1>1, <2>1, BucketIs
  <2>4. b < B
    BY <1>2, <1>4, <2>2, <2>3
  <2>5. b \in WholeBuckets(R)
    BY <1>1, <2>1, WholeIs
  <2> QED
    BY <2>4, <2>5
<1>6. ASSUME NEW b \in WholeBuckets(R), b # B PROVE b \in WholeBuckets(S)
  <2>1. PICK k \in S : b = bucket_start(k)
    BY <1>1, <1>6, WholeIs
  <2>2. m \notin ExpectedSlots(b)
    BY <1>1, <1>6, <2>1, SlotsOfBucket
  <2>3. ExpectedSlots(b) \subseteq S
    BY <1>1, <2>2, WholeIs
  <2> QED
    BY <2>1, <2>3, WholeIs
<1>7. B \in WholeBuckets(R) <=> ExpectedSlots(B) \subseteq R
  BY <1>1, WholeIs
<1>8. ExpectedSlots(B) \subseteq R => m = B + Slots - 1
  <2> SUFFICES ASSUME ExpectedSlots(B) \subseteq R PROVE m = B + Slots - 1
    OBVIOUS
  <2>1. B + Slots - 1 \in ExpectedSlots(B)
    BY <1>2 DEF ExpectedSlots
  <2>2. B + Slots - 1 = m \/ B + Slots - 1 \in S
    BY <2>1
  <2> HIDE DEF B
  <2>3. B + Slots - 1 <= m
    BY <1>1, <1>2, <2>2
  <2> QED
    BY <1>1, <1>2, <2>3
<1> HIDE DEF B
<1>9. IF ExpectedSlots(B) \subseteq R
      THEN WholeBuckets(R) = WholeBuckets(S) \union {B} /\ m = B + Slots - 1
      ELSE WholeBuckets(R) = WholeBuckets(S)
  <2>1. CASE ExpectedSlots(B) \subseteq R
    BY <1>5, <1>6, <1>7, <1>8, <2>1
  <2>2. CASE ~ ExpectedSlots(B) \subseteq R
    BY <1>5, <1>6, <1>7, <2>2
  <2> QED
    BY <2>1, <2>2
<1> QED
  BY <1>1, <1>4, <1>5, <1>9 DEF B

\* The bar of a whole bucket, and all bars
BarAt(b) == Bar(Built(b, ExpectedSlots(b)))
Bars == {BarsOf(S)[i] : S \in SUBSET Minute, i \in Nat}

\* Bars are one for each whole bucket.
LEMMA BarsTyped ==
  ASSUME NEW S \in SUBSET Minute
  PROVE  /\ BarsOf(S) \in Seq(Bars)
         /\ Len(BarsOf(S)) = Cardinality(WholeBuckets(S)) /\ Cardinality(WholeBuckets(S)) \in Nat
         /\ DOMAIN InOrder(WholeBuckets(S)) = 1 .. Cardinality(WholeBuckets(S))
         /\ \A i \in 1 .. Cardinality(WholeBuckets(S)) :
              BarsOf(S)[i] = BarAt(InOrder(WholeBuckets(S))[i])
<1> DEFINE n == Cardinality(WholeBuckets(S))
<1>1. n \in Nat
  BY WholeIs, MinutesFinite
<1>2. DOMAIN InOrder(WholeBuckets(S)) = 1 .. n
  BY DEF InOrder
<1>3. BarsOf(S) = [i \in 1 .. n |-> BarAt(InOrder(WholeBuckets(S))[i])]
  BY <1>2 DEF BarsOf, BarAt
<1>4. \A i \in 1 .. n : BarsOf(S)[i] \in Bars
  BY <1>1 DEF Bars
<1> HIDE DEF n
<1>5. BarsOf(S) \in [1 .. n -> Bars]
  BY <1>3, <1>4
<1>6. BarsOf(S) \in Seq(Bars) /\ Len(BarsOf(S)) = n
  <2>1. BarsOf(S) \in Seq(Bars)
    BY <1>1, <1>5, SeqDef
  <2>2. DOMAIN BarsOf(S) = 1 .. n /\ DOMAIN BarsOf(S) = 1 .. Len(BarsOf(S)) /\ Len(BarsOf(S)) \in Nat
    BY <1>5, <2>1, LenProperties
  <2>3. Len(BarsOf(S)) = n
    BY <1>1, <2>2
  <2> QED
    BY <2>1, <2>3
<1> QED
  BY <1>1, <1>2, <1>3, <1>6 DEF n

\* A sequence is another one with an element appended.
LEMMA Appended ==
  ASSUME NEW U, NEW s \in Seq(U), NEW t \in Seq(U), Len(t) = Len(s) + 1,
         \A i \in 1 .. Len(s) : t[i] = s[i], NEW e, e = t[Len(s) + 1]
  PROVE  t = Append(s, e) /\ e \in U
<1>1. Len(s) \in Nat /\ Len(s) + 1 \in 1 .. Len(t)
  BY LenProperties
<1>2. e \in U
  BY <1>1, ElementOfSeq
<1>3. /\ Append(s, e) \in Seq(U) /\ Len(Append(s, e)) = Len(s) + 1
      /\ \A i \in 1 .. Len(s) : Append(s, e)[i] = s[i]
      /\ Append(s, e)[Len(s) + 1] = e
  BY <1>2, AppendProperties
<1>4. \A i \in 1 .. Len(t) : t[i] = Append(s, e)[i]
  <2> SUFFICES ASSUME NEW i \in 1 .. Len(t) PROVE t[i] = Append(s, e)[i]
    OBVIOUS
  <2>1. i \in 1 .. Len(s) \/ i = Len(s) + 1
    BY <1>1
  <2> QED
    BY <1>3, <2>1
<1>5. Len(t) = Len(Append(s, e))
  BY <1>3
<1> QED
  BY <1>2, <1>3, <1>4, <1>5, SeqEqual

\* A minute after all the others appends the bar of its bucket, or changes no bar.
LEMMA BarsGrow ==
  ASSUME NEW S \in SUBSET Minute, NEW m \in Minute, \A k \in S : k < m, NEW R, R = S \union {m}
  PROVE  IF ExpectedSlots(bucket_start(m)) \subseteq R
         THEN /\ BarsOf(R) = Append(BarsOf(S), BarAt(bucket_start(m)))
              /\ BarAt(bucket_start(m)) \in Bars
         ELSE BarsOf(R) = BarsOf(S)
<1> DEFINE B == bucket_start(m)
           V == WholeBuckets(S)
           W == WholeBuckets(R)
<1>1. CASE ExpectedSlots(B) \subseteq R
  <2>1. W = V \union {B} /\ R \in SUBSET Minute /\ \A b \in V : b < B
    BY <1>1, WholeGrows
  <2>2. V \in SUBSET Minute /\ B \in Minute
    BY <2>1, WholeIs
  <2>3. /\ Cardinality(W) = Cardinality(V) + 1
        /\ \A i \in 1 .. Cardinality(V) : InOrder(W)[i] = InOrder(V)[i]
        /\ InOrder(W)[Cardinality(V) + 1] = B
    <3> HIDE DEF V, W, B
    <3>1. /\ Cardinality(V \union {B}) = Cardinality(V) + 1
          /\ \A i \in 1 .. Cardinality(V) : InOrder(V \union {B})[i] = InOrder(V)[i]
          /\ InOrder(V \union {B})[Cardinality(V) + 1] = B
      BY <2>1, <2>2, OrderAppended
    <3> QED
      BY <2>1, <3>1
  <2>4. /\ BarsOf(S) \in Seq(Bars) /\ Len(BarsOf(S)) = Cardinality(V) /\ Cardinality(V) \in Nat
        /\ \A i \in 1 .. Cardinality(V) : BarsOf(S)[i] = BarAt(InOrder(V)[i])
    BY BarsTyped
  <2>5. /\ BarsOf(R) \in Seq(Bars) /\ Len(BarsOf(R)) = Cardinality(W)
        /\ \A i \in 1 .. Cardinality(W) : BarsOf(R)[i] = BarAt(InOrder(W)[i])
    BY <2>1, BarsTyped
  <2> HIDE DEF V, W, B
  <2>6. \A i \in 1 .. Cardinality(V) : i \in 1 .. Cardinality(W)
    BY <2>3, <2>4
  <2>7. Cardinality(V) + 1 \in 1 .. Cardinality(W)
    BY <2>3, <2>4
  <2>8. \A i \in 1 .. Len(BarsOf(S)) : BarsOf(R)[i] = BarsOf(S)[i]
    BY <2>3, <2>4, <2>5, <2>6
  <2>9. BarAt(B) = BarsOf(R)[Len(BarsOf(S)) + 1] /\ Len(BarsOf(R)) = Len(BarsOf(S)) + 1
    BY <2>3, <2>4, <2>5, <2>7
  <2>10. BarsOf(R) = Append(BarsOf(S), BarAt(B)) /\ BarAt(B) \in Bars
    BY <2>4, <2>5, <2>8, <2>9, Appended
  <2> QED
    BY <1>1, <2>10 DEF B
<1>2. CASE ~ ExpectedSlots(B) \subseteq R
  <2>1. W = V
    BY <1>2, WholeGrows
  <2>2. BarsOf(R) = BarsOf(S)
    BY <2>1 DEF BarsOf
  <2> QED
    BY <1>2, <2>2
<1> QED
  BY <1>1, <1>2

\* The last elements of a sequence
LEMMA LastOfIs ==
  ASSUME NEW U, NEW s \in Seq(U), NEW n \in 0 .. Len(s)
  PROVE  /\ LastOf(s, n) \in Seq(U) /\ Len(LastOf(s, n)) = n
         /\ \A i \in 1 .. n : LastOf(s, n)[i] = s[Len(s) - n + i]
<1>1. Len(s) \in Nat /\ Len(s) - n + 1 \in Int /\ Len(s) \in Int
  BY LenProperties
<1>2. \A i \in Len(s) - n + 1 .. Len(s) : s[i] \in U
  <2> SUFFICES ASSUME NEW i \in Len(s) - n + 1 .. Len(s) PROVE s[i] \in U
    OBVIOUS
  <2>1. i \in 1 .. Len(s)
    BY <1>1
  <2> QED
    BY <2>1, ElementOfSeq
<1>3. /\ LastOf(s, n) \in Seq(U)
      /\ Len(LastOf(s, n)) = IF Len(s) - n + 1 <= Len(s) THEN Len(s) - (Len(s) - n + 1) + 1 ELSE 0
      /\ \A i \in 1 .. Len(s) - (Len(s) - n + 1) + 1 : LastOf(s, n)[i] = s[Len(s) - n + 1 + i - 1]
  BY <1>1, <1>2, SubSeqProperties DEF LastOf
<1>4. Len(s) - (Len(s) - n + 1) + 1 = n /\ \A i \in 1 .. n : Len(s) - n + 1 + i - 1 = Len(s) - n + i
  BY <1>1
<1>5. Len(LastOf(s, n)) = n
  BY <1>1, <1>3, <1>4
<1>6. \A i \in 1 .. n : LastOf(s, n)[i] = s[Len(s) - n + i]
  BY <1>3, <1>4
<1> QED
  BY <1>3, <1>5, <1>6


\* The end of the end is the end.
LEMMA EndOfEnd ==
  ASSUME NEW U, NEW t \in Seq(U), NEW n \in 0 .. Len(t), NEW k \in 0 .. n
  PROVE  LastOf(LastOf(t, n), k) = LastOf(t, k)
<1>1. Len(t) \in Nat /\ k \in 0 .. Len(t)
  BY LenProperties
<1>2. /\ LastOf(t, n) \in Seq(U) /\ Len(LastOf(t, n)) = n
      /\ \A i \in 1 .. n : LastOf(t, n)[i] = t[Len(t) - n + i]
  BY LastOfIs
<1>3. /\ LastOf(t, k) \in Seq(U) /\ Len(LastOf(t, k)) = k
      /\ \A i \in 1 .. k : LastOf(t, k)[i] = t[Len(t) - k + i]
  BY <1>1, LastOfIs
<1>4. k \in 0 .. Len(LastOf(t, n))
  BY <1>2
<1>5. /\ LastOf(LastOf(t, n), k) \in Seq(U) /\ Len(LastOf(LastOf(t, n), k)) = k
      /\ \A i \in 1 .. k : LastOf(LastOf(t, n), k)[i] = LastOf(t, n)[Len(LastOf(t, n)) - k + i]
  BY <1>2, <1>4, LastOfIs
<1>6. ASSUME NEW i \in 1 .. k PROVE LastOf(LastOf(t, n), k)[i] = LastOf(t, k)[i]
  <2>1. n - k + i \in 1 .. n /\ Len(t) - n + (n - k + i) = Len(t) - k + i
    BY <1>1
  <2>2. LastOf(LastOf(t, n), k)[i] = LastOf(t, n)[n - k + i]
    BY <1>2, <1>5
  <2> QED
    BY <1>2, <1>3, <2>1, <2>2
<1> QED
  BY <1>3, <1>5, <1>6, SeqEqual

\* The bars of the minutes since some moment are the last ones.
LEMMA BarsOfEnd ==
  ASSUME NEW S \in SUBSET Minute, NEW T \in SUBSET S, \A k \in S \ T : \A m \in T : k < m
  PROVE  /\ Cardinality(WholeBuckets(T)) \in 0 .. Len(BarsOf(S))
         /\ BarsOf(T) = LastOf(BarsOf(S), Cardinality(WholeBuckets(T)))
<1> DEFINE V == WholeBuckets(T)
           W == WholeBuckets(S)
           n == Cardinality(V)
<1>1. V \in SUBSET W /\ W \in SUBSET Minute /\ T \in SUBSET Minute
  BY WholeIs
<1>2. ASSUME NEW b \in W \ V, NEW c \in V PROVE b < c
  <2>1. /\ ExpectedSlots(b) \subseteq S /\ ExpectedSlots(c) \subseteq T
        /\ b \in Nat /\ c \in Nat /\ Slots \in Nat \ {0}
    BY <1>1, WholeIs, MinuteIs, SlotsAssumption
  <2>2. PICK k \in S : b = bucket_start(k)
    BY WholeIs
  <2>3. b \in ExpectedSlots(b) /\ c \in ExpectedSlots(c)
    BY <2>1 DEF ExpectedSlots
  <2>4. SUFFICES ASSUME c <= b PROVE FALSE
    BY <2>1
  <2>5. ASSUME NEW j \in ExpectedSlots(b) PROVE j \in T
    <3>1. j \in S /\ c \in T /\ j \in Nat /\ c <= j
      BY <2>1, <2>3, <2>4, <2>5 DEF ExpectedSlots
    <3>2. ~ j < c
      BY <2>1, <3>1
    <3> QED
      BY <3>1, <3>2
  <2>6. b = bucket_start(b)
    <3>1. bucket_start(k) = b /\ k \in Nat
      BY <2>2, MinuteIs
    <3>2. bucket_start(b) = bucket_start(k)
      BY <2>1, <2>3, <3>1, SlotsOfBucket
    <3> QED
      BY <3>1, <3>2
  <2>7. b \in V
    BY <1>1, <2>3, <2>5, <2>6, WholeIs
  <2> QED
    BY <2>7
<1>3. /\ n \in 0 .. Cardinality(W)
      /\ \A i \in 1 .. n : InOrder(V)[i] = InOrder(W)[i + Cardinality(W) - n]
  <2> HIDE DEF V, W
  <2> QED
    BY <1>1, <1>2, OrderOfEnd
<1>4. /\ BarsOf(S) \in Seq(Bars) /\ Len(BarsOf(S)) = Cardinality(W) /\ Cardinality(W) \in Nat
      /\ \A i \in 1 .. Cardinality(W) : BarsOf(S)[i] = BarAt(InOrder(W)[i])
  BY BarsTyped
<1>5. /\ BarsOf(T) \in Seq(Bars) /\ Len(BarsOf(T)) = n
      /\ \A i \in 1 .. n : BarsOf(T)[i] = BarAt(InOrder(V)[i])
  BY <1>1, BarsTyped
<1> HIDE DEF V, W, n
<1>6. n \in 0 .. Len(BarsOf(S))
  BY <1>3, <1>4
<1>7. /\ LastOf(BarsOf(S), n) \in Seq(Bars) /\ Len(LastOf(BarsOf(S), n)) = n
      /\ \A i \in 1 .. n : LastOf(BarsOf(S), n)[i] = BarsOf(S)[Len(BarsOf(S)) - n + i]
  BY <1>4, <1>6, LastOfIs
<1>8. ASSUME NEW i \in 1 .. n PROVE BarsOf(T)[i] = LastOf(BarsOf(S), n)[i]
  <2>1. i + Cardinality(W) - n \in 1 .. Cardinality(W) /\ Cardinality(W) - n + i = i + Cardinality(W) - n
    BY <1>3, <1>4
  <2> QED
    BY <1>3, <1>4, <1>5, <1>7, <2>1
<1>9. BarsOf(T) = LastOf(BarsOf(S), n)
  BY <1>5, <1>7, <1>8, SeqEqual
<1> QED
  BY <1>6, <1>9 DEF n, V

-----------------------------------------------------------------------------
(* The aggregator, one minute after another *)

\* The last of some minutes and a later one is the later one.
LEMMA LaterIsLast ==
  ASSUME NEW S \in SUBSET Minute, NEW m \in Minute, \A k \in S : k < m
  PROVE  Max(S \union {m}) = m
<1> DEFINE x == Max(S \union {m})
<1>1. x \in S \union {m} /\ \A k \in S \union {m} : k <= x
  BY LastMinute
<1>2. m \in Nat /\ \A k \in S : k \in Nat
  BY MinuteIs
<1> HIDE DEF x
<1>3. x = m
  BY <1>1, <1>2
<1> QED
  BY <1>3 DEF x

\* What there is of a bucket is the whole of it, if it is as many.
LEMMA AsManyIsAll ==
  ASSUME NEW R \in SUBSET Minute, NEW b \in Nat, NEW g, g = R \intersect ExpectedSlots(b)
  PROVE  /\ Cardinality(g) \in Nat
         /\ Cardinality(g) >= Slots <=> ExpectedSlots(b) \subseteq R
         /\ ExpectedSlots(b) \subseteq R => g = ExpectedSlots(b)
<1> DEFINE E == ExpectedSlots(b)
<1>1. Slots \in Nat \ {0} /\ IsFiniteSet(E) /\ Cardinality(E) = Slots
  <2>1. Slots \in Nat \ {0} /\ b \in Int /\ b + Slots - 1 \in Int /\ ~ b > b + Slots - 1
    BY SlotsAssumption
  <2>2. b + Slots - 1 - b + 1 = Slots
    BY <2>1
  <2>3. IsFiniteSet(b .. b + Slots - 1) /\ Cardinality(b .. b + Slots - 1) = b + Slots - 1 - b + 1
    BY <2>1, FS_Interval
  <2> QED
    BY <2>1, <2>2, <2>3 DEF ExpectedSlots
<1> HIDE DEF E
<1>2. g = R \intersect E /\ g \in SUBSET E
  BY DEF E
<1>3. IsFiniteSet(g) /\ Cardinality(g) <= Cardinality(E) /\ (Cardinality(E) = Cardinality(g) => E = g)
  BY <1>1, <1>2, FS_Subset
<1>4. Cardinality(g) \in Nat
  BY <1>3, FS_CardinalityType
<1>5. Cardinality(g) >= Slots => g = E
  BY <1>1, <1>3, <1>4
<1>6. E \subseteq R => g = E
  BY <1>2
<1> QED
  BY <1>1, <1>2, <1>4, <1>5, <1>6 DEF E

\* What has been pushed of a minute's bucket before it
LEMMA BucketSoFar ==
  ASSUME NEW S \in SUBSET Minute, NEW m \in Minute, \A k \in S : k < m, S # {}
  PROVE  /\ Max(S) \in S /\ Max(S) \in Nat
         /\ bucket_start(Max(S)) \in Nat /\ bucket_start(m) \in Nat
         /\ Max(S) \in ExpectedSlots(bucket_start(Max(S))) /\ m \in ExpectedSlots(bucket_start(m))
         /\ \/ bucket_start(Max(S)) = bucket_start(m)
            \/ /\ bucket_start(Max(S)) < bucket_start(m)
               /\ S \intersect ExpectedSlots(bucket_start(m)) = {}
         /\ bucket_start(Max(S)) \in WholeBuckets(S) => bucket_start(Max(S)) # bucket_start(m)
<1> DEFINE x == Max(S)
<1>1. x \in S /\ \A k \in S : k <= x /\ k \in Nat
  BY LastMinute, MinuteIs
<1>2. x \in Nat /\ m \in Nat /\ x <= m
  BY <1>1, MinuteIs
<1> HIDE DEF x
<1>3. bucket_start(x) \in Nat /\ bucket_start(m) \in Nat /\ Slots \in Nat \ {0}
  BY <1>2, BucketIs
<1>4. x \in ExpectedSlots(bucket_start(x)) /\ m \in ExpectedSlots(bucket_start(m))
  BY <1>2, SlotsOfBucket
<1>5. bucket_start(x) = bucket_start(m) \/ bucket_start(x) < bucket_start(m)
  BY <1>2, <1>3, BucketOrder
<1>6. ASSUME bucket_start(x) < bucket_start(m), NEW k \in S PROVE k \notin ExpectedSlots(bucket_start(m))
  <2>1. k \in Nat /\ k <= x
    BY <1>1
  <2>2. bucket_start(k) \in Nat /\ bucket_start(k) <= bucket_start(x)
    <3>1. bucket_start(k) \in Nat
      BY <2>1, BucketIs
    <3>2. bucket_start(k) = bucket_start(x) \/ bucket_start(k) + Slots <= bucket_start(x)
      BY <1>2, <2>1, BucketOrder
    <3> QED
      BY <1>3, <3>1, <3>2
  <2>3. bucket_start(k) # bucket_start(m)
    BY <1>3, <1>6, <2>2
  <2> QED
    BY <1>2, <2>1, <2>3, SlotsOfBucket
<1>7. bucket_start(x) \in WholeBuckets(S) => bucket_start(x) # bucket_start(m)
  BY WholeGrows
<1> QED
  BY <1>1, <1>2, <1>3, <1>4, <1>5, <1>6, <1>7 DEF x

\* The last bucket that minutes of S belong to
LastBucket(S) == IF S = {} THEN Never ELSE bucket_start(Max(S))

\* An aggregator with a bucket in formation, and without one
Filling(b, slots, l) == [open |-> b, slots |-> slots, last |-> l]
Resting(l) == Filling(Never, {}, l)

\* What the minutes so far make of the aggregator
LEMMA AggregatorIs ==
  ASSUME NEW S \in SUBSET Minute
  PROVE  /\ AggregatorOf(S) = [open  |-> IF FormingOf(S) = {} THEN Never ELSE bucket_start(Max(S)),
                               slots |-> FormingOf(S), last |-> LastBucket(S \ FormingOf(S))]
         /\ S = {} => FormingOf(S) = {}
         /\ S # {} /\ bucket_start(Max(S)) \in WholeBuckets(S) => FormingOf(S) = {}
         /\ S # {} /\ bucket_start(Max(S)) \notin WholeBuckets(S) =>
              FormingOf(S) = S \intersect ExpectedSlots(bucket_start(Max(S)))
  BY DEF AggregatorOf, FormingOf, LastBucket

\* What they make of it together with a later one
LEMMA AggregatorNext ==
  ASSUME NEW S \in SUBSET Minute, NEW m \in Minute, \A k \in S : k < m, NEW R, R = S \union {m},
         NEW b, b = bucket_start(m)
  PROVE  /\ ExpectedSlots(b) \subseteq R =>
              AggregatorOf(R) = Resting(b)
         /\ ~ ExpectedSlots(b) \subseteq R =>
              AggregatorOf(R) =
                Filling(b, R \intersect ExpectedSlots(b), LastBucket(S \ ExpectedSlots(b)))
<1>1. Max(R) = m /\ R # {} /\ R \in SUBSET Minute
  BY LaterIsLast
<1>2. m \in ExpectedSlots(b)
  BY MinuteIs, SlotsOfBucket
<1>3. b \in WholeBuckets(R) <=> ExpectedSlots(b) \subseteq R
  BY <1>1, WholeIs
<1>4. CASE ExpectedSlots(b) \subseteq R
  <2>1. FormingOf(R) = {}
    BY <1>1, <1>3, <1>4, AggregatorIs
  <2>2. LastBucket(R \ {}) = b
    BY <1>1 DEF LastBucket
  <2> QED
    BY <1>1, <1>4, <2>1, <2>2, AggregatorIs DEF Resting, Filling
<1>5. CASE ~ ExpectedSlots(b) \subseteq R
  <2>1. FormingOf(R) = R \intersect ExpectedSlots(b)
    BY <1>1, <1>3, <1>5, AggregatorIs
  <2>2. m \in FormingOf(R)
    BY <1>2, <2>1
  <2>3. R \ FormingOf(R) = S \ ExpectedSlots(b)
    BY <1>2, <2>1
  <2> QED
    BY <1>1, <1>5, <2>1, <2>2, <2>3, AggregatorIs DEF Filling
<1> QED
  BY <1>4, <1>5

\* A push of a minute that is not late, and no bucket is open
LEMMA PushOpens ==
  ASSUME NEW l, NEW a, a = Resting(l), NEW m, ~ Late(a, m),
         NEW b, b = bucket_start(m), NEW g, g = {m}
  PROVE  /\ Cardinality(g) >= Slots =>
              /\ Push(a, m).agg = Resting(b)
              /\ Push(a, m).out = Built(b, g)
         /\ ~ Cardinality(g) >= Slots =>
              /\ Push(a, m).agg = Filling(b, g, l)
              /\ Push(a, m).out = NoBucket
<1>1. ~ Turns(a, m)
  BY DEF Turns, Filling, Resting
<1>2. Opened(a, m) = Filling(b, {}, l)
  BY <1>1 DEF Opened, Filling, Resting
<1>3. [Opened(a, m) EXCEPT !.slots = @ \union {m}] = Filling(b, g, l)
  BY <1>2 DEF Filling
<1>4. m \notin Opened(a, m).slots
  BY <1>2 DEF Filling
<1> QED
  BY <1>1, <1>3, <1>4 DEF Push, Finalized, Filling, Resting

\* Into the bucket that is open
LEMMA PushFills ==
  ASSUME NEW l, NEW b, NEW s, NEW a, a = Filling(b, s, l), NEW m, ~ Late(a, m),
         b = bucket_start(m), b # Never, m \notin s, NEW g, g = s \union {m}
  PROVE  /\ Cardinality(g) >= Slots =>
              /\ Push(a, m).agg = Resting(b)
              /\ Push(a, m).out = Built(b, g)
         /\ ~ Cardinality(g) >= Slots =>
              /\ Push(a, m).agg = Filling(b, g, l)
              /\ Push(a, m).out = NoBucket
<1>1. ~ Turns(a, m)
  BY DEF Turns, Filling, Resting
<1>2. Opened(a, m) = a
  BY <1>1 DEF Opened, Filling, Resting
<1>3. [Opened(a, m) EXCEPT !.slots = @ \union {m}] = Filling(b, g, l)
  BY <1>2 DEF Filling
<1>4. m \notin Opened(a, m).slots
  BY <1>2 DEF Filling
<1> QED
  BY <1>1, <1>3, <1>4 DEF Push, Finalized, Filling, Resting

\* Into another bucket, which it alone does not fill
LEMMA PushTurns ==
  ASSUME NEW l, NEW x, NEW s, NEW a, a = Filling(x, s, l), NEW m, ~ Late(a, m),
         NEW b, b = bucket_start(m), x # Never, x # b, NEW g, g = {m}, ~ Cardinality(g) >= Slots
  PROVE  /\ Push(a, m).agg = Filling(b, g, x)
         /\ Push(a, m).out = Built(x, s)
<1>1. Turns(a, m)
  BY DEF Turns, Filling, Resting
<1>2. Opened(a, m) = Filling(b, {}, x)
  BY DEF Opened, Turns, Finalized, Filling
<1>3. [Opened(a, m) EXCEPT !.slots = @ \union {m}] = Filling(b, g, x)
  BY <1>2 DEF Filling
<1> QED
  BY <1>1, <1>2, <1>3 DEF Push, Filling

\* The aggregator that stands on what came so far stands on one minute more after its push;
\* what it hands out then is the bucket of that minute, if it is whole, and nothing whole else.
LEMMA PushNext ==
  ASSUME NEW S \in SUBSET Minute, NEW m \in Minute, \A k \in S : k < m, NEW R, R = S \union {m},
         NEW b, b = bucket_start(m), NEW a, a = AggregatorOf(S)
  PROVE  /\ Push(a, m).agg = AggregatorOf(R)
         /\ ExpectedSlots(b) \subseteq R => Push(a, m).out = Built(b, ExpectedSlots(b))
         /\ ~ ExpectedSlots(b) \subseteq R => ~ Complete(Push(a, m).out)
<1> DEFINE E == ExpectedSlots(b)
           g == R \intersect E
           last == LastBucket(S \ FormingOf(S))
<1>1. /\ m \in Nat /\ b \in Nat /\ m \in E /\ R \in SUBSET Minute /\ m \notin S
      /\ Slots \in Nat \ {0} /\ \A k \in S : k \in Nat
  <2>1. m \in Nat /\ m \notin S /\ \A k \in S : k \in Nat
    BY MinuteIs
  <2>2. b \in Nat /\ m \in E /\ Slots \in Nat \ {0}
    BY <2>1, BucketIs, SlotsOfBucket
  <2> QED
    BY <2>1, <2>2
<1>2. /\ Cardinality(g) >= Slots <=> E \subseteq R
      /\ E \subseteq R => g = E
  BY <1>1, AsManyIsAll
<1>3. /\ E \subseteq R => AggregatorOf(R) = Resting(b)
      /\ ~ E \subseteq R =>
           AggregatorOf(R) = Filling(b, g, LastBucket(S \ E))
  BY AggregatorNext
<1>4. ~ Complete(NoBucket)
  <2>1. Never \in ExpectedSlots(Never)
    BY <1>1 DEF ExpectedSlots, Never
  <2> QED
    BY <2>1 DEF Complete, NoBucket
<1>5. a = [open |-> IF FormingOf(S) = {} THEN Never ELSE bucket_start(Max(S)),
           slots |-> FormingOf(S), last |-> last]
  BY AggregatorIs
<1>6. last \in Int /\ last >= Never
  <2> DEFINE Z == S \ FormingOf(S)
  <2>1. Z \in SUBSET Minute
    OBVIOUS
  <2>2. Z # {} => Max(Z) \in Nat
    BY <2>1, LastMinute, MinuteIs
  <2> HIDE DEF Z
  <2>3. Z # {} => bucket_start(Max(Z)) \in Nat
    BY <2>2, BucketIs
  <2>4. LastBucket(Z) \in Int /\ LastBucket(Z) >= Never
    BY <2>3 DEF LastBucket, Never
  <2> QED
    BY <2>4 DEF Z
<1>7. CASE FormingOf(S) = {}
  <2>1. a = Resting(last)
    BY <1>5, <1>7 DEF Filling, Resting
  <2>2. last < b /\ g = {m} /\ S \ E = S
    <3>1. CASE S = {}
      <4>1. last = Never
        BY <3>1 DEF LastBucket
      <4> QED
        BY <1>1, <3>1, <4>1 DEF Never
    <3>2. CASE S # {}
      <4> DEFINE x == bucket_start(Max(S))
      <4>1. /\ x \in Nat /\ Max(S) \in S /\ Max(S) \in ExpectedSlots(x)
            /\ x = b \/ (x < b /\ S \intersect E = {})
            /\ x \in WholeBuckets(S) => x # b
        BY <3>2, BucketSoFar
      <4>2. last = x
        BY <1>7, <3>2 DEF LastBucket
      <4>3. x \in WholeBuckets(S)
        <5>1. ASSUME x \notin WholeBuckets(S) PROVE FALSE
          <6>1. FormingOf(S) = S \intersect ExpectedSlots(x)
            BY <3>2, <5>1, AggregatorIs
          <6> QED
            BY <1>7, <4>1, <6>1
        <5> QED
          BY <5>1
      <4>4. x < b /\ S \intersect E = {}
        BY <4>1, <4>3
      <4> QED
        BY <1>1, <4>2, <4>4
    <3> QED
      BY <3>1, <3>2
  <2>3. ~ Late(a, m)
    BY <1>1, <1>6, <2>1, <2>2 DEF Late, Filling, Resting, Never
  <2>6. last = LastBucket(S \ E)
    BY <1>7, <2>2
  <2> HIDE DEF E, g, last
  <2>7. /\ Cardinality(g) >= Slots =>
             /\ Push(a, m).agg = Resting(b)
             /\ Push(a, m).out = Built(b, g)
        /\ ~ Cardinality(g) >= Slots =>
             /\ Push(a, m).agg = Filling(b, g, last)
             /\ Push(a, m).out = NoBucket
    BY <2>1, <2>2, <2>3, PushOpens
  <2>8. E \subseteq R => Push(a, m).agg = AggregatorOf(R) /\ Push(a, m).out = Built(b, E)
    BY <1>2, <1>3, <2>7
  <2>9. ~ E \subseteq R => Push(a, m).agg = AggregatorOf(R) /\ ~ Complete(Push(a, m).out)
    BY <1>2, <1>3, <1>4, <2>6, <2>7
  <2> QED
    BY <2>8, <2>9 DEF E
<1>8. CASE FormingOf(S) # {}
  <2> DEFINE x == bucket_start(Max(S))
             Z == S \ FormingOf(S)
  <2>0. S # {} /\ x \notin WholeBuckets(S) /\ FormingOf(S) = S \intersect ExpectedSlots(x)
    BY <1>8, AggregatorIs
  <2>1. /\ x \in Nat /\ Max(S) \in S /\ Max(S) \in ExpectedSlots(x) /\ Max(S) \in Nat
        /\ x = b \/ (x < b /\ S \intersect E = {})
    BY <2>0, BucketSoFar
  <2>2. a = Filling(x, FormingOf(S), last)
    BY <1>5, <1>8 DEF Filling
  <2>3. last < x
    <3>1. CASE Z = {}
      BY <2>1, <3>1 DEF LastBucket, Never
    <3>2. CASE Z # {}
      <4>1. Z \in SUBSET S /\ Max(Z) \in Z /\ Max(Z) \in Nat
        BY <3>2, LastMinute, MinuteIs
      <4>2. Max(Z) <= Max(S)
        BY <4>1, LastMinute
      <4>3. bucket_start(Max(Z)) # x
        BY <2>0, <2>1, <4>1, SlotsOfBucket
      <4>4. bucket_start(Max(Z)) + Slots <= x
        BY <2>1, <4>1, <4>2, <4>3, BucketOrder
      <4>5. bucket_start(Max(Z)) \in Nat
        BY <4>1, BucketIs
      <4>6. last = bucket_start(Max(Z))
        BY <3>2 DEF LastBucket
      <4> HIDE DEF x, Z, last
      <4> QED
        BY <1>1, <2>1, <4>4, <4>5, <4>6
    <3> QED
      BY <3>1, <3>2
  <2>4. x <= b
    BY <1>1, <2>1
  <2>5. ~ Late(a, m)
    <3> HIDE DEF x, last, E
    <3> QED
      BY <1>1, <1>6, <2>1, <2>2, <2>3, <2>4 DEF Late, Filling
  <2>6. CASE x = b
    <3>1. b # Never
      BY <1>1 DEF Never
    <3>2. a = Filling(b, FormingOf(S), last)
      BY <2>2, <2>6
    <3>3. g = FormingOf(S) \union {m} /\ m \notin FormingOf(S) /\ last = LastBucket(S \ E)
      <4>1. FormingOf(S) = S \intersect E
        BY <2>0, <2>6
      <4>2. S \ FormingOf(S) = S \ E
        BY <4>1
      <4> QED
        BY <1>1, <4>1, <4>2
    <3> HIDE DEF E, g, last, x, Z
    <3>4. /\ Cardinality(g) >= Slots =>
               /\ Push(a, m).agg = Resting(b)
               /\ Push(a, m).out = Built(b, g)
          /\ ~ Cardinality(g) >= Slots =>
               /\ Push(a, m).agg = Filling(b, g, last)
               /\ Push(a, m).out = NoBucket
      BY <2>5, <3>1, <3>2, <3>3, PushFills
    <3>5. E \subseteq R => Push(a, m).agg = AggregatorOf(R) /\ Push(a, m).out = Built(b, E)
      BY <1>2, <1>3, <3>4
    <3>6. ~ E \subseteq R => Push(a, m).agg = AggregatorOf(R) /\ ~ Complete(Push(a, m).out)
      BY <1>2, <1>3, <1>4, <3>3, <3>4
    <3> QED
      BY <3>5, <3>6 DEF E
  <2>7. CASE x # b
    <3>1. x < b /\ S \intersect E = {} /\ g = {m} /\ S \ E = S
      BY <1>1, <2>1, <2>7
    <3>2. x # Never
      BY <2>1 DEF Never
    <3>5. x = LastBucket(S \ E)
      BY <2>0, <3>1 DEF LastBucket
    <3>6. ~ Complete(Built(x, FormingOf(S)))
      <4>1. ~ ExpectedSlots(x) \subseteq S
        <5>1. x = bucket_start(Max(S)) /\ Max(S) \in S
          BY <2>1
        <5> QED
          BY <2>0, <5>1, WholeIs
      <4> QED
        BY <2>0, <4>1 DEF Complete, Built
    <3>7. ~ E \subseteq R
      <4> SUFFICES ASSUME E \subseteq R PROVE FALSE
        OBVIOUS
      <4>1. E = {m}
        BY <1>2, <3>1
      <4>2. b \in E /\ b + Slots - 1 \in E
        BY <1>1 DEF ExpectedSlots
      <4>3. b + Slots - 1 = b
        BY <4>1, <4>2
      <4>4. Slots = 1
        BY <1>1, <4>3
      <4>5. ExpectedSlots(x) = {x}
        BY <2>1, <4>4 DEF ExpectedSlots
      <4>6. x \in S
        BY <2>1, <4>5
      <4>7. ExpectedSlots(x) \subseteq S
        BY <4>5, <4>6
      <4> QED
        BY <2>0, <2>1, <4>7, WholeIs
    <3> HIDE DEF E, g, last, x, Z
    <3>8. ~ Cardinality(g) >= Slots
      BY <1>2, <3>7
    <3>9. Push(a, m).agg = Filling(b, g, x) /\ Push(a, m).out = Built(x, FormingOf(S))
      BY <2>2, <2>5, <2>7, <3>1, <3>2, <3>8, PushTurns
    <3>10. Push(a, m).agg = AggregatorOf(R) /\ ~ Complete(Push(a, m).out)
      BY <1>3, <3>5, <3>6, <3>7, <3>9
    <3> QED
      BY <3>7, <3>10 DEF E
  <2> QED
    BY <2>6, <2>7
<1> QED
  BY <1>7, <1>8

-----------------------------------------------------------------------------
(* What a hydration computes *)

\* The whole buckets of S, in order of time, as the aggregator hands them out
HandedOutBy(S) ==
  [i \in 1 .. Cardinality(WholeBuckets(S)) |->
     Built(InOrder(WholeBuckets(S))[i], ExpectedSlots(InOrder(WholeBuckets(S))[i]))]
Buckets == {HandedOutBy(S)[i] : S \in SUBSET Minute, i \in Nat}

\* They are one for each whole bucket.
LEMMA BucketsTyped ==
  ASSUME NEW S \in SUBSET Minute
  PROVE  HandedOutBy(S) \in Seq(Buckets) /\ Len(HandedOutBy(S)) = Cardinality(WholeBuckets(S))
<1> DEFINE n == Cardinality(WholeBuckets(S))
<1>1. n \in Nat
  BY WholeIs, MinutesFinite
<1>2. \A i \in 1 .. n : HandedOutBy(S)[i] \in Buckets
  BY <1>1 DEF Buckets
<1>3. DOMAIN HandedOutBy(S) = 1 .. n /\ HandedOutBy(S) = [i \in 1 .. n |-> HandedOutBy(S)[i]]
  BY DEF HandedOutBy
<1> HIDE DEF n
<1>4. HandedOutBy(S) \in [1 .. n -> Buckets]
  BY <1>2, <1>3
<1>5. HandedOutBy(S) \in Seq(Buckets)
  BY <1>1, <1>4, SeqDef
<1>6. DOMAIN HandedOutBy(S) = 1 .. Len(HandedOutBy(S)) /\ Len(HandedOutBy(S)) \in Nat
  BY <1>5, LenProperties
<1>7. Len(HandedOutBy(S)) = n
  BY <1>1, <1>3, <1>6
<1> QED
  BY <1>5, <1>7 DEF n

\* A minute after all the others hands out its bucket, if that is whole, and nothing else.
LEMMA BucketsGrow ==
  ASSUME NEW S \in SUBSET Minute, NEW m \in Minute, \A k \in S : k < m, NEW R, R = S \union {m},
         NEW b, b = bucket_start(m)
  PROVE  /\ ExpectedSlots(b) \subseteq R =>
              HandedOutBy(R) = Append(HandedOutBy(S), Built(b, ExpectedSlots(b)))
         /\ ~ ExpectedSlots(b) \subseteq R => HandedOutBy(R) = HandedOutBy(S)
<1> DEFINE V == WholeBuckets(S)
           W == WholeBuckets(R)
<1>1. CASE ExpectedSlots(b) \subseteq R
  <2>1. W = V \union {b} /\ R \in SUBSET Minute /\ \A c \in V : c < b
    BY <1>1, WholeGrows
  <2>2. V \in SUBSET Minute /\ b \in Minute
    BY <2>1, WholeIs
  <2>3. /\ Cardinality(W) = Cardinality(V) + 1
        /\ \A i \in 1 .. Cardinality(V) : InOrder(W)[i] = InOrder(V)[i]
        /\ InOrder(W)[Cardinality(V) + 1] = b
    <3> HIDE DEF V, W
    <3>1. /\ Cardinality(V \union {b}) = Cardinality(V) + 1
          /\ \A i \in 1 .. Cardinality(V) : InOrder(V \union {b})[i] = InOrder(V)[i]
          /\ InOrder(V \union {b})[Cardinality(V) + 1] = b
      BY <2>1, <2>2, OrderAppended
    <3> QED
      BY <2>1, <3>1
  <2>4. /\ HandedOutBy(S) \in Seq(Buckets) /\ Len(HandedOutBy(S)) = Cardinality(V)
        /\ Cardinality(V) \in Nat
        /\ HandedOutBy(R) \in Seq(Buckets) /\ Len(HandedOutBy(R)) = Cardinality(W)
    BY <2>1, <2>2, BucketsTyped, MinutesFinite
  <2>5. /\ \A i \in 1 .. Cardinality(V) :
             HandedOutBy(S)[i] = Built(InOrder(V)[i], ExpectedSlots(InOrder(V)[i]))
        /\ \A i \in 1 .. Cardinality(W) :
             HandedOutBy(R)[i] = Built(InOrder(W)[i], ExpectedSlots(InOrder(W)[i]))
    BY DEF HandedOutBy
  <2> HIDE DEF V, W
  <2>6. \A i \in 1 .. Cardinality(V) : i \in 1 .. Cardinality(W)
    BY <2>3, <2>4
  <2>7. Cardinality(V) + 1 \in 1 .. Cardinality(W)
    BY <2>3, <2>4
  <2>8. \A i \in 1 .. Len(HandedOutBy(S)) : HandedOutBy(R)[i] = HandedOutBy(S)[i]
    BY <2>3, <2>4, <2>5, <2>6
  <2> DEFINE e == Built(b, ExpectedSlots(b))
  <2>9. e = HandedOutBy(R)[Len(HandedOutBy(S)) + 1] /\ Len(HandedOutBy(R)) = Len(HandedOutBy(S)) + 1
    BY <2>3, <2>4, <2>5, <2>7
  <2> HIDE DEF e
  <2>10. HandedOutBy(R) = Append(HandedOutBy(S), e)
    <3> DEFINE s == HandedOutBy(S)
               t == HandedOutBy(R)
    <3>1. /\ s \in Seq(Buckets) /\ t \in Seq(Buckets) /\ Len(t) = Len(s) + 1
          /\ e = t[Len(s) + 1] /\ \A i \in 1 .. Len(s) : t[i] = s[i]
      BY <2>4, <2>8, <2>9
    <3> HIDE DEF s, t
    <3>2. t = Append(s, e)
      BY <3>1, Appended
    <3> QED
      BY <3>2 DEF s, t
  <2> QED
    BY <1>1, <2>10 DEF e
<1>2. CASE ~ ExpectedSlots(b) \subseteq R
  <2>1. W = V
    BY <1>2, WholeGrows
  <2>2. HandedOutBy(R) = HandedOutBy(S)
    BY <2>1 DEF HandedOutBy
  <2> QED
    BY <1>2, <2>2
<1> QED
  BY <1>1, <1>2

\* What a hydration has after the minutes of S
HydratedBy(S) == [agg |-> AggregatorOf(S), whole |-> HandedOutBy(S)]

\* It begins with nothing.
LEMMA HydrationBegins == HydratedBy({}) = [agg |-> FreshAggregator, whole |-> <<>>]
<1>1. {} \in SUBSET Minute
  OBVIOUS
<1>2. AggregatorOf({}) = FreshAggregator
  <2>1. FormingOf({}) = {} /\ LastBucket({} \ {}) = Never
    BY <1>1, AggregatorIs DEF LastBucket
  <2> QED
    BY <1>1, <2>1, AggregatorIs DEF FreshAggregator
<1>3. HandedOutBy({}) = <<>>
  <2>1. WholeBuckets({}) = {}
    BY DEF WholeBuckets, BucketsOf
  <2>2. Cardinality(WholeBuckets({})) = 0
    BY <2>1, FS_EmptySet
  <2>3. HandedOutBy({}) \in Seq(Buckets) /\ Len(HandedOutBy({})) = 0
    BY <1>1, <2>2, BucketsTyped
  <2> QED
    BY <2>3, EmptySeq
<1> QED
  BY <1>2, <1>3 DEF HydratedBy

\* And takes one minute after the other.
LEMMA HydrationTakes ==
  ASSUME NEW S \in SUBSET Minute, S # {}
  PROVE  HydratedBy(S) = Take(HydratedBy(S \ {Max(S)}), Max(S))
<1> DEFINE m == Max(S)
           Q == S \ {m}
           b == bucket_start(m)
           p == Push(AggregatorOf(Q), m)
<1>1. m \in S /\ \A k \in S : k <= m
  BY LastMinute
<1>2. m \in Minute /\ Q \in SUBSET Minute /\ S = Q \union {m} /\ \A k \in Q : k < m
  <2>1. m \in Minute /\ Q \in SUBSET Minute /\ S = Q \union {m}
    BY <1>1
  <2>2. \A k \in Q : k < m
    <3>1. \A k \in S : k \in Nat
      BY MinuteIs
    <3>2. \A k \in Q : k \in S /\ k # m
      OBVIOUS
    <3> HIDE DEF m, Q
    <3> QED
      BY <1>1, <3>1, <3>2
  <2> QED
    BY <2>1, <2>2
<1> HIDE DEF m, Q
<1>3. /\ p.agg = AggregatorOf(S)
      /\ ExpectedSlots(b) \subseteq S => p.out = Built(b, ExpectedSlots(b))
      /\ ~ ExpectedSlots(b) \subseteq S => ~ Complete(p.out)
  BY <1>2, PushNext
<1>4. /\ ExpectedSlots(b) \subseteq S =>
           HandedOutBy(S) = Append(HandedOutBy(Q), Built(b, ExpectedSlots(b)))
      /\ ~ ExpectedSlots(b) \subseteq S => HandedOutBy(S) = HandedOutBy(Q)
  BY <1>2, BucketsGrow
<1>5. HandedOutBy(S) = IF p.out # NoBucket /\ Complete(p.out)
                       THEN Append(HandedOutBy(Q), p.out) ELSE HandedOutBy(Q)
  <2>1. Built(b, ExpectedSlots(b)) # NoBucket /\ Complete(Built(b, ExpectedSlots(b)))
    <3>1. b \in Nat
      BY <1>2, MinuteIs, BucketIs
    <3>2. b # Never
      BY <3>1 DEF Never
    <3> QED
      BY <3>2 DEF Built, NoBucket, Complete
  <2> HIDE DEF p, b
  <2>2. CASE ExpectedSlots(b) \subseteq S
    BY <1>3, <1>4, <2>1, <2>2
  <2>3. CASE ~ ExpectedSlots(b) \subseteq S
    BY <1>3, <1>4, <2>3
  <2> QED
    BY <2>2, <2>3
<1>6. Take(HydratedBy(Q), m) =
        [agg   |-> p.agg,
         whole |-> IF p.out # NoBucket /\ Complete(p.out)
                   THEN Append(HandedOutBy(Q), p.out) ELSE HandedOutBy(Q)]
  BY DEF Take, HydratedBy
<1>7. HydratedBy(S) = Take(HydratedBy(Q), m)
  <2> HIDE DEF p
  <2> QED
    BY <1>3, <1>5, <1>6 DEF HydratedBy
<1> QED
  BY <1>7 DEF m, Q

\* So a hydration ends with what all its minutes amount to.
LEMMA HydrationEnds ==
  ASSUME NEW M \in SUBSET Minute
  PROVE  HydratedAggregator(M) = HydratedBy(M)
<1> DEFINE Fresh == [agg |-> FreshAggregator, whole |-> <<>>]
           Is(f) == f = [S \in SUBSET M |-> IF S = {} THEN Fresh
                                            ELSE Take(f[S \ {Max(S)}], Max(S))]
           After == CHOOSE f : Is(f)
           g == [S \in SUBSET M |-> HydratedBy(S)]
<1>1. HydratedAggregator(M) = After[M]
  BY DEF HydratedAggregator
<1>2. \A S \in SUBSET M : S # {} => Max(S) \in S /\ S \ {Max(S)} \in SUBSET M
  <2> SUFFICES ASSUME NEW S \in SUBSET M, S # {} PROVE Max(S) \in S /\ S \ {Max(S)} \in SUBSET M
    OBVIOUS
  <2>1. S \in SUBSET Minute
    OBVIOUS
  <2> QED
    BY <2>1, LastMinute
<1>3. Is(g)
  <2>1. ASSUME NEW S \in SUBSET M, S # {} PROVE g[S] = Take(g[S \ {Max(S)}], Max(S))
    <3>1. S \in SUBSET Minute /\ S \ {Max(S)} \in SUBSET M
      BY <1>2, <2>1
    <3>2. HydratedBy(S) = Take(HydratedBy(S \ {Max(S)}), Max(S))
      BY <2>1, <3>1, HydrationTakes
    <3>3. g[S] = HydratedBy(S) /\ g[S \ {Max(S)}] = HydratedBy(S \ {Max(S)})
      BY <3>1
    <3> HIDE DEF g
    <3> QED
      BY <3>2, <3>3
  <2>2. g[{}] = Fresh
    BY HydrationBegins
  <2>3. \A S \in SUBSET M : g[S] = IF S = {} THEN Fresh ELSE Take(g[S \ {Max(S)}], Max(S))
    <3> HIDE DEF g, Fresh
    <3> QED
      BY <2>1, <2>2
  <2>4. g = [S \in SUBSET M |-> g[S]]
    OBVIOUS
  <2> HIDE DEF g, Fresh
  <2> QED
    BY <2>3, <2>4
<1>4. Is(After)
  <2> HIDE DEF Is, g
  <2> QED
    BY <1>3
<1>5. \A S \in SUBSET M : After[S] = IF S = {} THEN Fresh ELSE Take(After[S \ {Max(S)}], Max(S))
  <2> HIDE DEF After, Fresh
  <2> QED
    BY <1>4
<1>6. ASSUME NEW S \in SUBSET M, After[S] # g[S] PROVE FALSE
  <2> DEFINE Sizes == {n \in Nat : \E U \in SUBSET M : Cardinality(U) = n /\ After[U] # g[U]}
  <2>1. Cardinality(S) \in Sizes
    <3>1. Cardinality(S) \in Nat
      BY MinutesFinite
    <3> HIDE DEF After, g
    <3> QED
      BY <1>6, <3>1
  <2>2. PICK n \in Sizes : \A l \in Sizes : ~ (<<l, n>> \in OpToRel(<, Nat))
    <3> HIDE DEF After, g
    <3>1. Sizes \subseteq Nat /\ Sizes # {}
      BY <2>1
    <3> HIDE DEF Sizes
    <3> QED
      BY <3>1, NatLessThanWellFounded, WFMin
  <2>3. PICK U \in SUBSET M : Cardinality(U) = n /\ After[U] # g[U]
    OBVIOUS
  <2>4. U # {}
    <3>1. g[{}] = Fresh
      BY HydrationBegins
    <3> HIDE DEF After, g, Fresh
    <3> QED
      BY <1>5, <2>3, <3>1
  <2>5. U \in SUBSET Minute /\ Max(U) \in U /\ U \ {Max(U)} \in SUBSET M
    BY <1>2, <2>4
  <2>6. g[U] = Take(g[U \ {Max(U)}], Max(U))
    <3>1. HydratedBy(U) = Take(HydratedBy(U \ {Max(U)}), Max(U))
      BY <2>4, <2>5, HydrationTakes
    <3> QED
      BY <2>5, <3>1
  <2> HIDE DEF g, After
  <2>7. After[U \ {Max(U)}] # g[U \ {Max(U)}]
    BY <1>5, <2>3, <2>4, <2>6
  <2>8. IsFiniteSet(U) /\ n \in Nat
    BY <2>5, MinutesFinite
  <2>9. Cardinality(U \ {Max(U)}) = n - 1 /\ Cardinality(U \ {Max(U)}) \in Nat
    <3>1. U \ {Max(U)} \in SUBSET Minute
      BY <2>5
    <3> QED
      BY <2>3, <2>5, <2>8, <3>1, FS_RemoveElement, MinutesFinite
  <2>10. n - 1 \in Sizes
    BY <2>5, <2>7, <2>9
  <2>11. \A l \in Sizes : ~ l < n
    <3>1. \A l \in Sizes : l \in Nat
      OBVIOUS
    <3> HIDE DEF Sizes
    <3> QED
      BY <2>2, <2>8, <3>1 DEF OpToRel
  <2> HIDE DEF Sizes
  <2> QED
    BY <2>8, <2>9, <2>10, <2>11
<1>7. After[M] = g[M] /\ g[M] = HydratedBy(M)
  <2>1. g[M] = HydratedBy(M)
    OBVIOUS
  <2> HIDE DEF After, g
  <2> QED
    BY <1>6, <2>1
<1> QED
  BY <1>1, <1>7

-----------------------------------------------------------------------------
(* The strategy, one bar after another *)

\* The periods are positive.
LEMMA PeriodsAre == Fast \in Nat \ {0} /\ Slow \in Nat \ {0} /\ AtrPeriod \in Nat \ {0}
  BY PeriodsAssumption

\* What a strategy that has seen some bars remembers
StrategyAfter(bars) == [bars |-> bars, prev |-> FastVsSlow(bars)]

\* A hydration ends with what all its bars amount to.
LEMMA StrategyEnds ==
  ASSUME NEW U, NEW bars \in Seq(U)
  PROVE  HydratedStrategy(bars) = StrategyAfter(bars)
<1> DEFINE n == Len(bars)
           Is(f) == f = [k \in 0 .. n |-> IF k = 0 THEN FreshStrategy ELSE Seen(f[k - 1], bars[k])]
           After == CHOOSE f : Is(f)
           g == [k \in 0 .. n |-> StrategyAfter(SubSeq(bars, 1, k))]
<1>1. HydratedStrategy(bars) = After[n]
  BY DEF HydratedStrategy
<1>2. n \in Nat
  BY LenProperties
<1>3. g[0] = FreshStrategy
  <2>1. SubSeq(bars, 1, 0) = <<>>
    BY SubSeqEmpty
  <2>2. Len(<<>>) = 0 /\ 0 < Fast
    BY PeriodsAre
  <2>3. FastVsSlow(<<>>) = "none"
    BY <2>2 DEF FastVsSlow
  <2>4. g[0] = StrategyAfter(SubSeq(bars, 1, 0))
    BY <1>2
  <2> HIDE DEF g
  <2> QED
    BY <2>1, <2>3, <2>4 DEF StrategyAfter, FreshStrategy
<1>4. ASSUME NEW k \in 1 .. n PROVE g[k] = Seen(g[k - 1], bars[k])
  <2> DEFINE s == SubSeq(bars, 1, k - 1)
             t == SubSeq(bars, 1, k)
  <2>1. k \in Nat /\ k - 1 \in 0 .. n /\ k \in 0 .. n /\ k - 1 \in Int
    BY <1>2
  <2>2. \A i \in 1 .. k : bars[i] \in U
    BY <1>2, ElementOfSeq
  <2>3. /\ t \in Seq(U) /\ Len(t) = (IF 1 <= k THEN k - 1 + 1 ELSE 0)
        /\ \A i \in 1 .. k - 1 + 1 : t[i] = bars[1 + i - 1]
    BY <2>1, <2>2, SubSeqProperties
  <2>4. /\ s \in Seq(U) /\ Len(s) = (IF 1 <= k - 1 THEN k - 1 - 1 + 1 ELSE 0)
        /\ \A i \in 1 .. k - 1 - 1 + 1 : s[i] = bars[1 + i - 1]
    <3>1. \A i \in 1 .. k - 1 : bars[i] \in U
      BY <2>1, <2>2
    <3> QED
      BY <2>1, <3>1, SubSeqProperties
  <2> HIDE DEF s, t
  <2>5. Len(t) = k /\ Len(s) = k - 1
    BY <2>1, <2>3, <2>4
  <2>6. (\A i \in 1 .. k : t[i] = bars[i]) /\ \A i \in 1 .. k - 1 : s[i] = bars[i]
    BY <2>1, <2>3, <2>4
  <2>7. \A i \in 1 .. Len(s) : t[i] = s[i]
    BY <2>1, <2>5, <2>6
  <2>8. bars[k] = t[Len(s) + 1] /\ Len(t) = Len(s) + 1
    BY <2>1, <2>5, <2>6
  <2>9. t = Append(s, bars[k])
    BY <2>3, <2>4, <2>7, <2>8, Appended
  <2>10. g[k] = StrategyAfter(t) /\ g[k - 1] = StrategyAfter(s)
    BY <2>1 DEF s, t
  <2> HIDE DEF g
  <2> QED
    BY <2>9, <2>10 DEF Seen, StrategyAfter
<1>5. Is(g)
  <2>1. g = [k \in 0 .. n |-> g[k]]
    OBVIOUS
  <2>2. \A k \in 0 .. n : g[k] = IF k = 0 THEN FreshStrategy ELSE Seen(g[k - 1], bars[k])
    <3> SUFFICES ASSUME NEW k \in 0 .. n
                 PROVE  g[k] = IF k = 0 THEN FreshStrategy ELSE Seen(g[k - 1], bars[k])
      OBVIOUS
    <3>1. k # 0 => k \in 1 .. n
      BY <1>2
    <3> HIDE DEF g, n
    <3> QED
      BY <1>3, <1>4, <3>1
  <2> HIDE DEF g, n
  <2> QED
    BY <2>1, <2>2
<1>6. Is(After)
  <2> HIDE DEF Is, g
  <2> QED
    BY <1>5
<1>7. \A k \in 0 .. n : After[k] = IF k = 0 THEN FreshStrategy ELSE Seen(After[k - 1], bars[k])
  <2> HIDE DEF After, n
  <2> QED
    BY <1>6
<1>8. \A k \in 0 .. n : After[k] = g[k]
  <2> SUFFICES ASSUME NEW k \in 0 .. n, After[k] # g[k] PROVE FALSE
    OBVIOUS
  <2> DEFINE Wrong == {j \in 0 .. n : After[j] # g[j]}
  <2> HIDE DEF After, g, n
  <2>1. Wrong \subseteq Nat /\ Wrong # {}
    BY <1>2
  <2>2. PICK j \in Wrong : \A l \in Wrong : ~ (<<l, j>> \in OpToRel(<, Nat))
    <3> HIDE DEF Wrong
    <3> QED
      BY <2>1, NatLessThanWellFounded, WFMin
  <2>3. \A l \in Wrong : ~ l < j
    <3> HIDE DEF Wrong
    <3> QED
      BY <2>1, <2>2 DEF OpToRel
  <2>4. j \in 0 .. n /\ After[j] # g[j]
    OBVIOUS
  <2>5. j # 0
    <3>1. 0 \in 0 .. n
      BY <1>2
    <3> QED
      BY <1>3, <1>7, <2>4, <3>1
  <2>6. j \in 1 .. n /\ j - 1 \in 0 .. n /\ j - 1 < j
    BY <1>2, <2>4, <2>5
  <2>7. After[j - 1] # g[j - 1]
    BY <1>4, <1>7, <2>4, <2>5, <2>6
  <2>8. j - 1 \in Wrong
    BY <2>6, <2>7
  <2> HIDE DEF Wrong
  <2> QED
    BY <2>3, <2>6, <2>8
<1>9. g[n] = StrategyAfter(bars)
  <2>1. SubSeq(bars, 1, n) = bars
    BY SubSeqFull
  <2>2. g[n] = StrategyAfter(SubSeq(bars, 1, n))
    BY <1>2
  <2> HIDE DEF g
  <2> QED
    BY <2>1, <2>2
<1>10. n \in 0 .. n
  BY <1>2
<1> HIDE DEF After, g
<1> QED
  BY <1>1, <1>8, <1>9, <1>10

\* The averages stand as for all the bars, if there are enough of them.
LEMMA SideOfEnd ==
  ASSUME NEW U, NEW t \in Seq(U), NEW n \in 0 .. Len(t), NEW s, s = LastOf(t, n)
  PROVE  /\ FastVsSlow(s) # "none" => FastVsSlow(t) = FastVsSlow(s)
         /\ n >= Fast /\ n >= Slow => FastVsSlow(s) # "none"
<1>1. Len(s) = n /\ Len(t) \in Nat /\ n \in Nat /\ n <= Len(t)
  BY LastOfIs, LenProperties
<1>2. Fast \in Nat /\ Slow \in Nat
  BY PeriodsAre
<1>3. \A k \in 0 .. n : Closes(s, k) = Closes(t, k)
  <2> SUFFICES ASSUME NEW k \in 0 .. n PROVE Closes(s, k) = Closes(t, k)
    OBVIOUS
  <2>1. LastOf(s, k) = LastOf(t, k)
    BY EndOfEnd
  <2> QED
    BY <2>1 DEF Closes
<1>4. CASE Len(s) < Fast \/ Len(s) < Slow
  <2>1. FastVsSlow(s) = "none"
    BY <1>4 DEF FastVsSlow
  <2>2. ~ (n >= Fast /\ n >= Slow)
    BY <1>1, <1>2, <1>4
  <2> QED
    BY <2>1, <2>2
<1>5. CASE ~ (Len(s) < Fast \/ Len(s) < Slow)
  <2>1. Fast \in 0 .. n /\ Slow \in 0 .. n /\ ~ (Len(t) < Fast \/ Len(t) < Slow)
    BY <1>1, <1>2, <1>5
  <2>2. Closes(s, Fast) = Closes(t, Fast) /\ Closes(s, Slow) = Closes(t, Slow)
    BY <1>3, <2>1
  <2>3. /\ FastVsSlow(s) = IF Closes(s, Fast) * Slow > Closes(s, Slow) * Fast THEN "above" ELSE "below"
        /\ FastVsSlow(t) = IF Closes(t, Fast) * Slow > Closes(t, Slow) * Fast THEN "above" ELSE "below"
    BY <1>5, <2>1 DEF FastVsSlow
  <2>4. FastVsSlow(t) = FastVsSlow(s)
    BY <2>2, <2>3
  <2>5. FastVsSlow(s) # "none"
    BY <2>3
  <2> QED
    BY <2>4, <2>5
<1> QED
  BY <1>4, <1>5

\* The end grows with the whole.
LEMMA EndGrows ==
  ASSUME NEW U, NEW t \in Seq(U), NEW n \in 0 .. Len(t), NEW e \in U
  PROVE  /\ Append(t, e) \in Seq(U) /\ n + 1 \in 0 .. Len(Append(t, e))
         /\ Append(LastOf(t, n), e) = LastOf(Append(t, e), n + 1)
<1> DEFINE s == LastOf(t, n)
           z == Append(t, e)
<1>1. /\ s \in Seq(U) /\ Len(s) = n /\ Len(t) \in Nat
      /\ \A i \in 1 .. n : s[i] = t[Len(t) - n + i]
  BY LastOfIs, LenProperties
<1>2. /\ z \in Seq(U) /\ Len(z) = Len(t) + 1 /\ z[Len(t) + 1] = e
      /\ \A i \in 1 .. Len(t) : z[i] = t[i]
  BY AppendProperties
<1> HIDE DEF s, z
<1>3. n + 1 \in 0 .. Len(z)
  BY <1>1, <1>2
<1> DEFINE w == LastOf(z, n + 1)
<1>4. /\ w \in Seq(U) /\ Len(w) = n + 1
      /\ \A i \in 1 .. n + 1 : w[i] = z[Len(z) - (n + 1) + i]
  BY <1>2, <1>3, LastOfIs
<1> HIDE DEF w
<1>5. ASSUME NEW i \in 1 .. Len(s) PROVE w[i] = s[i]
  <2>1. /\ i \in 1 .. n + 1 /\ i \in 1 .. n /\ Len(z) - (n + 1) + i = Len(t) - n + i
        /\ Len(t) - n + i \in 1 .. Len(t)
    BY <1>1, <1>2
  <2>2. w[i] = z[Len(t) - n + i]
    BY <1>4, <2>1
  <2> QED
    BY <1>1, <1>2, <2>1, <2>2
<1>6. e = w[Len(s) + 1]
  <2>1. n + 1 \in 1 .. n + 1 /\ Len(z) - (n + 1) + (n + 1) = Len(t) + 1
    BY <1>1, <1>2
  <2>2. w[n + 1] = z[Len(t) + 1]
    BY <1>4, <2>1
  <2> QED
    BY <1>1, <1>2, <2>2
<1>7. w = Append(s, e)
  BY <1>1, <1>4, <1>5, <1>6, Appended
<1> QED
  BY <1>2, <1>3, <1>7 DEF s, z, w

\* A signal to trade on the last bars is the signal on all of them.
LEMMA SignalOfEnd ==
  ASSUME NEW U, NEW t \in Seq(U), NEW n \in 0 .. Len(t), NEW s, s = LastOf(t, n), NEW bar \in U,
         Signalled(StrategyAfter(s), bar) # "HOLD"
  PROVE  Signalled(StrategyAfter(t), bar) = Signalled(StrategyAfter(s), bar)
<1> DEFINE x == Append(s, bar)
           y == Append(t, bar)
<1>1. /\ y \in Seq(U) /\ n + 1 \in 0 .. Len(y) /\ x = LastOf(y, n + 1)
      /\ Len(y) = Len(t) + 1 /\ Len(t) \in Nat /\ n \in Nat
  <2>1. Len(y) = Len(t) + 1 /\ Len(t) \in Nat
    BY AppendProperties, LenProperties
  <2> QED
    BY <2>1, EndGrows
<1>2. /\ Len(x) = n + 1
      /\ \A i \in 1 .. n + 1 : x[i] = y[Len(y) - (n + 1) + i]
  <2> DEFINE k == n + 1
  <2>1. k \in 0 .. Len(y) /\ x = LastOf(y, k) /\ y \in Seq(U)
    BY <1>1
  <2> HIDE DEF k
  <2>2. Len(x) = k /\ \A i \in 1 .. k : x[i] = y[Len(y) - k + i]
    BY <2>1, LastOfIs
  <2> QED
    BY <2>2 DEF k
<1>3. /\ Seen(StrategyAfter(s), bar) = StrategyAfter(x)
      /\ Seen(StrategyAfter(t), bar) = StrategyAfter(y)
  BY DEF Seen, StrategyAfter
<1> HIDE DEF x, y
<1>4. /\ FastVsSlow(x) # "none" /\ FastVsSlow(s) # "none" /\ FastVsSlow(x) # FastVsSlow(s)
      /\ AtrReady(x) /\ InBand(x)
  BY <1>3 DEF Signalled, StrategyAfter
<1>5. FastVsSlow(t) = FastVsSlow(s)
  BY <1>4, SideOfEnd
<1>6. FastVsSlow(y) = FastVsSlow(x)
  BY <1>1, <1>4, SideOfEnd
<1>7. AtrPeriod + 1 \in 0 .. n + 1 /\ AtrReady(y)
  BY <1>1, <1>2, <1>4, PeriodsAre DEF AtrReady
<1>8. AtrSum(y) = AtrSum(x)
  <2>1. LastOf(x, AtrPeriod + 1) = LastOf(y, AtrPeriod + 1)
    BY <1>1, <1>7, EndOfEnd
  <2> QED
    BY <2>1 DEF AtrSum
<1>9. y[Len(y)] = x[Len(x)]
  <2>1. n + 1 \in 1 .. n + 1 /\ Len(y) - (n + 1) + (n + 1) = Len(y)
    BY <1>1
  <2>2. x[n + 1] = y[Len(y)]
    BY <1>2, <2>1
  <2> QED
    BY <1>2, <2>2
<1>10. InBand(y)
  BY <1>4, <1>8, <1>9 DEF InBand
<1> QED
  BY <1>3, <1>4, <1>5, <1>6, <1>7, <1>10 DEF Signalled, StrategyAfter

-----------------------------------------------------------------------------
(* What aggregator and strategy stand on *)

\* They stand on what was stored since q.
StandsOn(q) ==
  /\ q = Never \/ Cardinality(Since(stored, q)) >= HydrationDepth
  /\ agg = AggregatorOf(Since(stored, q)) /\ strat = StrategyOf(Since(stored, q))

SignalWasDue ==
  signal.direction # "HOLD" => /\ signal.bucket + Slots - 1 \in stored
                               /\ signal.direction = DueAt(signal.bucket)

\* Bars are a matter of the price, which has its course from the beginning.
LEMMA BarsStay ==
  ASSUME price' = price, NEW S
  PROVE  BarsOf(S)' = BarsOf(S) /\ StrategyOf(S)' = StrategyOf(S)
  BY DEF StrategyOf, BarsOf, Bar

\* What they stand on afterwards
LEMMA StandsAfter ==
  ASSUME price' = price, NEW q \in Instant, NEW T, T = Since(stored', q),
         q = Never \/ Cardinality(T) >= HydrationDepth,
         agg' = AggregatorOf(T), strat' = StrategyOf(T)
  PROVE  StandsOn(q)'
<1>1. Since(stored, q)' = T
  BY DEF Since
<1>2. (q = Never \/ Cardinality(Since(stored, q)) >= HydrationDepth)'
  BY <1>1
<1>3. (agg = AggregatorOf(Since(stored, q)))'
  BY <1>1
<1>4. (strat = StrategyOf(Since(stored, q)))'
  <2>1. StrategyOf(Since(stored, q))' = StrategyOf(T)
    BY DEF StrategyOf, BarsOf, Bar, Since
  <2> QED
    BY <2>1
<1> QED
  BY <1>2, <1>3, <1>4 DEF StandsOn

\* The signal that was due stays so, as later minutes are stored.
LEMMA DueStays ==
  ASSUME price' = price, NEW b, UpTo(stored', b + Slots - 1) = UpTo(stored, b + Slots - 1)
  PROVE  DueAt(b)' = DueAt(b)
  BY DEF DueAt, BarsOf, Bar

\* The inductive invariant, in the terms of the proof
LEMMA MemoryIs ==
  MemoryInv <=> (InStep => (\E q \in Instant : StandsOn(q)) /\ SignalWasDue)
  BY DEF MemoryInv, StandsOn, SignalWasDue, Instant

\* The same after a step
LEMMA MemoryNext ==
  MemoryInv' <=> (InStep' => (\E q \in Instant : StandsOn(q)') /\ SignalWasDue')
  BY DEF MemoryInv, StandsOn, SignalWasDue, Instant, Since, AggregatorOf, StrategyOf

\* The beginning of a sequence
LEMMA BeginningIs ==
  ASSUME NEW U, NEW z, NEW k \in Nat, \A i \in 1 .. k : z[i] \in U
  PROVE  /\ SubSeq(z, 1, k) \in Seq(U) /\ Len(SubSeq(z, 1, k)) = k
         /\ \A i \in 1 .. k : SubSeq(z, 1, k)[i] = z[i]
<1> DEFINE s == SubSeq(z, 1, k)
<1>1. /\ s \in Seq(U) /\ Len(s) = (IF 1 <= k THEN k - 1 + 1 ELSE 0)
      /\ \A i \in 1 .. k - 1 + 1 : s[i] = z[1 + i - 1]
  <2>1. 1 \in Int /\ k \in Int
    OBVIOUS
  <2> QED
    BY <2>1, SubSeqProperties
<1> HIDE DEF s
<1>2. Len(s) = k /\ \A i \in 1 .. k : s[i] = z[i]
  BY <1>1
<1> QED
  BY <1>1, <1>2 DEF s

\* What remains of a sequence without its last element
LEMMA FrontIs ==
  ASSUME NEW U, NEW z \in Seq(U), NEW t \in Seq(U), Len(z) = Len(t) + 1,
         \A i \in 1 .. Len(t) : z[i] = t[i]
  PROVE  Front(z) = t
<1> DEFINE k == Len(t)
           s == SubSeq(z, 1, k)
<1>1. k \in Nat /\ Len(z) - 1 = k
  BY LenProperties
<1>2. Front(z) = s
  BY <1>1 DEF Front
<1>3. \A i \in 1 .. k : z[i] \in U
  BY ElementOfSeq
<1>4. s \in Seq(U) /\ Len(s) = k /\ \A i \in 1 .. k : s[i] = z[i]
  <2> HIDE DEF k
  <2> QED
    BY <1>1, <1>3, BeginningIs
<1> HIDE DEF s
<1>5. s = t
  BY <1>4, SeqEqual
<1> QED
  BY <1>2, <1>5

\* A sequence with one element more ends with it, after what there was.
LEMMA LastIs ==
  ASSUME NEW U, NEW t \in Seq(U), NEW e \in U, NEW z, z = Append(t, e)
  PROVE  Front(z) = t /\ Last(z) = e
<1>1. /\ z \in Seq(U) /\ Len(z) = Len(t) + 1 /\ z[Len(t) + 1] = e
      /\ \A i \in 1 .. Len(t) : z[i] = t[i]
  BY AppendProperties
<1>2. Last(z) = e
  BY <1>1 DEF Last
<1>3. Front(z) = t
  BY <1>1, FrontIs
<1> QED
  BY <1>2, <1>3

\* What touches neither what is stored nor the strategy keeps what they have to do with another.
LEMMA MemoryUntouched ==
  ASSUME MemoryInv, UNCHANGED <<stored, price, agg, strat, signal, ahead>>, lost \subseteq lost'
  PROVE  MemoryInv'
<1> SUFFICES ASSUME InStep' PROVE (\E q \in Instant : StandsOn(q)') /\ SignalWasDue'
  BY MemoryNext
<1>1. InStep
  BY DEF InStep
<1>2. PICK q \in Instant : StandsOn(q)
  BY <1>1, MemoryIs
<1>3. StandsOn(q)'
  <2>1. Since(stored', q) = Since(stored, q)
    OBVIOUS
  <2> QED
    BY <1>2, <2>1, StandsAfter DEF StandsOn
<1>4. SignalWasDue'
  <2>1. SignalWasDue
    BY <1>1, MemoryIs
  <2>2. DueAt(signal.bucket)' = DueAt(signal.bucket)
    <3>1. DueAt(signal.bucket)' = DueAt(signal.bucket)
      BY DEF DueAt, BarsOf, Bar
    <3> QED
      BY <3>1
  <2> QED
    BY <2>1, <2>2 DEF SignalWasDue
<1> QED
  BY <1>3, <1>4

\* What is new and in step comes after all that is stored.
LEMMA NewComesLast ==
  ASSUME WalkInv, poll.phase = "deliver", NextUp \notin stored,
         lost \intersect (stored \union {NextUp}) = {}
  PROVE  /\ stored \in SUBSET Minute /\ NextUp \in Minute
         /\ \A k \in stored : k < NextUp
<1>1. /\ stored \in SUBSET Minute /\ prov.queue \in SUBSET Minute /\ prov.queue # {}
      /\ prov \in Provider
  BY DEF WalkInv, CursorTyped, Provider
<1>2. NextUp \in prov.queue /\ NextUp \in Minute
  BY <1>1, FirstMinute DEF NextUp
<1>3. \A k \in stored : k \in Nat
  BY <1>1, MinuteIs
<1>4. NextUp \in Nat
  BY <1>2, MinuteIs
<1>5. CASE source = "bybit"
  <2>1. PICK f : OnPath(f, prov, poll, stored, lost)
    BY <1>5 DEF WalkInv
  <2>2. f = NextUp - 1 /\ \A k \in stored : k <= f
    BY <1>1, <2>1 DEF OnPath, Stands, Delivered, NextUp
  <2> QED
    BY <1>1, <1>2, <1>3, <1>4, <2>2
<1>6. CASE source = "replay"
  <2>1. NextUp \in venue /\ FixtureInOrder
    BY <1>6, FixtureHandsOut DEF WalkInv
  <2>2. ASSUME NEW k \in stored, NextUp <= k PROVE FALSE
    BY <2>1, <2>2 DEF FixtureInOrder
  <2> QED
    BY <1>1, <1>2, <1>3, <1>4, <2>2
<1> QED
  BY <1>5, <1>6, SourcesAssumption DEF WalkInv, CursorTyped

\* Hydration reads at least a bucket, and more bars than the averages need.
LEMMA DepthIs == HydrationDepth \in Nat /\ HydrationDepth >= Slots /\ Slots \in Nat \ {0}
                 /\ warmup_required \in Nat /\ warmup_required > Fast /\ warmup_required > Slow
                 /\ HydrationDepth = (warmup_required + 1) * Slots
<1>1. Fast \in Nat \ {0} /\ Slow \in Nat \ {0} /\ AtrPeriod \in Nat \ {0} /\ Slots \in Nat \ {0}
  BY PeriodsAre, SlotsAssumption
<1> DEFINE P == {Slow, Fast, AtrPeriod + 1}
<1>2. PICK x \in P : \A y \in P : x >= y
  <2>1. \E x \in P : \A y \in P : x >= y
    BY <1>1
  <2> QED
    BY <2>1
<1>3. Max(P) \in P /\ \A y \in P : Max(P) >= y
  BY <1>2 DEF Max
<1>4. warmup_required = Max(P) + 1
  BY DEF warmup_required
<1> HIDE DEF P
<1>5. Max(P) \in Nat /\ Max(P) >= Slow /\ Max(P) >= Fast
  BY <1>1, <1>3 DEF P
<1>6. warmup_required \in Nat /\ warmup_required > Fast /\ warmup_required > Slow
  BY <1>1, <1>4, <1>5
<1>7. (warmup_required + 1) * Slots = warmup_required * Slots + Slots /\ warmup_required * Slots \in Nat
  BY <1>1, <1>6
<1> QED
  BY <1>1, <1>6, <1>7 DEF HydrationDepth

\* What was stored since some moment grows by the minute that is stored after all others.
LEMMA SinceGrows ==
  ASSUME NEW S \in SUBSET Minute, NEW m \in Minute, \A k \in S : k < m, NEW q \in Instant,
         q = Never \/ Cardinality(Since(S, q)) >= HydrationDepth
  PROVE  /\ Since(S \union {m}, q) = Since(S, q) \union {m}
         /\ Since(S, q) \in SUBSET Minute /\ \A k \in Since(S, q) : k < m
         /\ q = Never \/ Cardinality(Since(S, q) \union {m}) >= HydrationDepth
<1> DEFINE T == Since(S, q)
<1>1. T \in SUBSET Minute /\ T \subseteq S /\ \A k \in T : k < m
  BY DEF Since
<1>2. m \in Nat /\ (\A k \in S : k \in Nat) /\ q \in Int
  BY MinuteIs, InstantIs
<1>3. IsFiniteSet(T) /\ Cardinality(T) \in Nat /\ m \notin T
  BY <1>1, <1>2, MinutesFinite
<1>4. Cardinality(T \union {m}) = Cardinality(T) + 1
  BY <1>3, FS_AddElement
<1>5. q < m
  <2>1. CASE q = Never
    BY <1>2, <2>1 DEF Never
  <2>2. CASE q # Never
    <3>1. Cardinality(T) # 0
      BY <1>3, <2>2, DepthIs
    <3>2. PICK k \in T : TRUE
      BY <3>1, FS_EmptySet
    <3>3. k > q /\ k < m /\ k \in Nat
      BY <1>1, <1>2 DEF Since
    <3> QED
      BY <1>2, <3>3
  <2> QED
    BY <2>1, <2>2
<1>6. Since(S \union {m}, q) = T \union {m}
  BY <1>2, <1>5 DEF Since
<1>7. q = Never \/ Cardinality(T \union {m}) >= HydrationDepth
  <2> HIDE DEF T
  <2>1. q = Never \/ Cardinality(T) >= HydrationDepth
    BY DEF T
  <2> QED
    BY <1>3, <1>4, <2>1, DepthIs
<1> QED
  BY <1>1, <1>6, <1>7

\* A candle that is learned: aggregator and strategy then stand on one minute more.
LEMMA Learned ==
  ASSUME NEW T \in SUBSET Minute, NEW m \in Minute, \A k \in T : k < m,
         agg = AggregatorOf(T), strat = StrategyOf(T), NEW stopped, Learns(m, stopped),
         NEW b, b = bucket_start(m)
  PROVE  /\ agg' = AggregatorOf(T \union {m}) /\ strat' = StrategyOf(T \union {m})
         /\ Whole(m) <=> ExpectedSlots(b) \subseteq T \union {m}
         /\ Whole(m) => Final(m) = Built(b, ExpectedSlots(b))
<1> DEFINE R == T \union {m}
<1>1. /\ Push(agg, m).agg = AggregatorOf(R)
      /\ ExpectedSlots(b) \subseteq R => Push(agg, m).out = Built(b, ExpectedSlots(b))
      /\ ~ ExpectedSlots(b) \subseteq R => ~ Complete(Push(agg, m).out)
  BY PushNext
<1>2. IF ExpectedSlots(b) \subseteq R
      THEN BarsOf(R) = Append(BarsOf(T), BarAt(b)) ELSE BarsOf(R) = BarsOf(T)
  BY BarsGrow
<1> HIDE DEF R
<1>3. b \in Nat
  BY MinuteIs, BucketIs
<1>4. Built(b, ExpectedSlots(b)) # NoBucket /\ Complete(Built(b, ExpectedSlots(b)))
  <2>1. b # Never
    BY <1>3 DEF Never
  <2> QED
    BY <2>1 DEF Built, NoBucket, Complete
<1>5. Whole(m) <=> ExpectedSlots(b) \subseteq R
  BY <1>1, <1>4 DEF Whole, Final
<1>6. Whole(m) => Final(m) = Built(b, ExpectedSlots(b))
  BY <1>1, <1>5 DEF Final
<1>7. agg' = AggregatorOf(R)
  BY <1>1 DEF Learns
<1>8. strat' = StrategyOf(R)
  <2>1. CASE Whole(m)
    <3>1. strat' = Seen(strat, BarAt(b))
      BY <1>6, <2>1 DEF Learns, BarAt
    <3>2. Seen(StrategyOf(T), BarAt(b)) = StrategyOf(R)
      BY <1>2, <1>5, <2>1 DEF Seen, StrategyOf
    <3> QED
      BY <3>1, <3>2
  <2>2. CASE ~ Whole(m)
    <3>1. strat' = strat
      BY <2>2 DEF Learns
    <3>2. StrategyOf(R) = StrategyOf(T)
      BY <1>2, <1>5, <2>2 DEF StrategyOf
    <3> QED
      BY <3>1, <3>2
  <2> QED
    BY <2>1, <2>2
<1> QED
  BY <1>5, <1>6, <1>7, <1>8 DEF R

\* What was stored since some moment comes after all the rest.
LEMMA SinceIsEnd ==
  ASSUME NEW S \in SUBSET Minute, NEW q \in Instant
  PROVE  /\ Since(S, q) \in SUBSET S
         /\ \A k \in S \ Since(S, q) : \A m \in Since(S, q) : k < m
         /\ q = Never => Since(S, q) = S
<1>1. q \in Int /\ (\A k \in S : k \in Nat) /\ Never = -1
  BY MinuteIs, InstantIs
<1> QED
  BY <1>1 DEF Since

\* The signal on a bucket that the end of the minutes makes whole is due.
LEMMA SignalIsDue ==
  ASSUME NEW S \in SUBSET Minute, NEW q \in Instant, NEW T, T = Since(S, q),
         NEW m \in Minute, \A k \in S : k < m, NEW b, b = bucket_start(m),
         ExpectedSlots(b) \subseteq T \union {m}, NEW d,
         d = Signalled(StrategyOf(T), BarAt(b)), d # "HOLD",
         NEW bars, bars = BarsOf(UpTo(S \union {m}, b + Slots - 1))
  PROVE  /\ b + Slots - 1 = m
         /\ d = Signalled(HydratedStrategy(Front(bars)), Last(bars))
<1> DEFINE R == S \union {m}
           t == BarsOf(S)
           n == Cardinality(WholeBuckets(T))
<1>1. T \in SUBSET S /\ \A k \in S \ T : \A j \in T : k < j
  BY SinceIsEnd
<1>2. ExpectedSlots(b) \subseteq R /\ R \in SUBSET Minute
  BY <1>1
<1>3. m = b + Slots - 1
  BY <1>2, WholeGrows
<1>4. UpTo(R, b + Slots - 1) = R
  <2>1. \A k \in R : k <= m
    BY MinuteIs
  <2> QED
    BY <1>3, <2>1 DEF UpTo
<1>5. bars = Append(t, BarAt(b)) /\ BarAt(b) \in Bars
  <2>1. BarsOf(R) = Append(t, BarAt(b)) /\ BarAt(b) \in Bars
    BY <1>2, BarsGrow
  <2> QED
    BY <1>4, <2>1
<1>6. t \in Seq(Bars)
  BY BarsTyped
<1> DEFINE e == BarAt(b)
<1>7. n \in 0 .. Len(t) /\ BarsOf(T) = LastOf(t, n)
  BY <1>1, BarsOfEnd
<1> HIDE DEF t, n, e
<1>9. Last(bars) = e /\ Front(bars) = t
  <2>1. e \in Bars /\ bars = Append(t, e)
    BY <1>5 DEF e
  <2> QED
    BY <1>6, <2>1, LastIs
<1>11. HydratedStrategy(t) = StrategyAfter(t)
  BY <1>6, StrategyEnds
<1>12. d = Signalled(StrategyAfter(BarsOf(T)), e)
  BY DEF StrategyOf, StrategyAfter, e
<1>13. Signalled(StrategyAfter(t), e) = d
  BY <1>5, <1>6, <1>7, <1>12, SignalOfEnd DEF e
<1> QED
  BY <1>3, <1>9, <1>11, <1>13

-----------------------------------------------------------------------------
(* What a tick makes of the memory *)

\* What the signal on a bucket amounts to after a step
LEMMA DueNext ==
  ASSUME price' = price, NEW b, NEW bars, bars = BarsOf(UpTo(stored', b + Slots - 1))
  PROVE  DueAt(b)' = Signalled(HydratedStrategy(Front(bars)), Last(bars))
  BY DEF DueAt, BarsOf, Bar

\* The signal after a step was due, if that of its bucket was.
LEMMA DueSaid ==
  ASSUME NEW b, signal'.bucket = b,
         signal'.direction # "HOLD" => /\ b + Slots - 1 \in stored'
                                       /\ signal'.direction = DueAt(b)'
  PROVE  SignalWasDue'
<1>1. DueAt(signal.bucket)' = DueAt(b)'
  BY DEF DueAt
<1> QED
  BY <1>1 DEF SignalWasDue

\* A candle that is new and in step: the memory stands on it too, and its signal is due.
LEMMA NewRemembered ==
  ASSUME WalkInv, MemoryInv, poll.phase = "deliver", NEW m, m = NextUp, m \notin stored,
         stored' = stored \union {m}, NEW stopped, Learns(m, stopped),
         signal' = IF Whole(m)
                   THEN [bucket |-> Final(m).start, direction |-> Signalled(strat, Bar(Final(m)))]
                   ELSE signal,
         UNCHANGED <<price, ahead, lost>>, InStep'
  PROVE  (\E q \in Instant : StandsOn(q)') /\ SignalWasDue'
<1>1. InStep /\ lost \intersect (stored \union {m}) = {}
  BY DEF InStep
<1>2. stored \in SUBSET Minute /\ m \in Minute /\ \A k \in stored : k < m
  BY <1>1, NewComesLast
<1>3. PICK q \in Instant : StandsOn(q)
  BY <1>1, MemoryIs
<1> DEFINE T == Since(stored, q)
           R == T \union {m}
           b == bucket_start(m)
<1>4. /\ q = Never \/ Cardinality(T) >= HydrationDepth
      /\ agg = AggregatorOf(T) /\ strat = StrategyOf(T)
  BY <1>3 DEF StandsOn
<1>5. /\ Since(stored', q) = R /\ T \in SUBSET Minute /\ \A k \in T : k < m
      /\ q = Never \/ Cardinality(R) >= HydrationDepth
  BY <1>2, <1>4, SinceGrows
<1> HIDE DEF b
<1>6. /\ agg' = AggregatorOf(R) /\ strat' = StrategyOf(R)
      /\ Whole(m) <=> ExpectedSlots(b) \subseteq R
      /\ Whole(m) => Final(m) = Built(b, ExpectedSlots(b))
  <2> HIDE DEF T
  <2> QED
    BY <1>2, <1>4, <1>5, Learned DEF b
<1>7. StandsOn(q)'
  <2> HIDE DEF T
  <2> QED
    BY <1>5, <1>6, StandsAfter
<1>8. CASE Whole(m)
  <2> DEFINE d == Signalled(StrategyOf(T), BarAt(b))
             bars == BarsOf(UpTo(stored', b + Slots - 1))
  <2>1. signal' = [bucket |-> b, direction |-> d]
    BY <1>4, <1>6, <1>8 DEF Built, BarAt
  <2>2. signal'.bucket = b /\ signal'.direction = d
    BY <2>1
  <2>3. DueAt(b)' = Signalled(HydratedStrategy(Front(bars)), Last(bars))
    BY DueNext
  <2>4. bars = BarsOf(UpTo(stored \union {m}, b + Slots - 1))
    OBVIOUS
  <2>5. ASSUME d # "HOLD"
        PROVE  b + Slots - 1 = m /\ d = Signalled(HydratedStrategy(Front(bars)), Last(bars))
    <3>1. T = Since(stored, q) /\ ExpectedSlots(b) \subseteq T \union {m}
      BY <1>6, <1>8
    <3> HIDE DEF T, bars, d
    <3>2. d = Signalled(StrategyOf(T), BarAt(b))
      BY DEF d
    <3> QED
      BY <1>2, <2>4, <2>5, <3>1, <3>2, SignalIsDue DEF b
  <2> HIDE DEF d, bars
  <2>6. SignalWasDue'
    BY <2>2, <2>3, <2>5, DueSaid
  <2> QED
    BY <1>7, <2>6
<1>9. CASE ~ Whole(m)
  <2> PICK c : c = signal.bucket
    OBVIOUS
  <2> DEFINE e == c + Slots - 1
  <2>1. signal' = signal /\ signal'.bucket = c
    BY <1>9
  <2>2. SignalWasDue
    BY <1>1, MemoryIs
  <2>3. ASSUME signal'.direction # "HOLD"
        PROVE  e \in stored' /\ signal'.direction = DueAt(c)'
    <3>1. e \in stored /\ signal.direction = DueAt(c)
      BY <2>1, <2>2, <2>3 DEF SignalWasDue
    <3>2. UpTo(stored', e) = UpTo(stored, e)
      <4>1. e < m /\ e \in Nat /\ m \in Nat
        BY <1>2, <3>1, MinuteIs
      <4> HIDE DEF e
      <4> QED
        BY <4>1 DEF UpTo
    <3>3. DueAt(c)' = DueAt(c)
      BY <3>2, DueStays
    <3> QED
      BY <2>1, <3>1, <3>3
  <2>4. SignalWasDue'
    BY <2>1, <2>3, DueSaid
  <2> QED
    BY <1>7, <2>4
<1> QED
  BY <1>8, <1>9

\* A delivery keeps it.
LEMMA DeliverRemembers ==
  ASSUME WalkInv, MemoryInv, Deliver PROVE MemoryInv'
<1>1. CASE NextUp \in stored
  <2>1. UNCHANGED <<stored, price, agg, strat, signal, ahead, lost>>
    BY <1>1 DEF Deliver, strategy, clock, history
  <2> QED
    BY <2>1, MemoryUntouched
<1>2. CASE NextUp \notin stored
  <2> DEFINE m == NextUp
  <2>1. /\ poll.phase = "deliver" /\ stored' = stored \union {m}
        /\ \E stopped \in BOOLEAN : Learns(m, stopped)
        /\ signal' = IF Whole(m)
                     THEN [bucket    |-> Final(m).start,
                           direction |-> Signalled(strat, Bar(Final(m)))]
                     ELSE signal
        /\ UNCHANGED <<price, ahead, lost>>
    BY <1>2 DEF Deliver, clock, history
  <2>2. PICK stopped \in BOOLEAN : Learns(m, stopped)
    BY <2>1
  <2>3. m = NextUp /\ m \notin stored
    BY <1>2
  <2> HIDE DEF m
  <2>4. InStep' => (\E q \in Instant : StandsOn(q)') /\ SignalWasDue'
    BY <2>1, <2>2, <2>3, NewRemembered
  <2> QED
    BY <2>4, MemoryNext
<1> QED
  BY <1>1, <1>2

\* So does a tick that raises: what the aggregator has kept is ahead.
LEMMA DeliverRaisesRemembers ==
  ASSUME MemoryInv, DeliverRaises PROVE MemoryInv'
<1>1. /\ UNCHANGED <<stored, price, signal>> /\ lost' = lost \union {NextUp}
      /\ \/ UNCHANGED <<agg, strat, ahead>>
         \/ ahead' = ahead \union {NextUp}
  BY DEF DeliverRaises, clock
<1>2. CASE UNCHANGED <<agg, strat, ahead>>
  <2>1. UNCHANGED <<stored, price, agg, strat, signal, ahead>> /\ lost \subseteq lost'
    BY <1>1, <1>2
  <2> QED
    BY <2>1, MemoryUntouched
<1>3. CASE ahead' = ahead \union {NextUp}
  <2>1. ~ InStep'
    BY <1>3 DEF InStep
  <2> QED
    BY <2>1, MemoryNext
<1> QED
  BY <1>1, <1>2, <1>3

-----------------------------------------------------------------------------
(* What a restart makes of it *)

\* What hydration reads is everything, or what was stored since some minute.
LEMMA RecentIs ==
  ASSUME stored \subseteq Minute
  PROVE  \E q \in Instant :
           /\ RecentCandles(HydrationDepth) = Since(stored, q)
           /\ q = Never \/ Cardinality(Since(stored, q)) >= HydrationDepth
<1> DEFINE S == stored
           D == HydrationDepth
           R == {m \in S : Cardinality(Since(S, m)) < D}
           L == S \ R
<1>1. RecentCandles(D) = R
  BY DEF RecentCandles, Since
<1>2. D \in Nat /\ S \in SUBSET Minute
  BY DepthIs
<1>3. \A m \in S : m \in Nat /\ m # Never /\ Never < m
  BY MinuteIs DEF Never
<1>4. \A x : /\ Since(S, x) \in SUBSET Minute /\ IsFiniteSet(Since(S, x))
             /\ Cardinality(Since(S, x)) \in Nat
  BY MinutesFinite DEF Since
<1> HIDE DEF S, D
<1>5. CASE L = {}
  <2>1. R = S /\ Since(S, Never) = S
    BY <1>3, <1>5 DEF Since
  <2>2. Never \in Instant
    BY DEF Instant
  <2> HIDE DEF R
  <2> QED
    BY <1>1, <2>1, <2>2 DEF S, D
<1>6. CASE L # {}
  <2> DEFINE q == Max(L)
  <2>1. q \in L /\ \A k \in L : k <= q
    BY <1>2, <1>6, LastMinute
  <2> HIDE DEF q
  <2>2. q \in S /\ Cardinality(Since(S, q)) >= D
    BY <1>2, <1>4, <2>1
  <2>3. q \in Instant
    BY <1>2, <2>2 DEF Instant
  <2>4. ASSUME NEW x \in S, x > q PROVE x \in R
    BY <1>3, <2>1, <2>2, <2>4
  <2>5. ASSUME NEW x \in R PROVE x > q
    <3>1. CASE x <= q
      <4>1. Since(S, q) \subseteq Since(S, x)
        BY <1>3, <2>2, <3>1 DEF Since
      <4>2. Cardinality(Since(S, q)) <= Cardinality(Since(S, x))
        BY <1>4, <4>1, FS_Subset
      <4>3. Cardinality(Since(S, x)) < D
        OBVIOUS
      <4> QED
        BY <1>2, <1>4, <2>2, <4>2, <4>3
    <3> QED
      BY <1>3, <2>2, <3>1
  <2>6. R = Since(S, q)
    BY <2>4, <2>5 DEF Since
  <2> HIDE DEF R, L
  <2> QED
    BY <1>1, <2>2, <2>3, <2>6 DEF S, D
<1> QED
  BY <1>5, <1>6

\* A restart stands on what it reads.
LEMMA HydratedIs ==
  ASSUME stored \subseteq Minute, NEW T, T = RecentCandles(HydrationDepth)
  PROVE  Hydrated.agg = AggregatorOf(T) /\ Hydrated.strat = StrategyOf(T)
<1>1. T \in SUBSET Minute
  BY DEF RecentCandles
<1>2. HydratedAggregator(T) = HydratedBy(T)
  BY <1>1, HydrationEnds
<1>3. Hydrated = [agg   |-> AggregatorOf(T),
                  strat |-> HydratedStrategy([i \in DOMAIN HandedOutBy(T) |-> Bar(HandedOutBy(T)[i])])]
  BY <1>2 DEF Hydrated, HydratedBy
<1>4. [i \in DOMAIN HandedOutBy(T) |-> Bar(HandedOutBy(T)[i])] = BarsOf(T)
  BY DEF HandedOutBy, BarsOf, InOrder
<1>5. BarsOf(T) \in Seq(Bars)
  BY <1>1, BarsTyped
<1>6. HydratedStrategy(BarsOf(T)) = StrategyAfter(BarsOf(T))
  BY <1>5, StrategyEnds
<1>7. StrategyAfter(BarsOf(T)) = StrategyOf(T)
  BY DEF StrategyAfter, StrategyOf
<1> QED
  BY <1>3, <1>4, <1>6, <1>7

\* So a crash is survived.
LEMMA CrashRemembers ==
  ASSUME WalkInv, Crash PROVE MemoryInv'
<1>1. /\ agg' = Hydrated.agg /\ strat' = Hydrated.strat /\ signal' = NoSignal
      /\ UNCHANGED <<stored, price>> /\ stored \subseteq Minute
  BY DEF Crash, clock, WalkInv, CursorTyped
<1>2. PICK q \in Instant :
        /\ RecentCandles(HydrationDepth) = Since(stored, q)
        /\ q = Never \/ Cardinality(Since(stored, q)) >= HydrationDepth
  BY <1>1, RecentIs
<1> DEFINE T == Since(stored, q)
<1>3. Hydrated.agg = AggregatorOf(T) /\ Hydrated.strat = StrategyOf(T)
  BY <1>1, <1>2, HydratedIs
<1>4. StandsOn(q)'
  <2>1. T = Since(stored', q)
    BY <1>1
  <2>2. /\ q = Never \/ Cardinality(T) >= HydrationDepth
        /\ agg' = AggregatorOf(T) /\ strat' = StrategyOf(T) /\ price' = price
    BY <1>1, <1>2, <1>3
  <2> HIDE DEF T
  <2> QED
    BY <2>1, <2>2, StandsAfter
<1>5. SignalWasDue'
  <2>1. signal'.direction = "HOLD"
    BY <1>1 DEF NoSignal
  <2> QED
    BY <2>1 DEF SignalWasDue
<1> QED
  BY <1>4, <1>5, MemoryNext

\* And a process begins with nothing.
LEMMA InitRemembers ==
  ASSUME Init PROVE MemoryInv
<1>1. stored = {} /\ agg = FreshAggregator /\ strat = FreshStrategy /\ signal = NoSignal
  BY DEF Init
<1>2. Never \in Instant /\ Since(stored, Never) = {}
  BY <1>1 DEF Instant, Since
<1>3. AggregatorOf({}) = FreshAggregator /\ HandedOutBy({}) = <<>>
  BY HydrationBegins DEF HydratedBy
<1>4. StrategyOf({}) = FreshStrategy
  <2>1. WholeBuckets({}) = {} /\ Cardinality({}) = 0
    BY FS_EmptySet DEF WholeBuckets, BucketsOf
  <2>2. BarsOf({}) \in Seq(Bars) /\ Len(BarsOf({})) = 0
    <3>1. {} \in SUBSET Minute
      OBVIOUS
    <3> QED
      BY <2>1, <3>1, BarsTyped
  <2>3. BarsOf({}) = <<>>
    BY <2>2, EmptySeq
  <2>4. FastVsSlow(<<>>) = "none"
    <3>1. Len(<<>>) = 0 /\ 0 < Fast
      BY PeriodsAre
    <3> QED
      BY <3>1 DEF FastVsSlow
  <2> QED
    BY <2>3, <2>4 DEF StrategyOf, FreshStrategy
<1>5. StandsOn(Never)
  BY <1>1, <1>2, <1>3, <1>4 DEF StandsOn
<1>6. SignalWasDue
  BY <1>1 DEF SignalWasDue, NoSignal
<1> QED
  BY <1>2, <1>5, <1>6, MemoryIs

\* Every step keeps it.
LEMMA StepRemembers ==
  ASSUME WalkInv, MemoryInv, [Next]_vars PROVE MemoryInv'
<1>1. CASE Deliver
  BY <1>1, DeliverRemembers
<1>2. CASE DeliverRaises
  BY <1>2, DeliverRaisesRemembers
<1>3. CASE Crash
  BY <1>3, CrashRemembers
<1>4. CASE TickFromQueue \/ TickFromExchange \/ TickFromFixture \/ BootstrapPage \/ FetchPage
  <2>1. UNCHANGED <<clock, stored, strategy, history>>
    BY <1>4 DEF TickFromQueue, TickFromExchange, TickFromFixture, BootstrapPage, FetchPage
  <2>2. UNCHANGED <<stored, price, agg, strat, signal, ahead>> /\ lost \subseteq lost'
    BY <2>1 DEF clock, strategy, history
  <2> QED
    BY <2>2, MemoryUntouched
<1>5. CASE FetchFails \/ MinutePasses \/ Backfill \/ UNCHANGED vars
  <2>1. UNCHANGED <<price, stored, strategy, lost, ahead>>
    BY <1>5 DEF FetchFails, MinutePasses, Backfill, vars, clock, history
  <2>2. UNCHANGED <<stored, price, agg, strat, signal, ahead>> /\ lost \subseteq lost'
    BY <2>1 DEF strategy
  <2> QED
    BY <2>2, MemoryUntouched
<1> QED
  BY <1>1, <1>2, <1>3, <1>4, <1>5 DEF Next, TickStep

-----------------------------------------------------------------------------
(* What the memory promises *)

\* The inductive invariant of the memory: aggregator and strategy are what all that is stored
\* amounts to, or its end as long as hydration reads; and the last signal to trade was due.
THEOREM MemorySafe == Spec => []MemoryInv
<1>1. Init => WalkInv /\ MemoryInv
  BY InitWalk, InitRemembers
<1>2. WalkInv /\ MemoryInv /\ [Next]_vars => WalkInv' /\ MemoryInv'
  BY StepWalks, StepRemembers
<1> QED
  BY <1>1, <1>2, PTL DEF Spec

\* With holes a restart may know less, never something else: the bars are the last ones of
\* those that the stored candles amount to, and a signal to trade is the one that a process
\* that never stopped would give.
THEOREM NothingInvented == Spec => []NoInventedSignal
<1>1. ASSUME CursorInv, MemoryInv PROVE NoInventedSignal
  <2> SUFFICES ASSUME InStep
               PROVE  /\ \E n \in 0 .. Len(BarsOf(stored)) : strat.bars = LastOf(BarsOf(stored), n)
                      /\ signal.direction # "HOLD" => signal.direction = DueAt(signal.bucket)
    BY DEF NoInventedSignal
  <2>1. stored \in SUBSET Minute
    BY <1>1 DEF CursorInv
  <2>2. (\E q \in Instant : StandsOn(q)) /\ SignalWasDue
    BY <1>1, MemoryIs
  <2>3. PICK q \in Instant : StandsOn(q)
    BY <2>2
  <2> DEFINE T == Since(stored, q)
             n == Cardinality(WholeBuckets(T))
  <2>4. T \in SUBSET stored /\ \A k \in stored \ T : \A m \in T : k < m
    BY <2>1, SinceIsEnd
  <2>5. n \in 0 .. Len(BarsOf(stored)) /\ BarsOf(T) = LastOf(BarsOf(stored), n)
    <3> HIDE DEF T
    <3> QED
      BY <2>1, <2>4, BarsOfEnd
  <2>6. strat.bars = BarsOf(T)
    BY <2>3 DEF StandsOn, StrategyOf
  <2> HIDE DEF T, n
  <2> QED
    BY <2>2, <2>5, <2>6 DEF SignalWasDue
<1> QED
  BY <1>1, CursorSafe, MemorySafe, PTL

-----------------------------------------------------------------------------
(* Why what hydration reads is enough *)

\* The next multiple is a whole width away.
LEMMA OneMultipleMore ==
  ASSUME NEW p \in Nat, NEW q \in Nat, NEW w \in Nat \ {0}, p < q
  PROVE  w * p + w <= w * q
<1>1. q = p + 1 + (q - p - 1) /\ q - p - 1 \in Nat
  OBVIOUS
<1> DEFINE d == q - p - 1
<1>2. w * q = w * (p + 1 + d)
  BY <1>1
<1> HIDE DEF d
<1>3. d \in Nat
  BY <1>1 DEF d
<1>4. w * (p + 1 + d) = w * p + w + w * d /\ w * d \in Nat /\ w * p \in Nat
  BY <1>3
<1> QED
  BY <1>2, <1>4

\* The multiples of the width are where buckets begin.
LEMMA BucketsBegin ==
  ASSUME NEW p \in Nat, NEW c, c = Slots * p
  PROVE  c \in Nat /\ bucket_start(c) = c
<1>1. Slots \in Nat \ {0} /\ c \in Nat
  BY SlotsAssumption
<1>2. /\ bucket_start(c) \in Nat /\ bucket_start(c) <= c /\ c < bucket_start(c) + Slots
      /\ \E q \in Nat : bucket_start(c) = Slots * q
  BY <1>1, BucketIs
<1>3. PICK q \in Nat : bucket_start(c) = Slots * q
  BY <1>2
<1>4. CASE Slots * q < Slots * p
  <2>1. Slots * q + Slots <= Slots * p
    BY <1>1, <1>4, MultiplesApart
  <2> QED
    BY <1>1, <1>2, <1>3, <2>1
<1>5. CASE ~ Slots * q < Slots * p
  BY <1>1, <1>2, <1>3, <1>5
<1> QED
  BY <1>4, <1>5

\* A run of minutes as long as w + 1 buckets holds w whole ones.
LEMMA RunHoldsBuckets ==
  ASSUME NEW w \in Nat, NEW D, D = (w + 1) * Slots, NEW T \in SUBSET Minute, NEW z \in T,
         z - D + 1 \in Nat, z - D + 1 .. z \subseteq T
  PROVE  Cardinality(WholeBuckets(T)) >= w
<1>1. Slots \in Nat \ {0} /\ z \in Nat /\ D \in Nat /\ D = Slots * w + Slots
  <2>1. Slots \in Nat \ {0} /\ z \in Nat
    BY SlotsAssumption, MinuteIs
  <2> QED
    BY <2>1
<1> DEFINE x == z - D + Slots
           c == bucket_start(x)
<1>2. x \in Nat
  BY <1>1
<1>3. /\ c \in Nat /\ c <= x /\ x < c + Slots
      /\ \E p \in Nat : c = Slots * p
  BY <1>2, BucketIs
<1>4. PICK p \in Nat : c = Slots * p
  BY <1>3
<1> DEFINE b(i) == Slots * (p + (i - 1))
           f == [i \in 1 .. w |-> b(i)]
<1>5. c > z - D /\ c + Slots * w <= z
  <2> HIDE DEF c
  <2>1. Slots * w \in Nat
    BY <1>1
  <2>2. c > z - D
    BY <1>1, <1>3
  <2> QED
    BY <1>1, <1>3, <2>1, <2>2
<1> HIDE DEF x, c
<1>6. ASSUME NEW i \in 1 .. w PROVE b(i) \in WholeBuckets(T)
  <2>1. i \in Nat /\ i - 1 \in Nat /\ i - 1 < w /\ p + (i - 1) \in Nat
    BY <1>4
  <2>2. b(i) \in Nat /\ bucket_start(b(i)) = b(i)
    BY <2>1, BucketsBegin
  <2>3. Slots * (i - 1) + Slots <= Slots * w
    BY <1>1, <2>1, OneMultipleMore
  <2>4. b(i) = c + Slots * (i - 1) /\ Slots * (i - 1) \in Nat
    BY <1>1, <1>4, <2>1
  <2> HIDE DEF b
  <2>5. b(i) > z - D /\ b(i) + Slots <= z
    <3> DEFINE u == Slots * (i - 1)
               v == Slots * w
               y == b(i)
    <3>1. u \in Nat /\ y = c + u /\ u + Slots <= v /\ c + v <= z /\ c > z - D /\ v \in Nat
      BY <1>1, <1>5, <2>3, <2>4
    <3> HIDE DEF u, v, y
    <3>2. y > z - D /\ y + Slots <= z
      BY <1>1, <1>3, <3>1
    <3> QED
      BY <3>2 DEF y
  <2>6. ExpectedSlots(b(i)) \subseteq T /\ b(i) \in T
    <3>1. \A k \in ExpectedSlots(b(i)) : k \in z - D + 1 .. z
      BY <1>1, <2>2, <2>5 DEF ExpectedSlots
    <3>2. b(i) \in ExpectedSlots(b(i))
      BY <1>1, <2>2 DEF ExpectedSlots
    <3> QED
      BY <3>1, <3>2
  <2> QED
    BY <2>2, <2>6, WholeIs
<1>7. ASSUME NEW i \in 1 .. w, NEW j \in 1 .. w, i < j PROVE b(i) # b(j)
  <2>1. p + (i - 1) \in Nat /\ p + (j - 1) \in Nat /\ p + (i - 1) < p + (j - 1)
    BY <1>4, <1>7
  <2>2. Slots * (p + (i - 1)) + Slots <= Slots * (p + (j - 1))
    BY <1>1, <2>1, OneMultipleMore
  <2>3. b(i) \in Nat /\ b(i) + Slots <= b(j)
    BY <1>1, <2>1, <2>2
  <2> HIDE DEF b
  <2> QED
    BY <1>1, <2>3
<1> HIDE DEF b
<1>8. f \in [1 .. w -> WholeBuckets(T)]
  BY <1>6
<1>9. \A i, j \in 1 .. w : f[i] = f[j] => i = j
  BY <1>7
<1>10. f \in Injection(1 .. w, WholeBuckets(T))
  <2> HIDE DEF f
  <2> QED
    BY <1>8, <1>9 DEF Injection, IsInjective
<1>11. IsFiniteSet(WholeBuckets(T)) /\ Cardinality(WholeBuckets(T)) \in Nat
  BY WholeIs, MinutesFinite
<1>12. Cardinality(1 .. w) = w
  <2>1. 1 \in Int /\ w \in Int
    OBVIOUS
  <2>2. Cardinality(1 .. w) = IF 1 > w THEN 0 ELSE w - 1 + 1
    BY <2>1, FS_Interval
  <2> QED
    BY <2>2
<1>13. Cardinality(1 .. w) <= Cardinality(WholeBuckets(T))
  <2> HIDE DEF f
  <2> QED
    BY <1>10, <1>11, FS_Injection
<1> QED
  BY <1>11, <1>12, <1>13

\* As many minutes as a number reach back as far.
LEMMA ManyReachBack ==
  ASSUME NEW T \in SUBSET Minute, NEW D \in Nat \ {0}, Cardinality(T) >= D
  PROVE  T # {} /\ Min(T) \in T /\ Max(T) \in T /\ Min(T) <= Max(T) - D + 1
<1>1. T # {}
  BY FS_EmptySet
<1>2. /\ Min(T) \in T /\ Max(T) \in T
      /\ \A m \in T : Min(T) <= m /\ m <= Max(T)
  BY <1>1, FirstMinute, LastMinute
<1> DEFINE a == Min(T)
           z == Max(T)
<1>3. a \in Nat /\ z \in Nat /\ a <= z
  BY <1>2, MinuteIs
<1>4. T \subseteq a .. z
  <2>1. \A m \in T : m \in Nat
    BY MinuteIs
  <2> QED
    BY <1>2, <1>3, <2>1
<1> HIDE DEF a, z
<1>5. IsFiniteSet(a .. z) /\ Cardinality(a .. z) = z - a + 1
  <2>1. a \in Int /\ z \in Int /\ ~ a > z
    BY <1>3
  <2> QED
    BY <2>1, FS_Interval
<1>6. Cardinality(T) <= z - a + 1
  BY <1>4, <1>5, FS_Subset
<1>7. Cardinality(T) \in Nat
  BY MinutesFinite
<1>8. a <= z - D + 1
  BY <1>3, <1>6, <1>7
<1> QED
  BY <1>1, <1>2, <1>8 DEF a, z

\* What was stored since some minute, long enough, has the last bucket of all that is stored.
LEMMA FormingStays ==
  ASSUME NEW S \in SUBSET Minute, NEW T \in SUBSET S, \A k \in S \ T : \A m \in T : k < m,
         Cardinality(T) >= Slots
  PROVE  FormingOf(T) = FormingOf(S) /\ Max(T) = Max(S)
<1>1. T \in SUBSET Minute /\ Slots \in Nat \ {0}
  BY SlotsAssumption
<1>2. /\ T # {} /\ Min(T) \in T /\ Max(T) \in T /\ Min(T) <= Max(T) - Slots + 1
      /\ \A m \in T : Min(T) <= m /\ m <= Max(T)
  <2>1. T # {} /\ Min(T) \in T /\ Max(T) \in T /\ Min(T) <= Max(T) - Slots + 1
    BY <1>1, ManyReachBack
  <2>2. \A m \in T : Min(T) <= m /\ m <= Max(T)
    BY <1>1, <2>1, FirstMinute, LastMinute
  <2> QED
    BY <2>1, <2>2
<1>3. S # {} /\ Max(S) \in S /\ \A m \in S : m <= Max(S)
  BY <1>2, LastMinute
<1>4. \A m \in S : m \in Nat
  BY MinuteIs
<1> DEFINE a == Min(T)
           z == Max(T)
           B == bucket_start(z)
           E == ExpectedSlots(B)
<1>5. Max(S) = z
  <2> DEFINE y == Max(S)
  <2>1. y \in S /\ z \in S /\ z <= y /\ y \in Nat /\ z \in Nat
    BY <1>2, <1>3, <1>4
  <2>2. y \in T => y <= z
    BY <1>2
  <2>3. y \in S \ T => y < z
    BY <1>2
  <2> HIDE DEF y, z
  <2>4. y = z
    BY <2>1, <2>2, <2>3
  <2> QED
    BY <2>4 DEF y
<1>6. z \in Nat /\ a \in Nat /\ a <= z - Slots + 1 /\ a \in T
  BY <1>2, <1>4
<1>7. B \in Nat /\ B <= z /\ z < B + Slots
  BY <1>6, BucketIs
<1> HIDE DEF a, z, B
<1>8. S \intersect E = T \intersect E
  <2> SUFFICES ASSUME NEW k \in S \ T, k \in E PROVE FALSE
    OBVIOUS
  <2>1. k < a /\ k \in Nat
    BY <1>4, <1>6
  <2>2. k >= B
    BY <1>7 DEF ExpectedSlots
  <2> QED
    BY <1>1, <1>6, <1>7, <2>1, <2>2
<1>9. z \in T /\ z \in S
  BY <1>2 DEF z
<1> HIDE DEF E
<1>10. E \subseteq T <=> E \subseteq S
  BY <1>8
<1>11. B \in WholeBuckets(T) <=> B \in WholeBuckets(S)
  BY <1>1, <1>9, <1>10, WholeIs DEF B, E
<1>12. CASE B \in WholeBuckets(S)
  <2>1. FormingOf(T) = {} /\ FormingOf(S) = {}
    BY <1>1, <1>2, <1>3, <1>5, <1>11, <1>12, AggregatorIs DEF B, z
  <2> QED
    BY <1>5, <2>1 DEF z
<1>13. CASE B \notin WholeBuckets(S)
  <2>1. FormingOf(T) = T \intersect E
    BY <1>1, <1>2, <1>11, <1>13, AggregatorIs DEF B, z, E
  <2>2. FormingOf(S) = S \intersect E
    BY <1>3, <1>5, <1>13, AggregatorIs DEF B, z, E
  <2> QED
    BY <1>5, <1>8, <2>1, <2>2 DEF z
<1> QED
  BY <1>12, <1>13

\* What hydration reads makes as many bars as the strategy needs, if none is missing there.
LEMMA ReadsEnough ==
  ASSUME stored \in SUBSET Minute, stored # {}, RecentWhole, NEW q \in Instant, NEW T,
         T = Since(stored, q), Cardinality(T) >= HydrationDepth
  PROVE  Cardinality(WholeBuckets(T)) >= warmup_required
<1> DEFINE D == HydrationDepth
<1>1. T \in SUBSET stored /\ (\A k \in stored \ T : \A m \in T : k < m) /\ T \in SUBSET Minute
  BY SinceIsEnd
<1>2. D \in Nat \ {0} /\ D >= Slots /\ warmup_required \in Nat /\ D = (warmup_required + 1) * Slots
      /\ Slots \in Nat
  BY DepthIs
<1> HIDE DEF D
<1>3. Cardinality(T) >= D /\ Cardinality(T) \in Nat
  BY <1>1, MinutesFinite DEF D
<1>4. T # {} /\ Min(T) \in T /\ Max(T) \in T /\ Min(T) <= Max(T) - D + 1
  BY <1>1, <1>2, <1>3, ManyReachBack
<1>5. Max(T) = Max(stored)
  <2>1. Cardinality(T) >= Slots
    BY <1>2, <1>3
  <2> QED
    BY <1>1, <2>1, FormingStays
<1> DEFINE z == Max(T)
           a == Min(T)
<1>6. LastStored = z
  BY <1>5 DEF LastStored
<1>7. a \in Nat /\ z \in Nat /\ a <= z - D + 1 /\ a \in T /\ z \in T /\ a \in stored /\ z <= MaxMinute
  BY <1>1, <1>4, MinuteIs
<1>8. FirstStored <= a /\ FirstStored \in Nat
  BY <1>7, FirstMinute, MinuteIs DEF FirstStored
<1>9. q < a /\ q \in Int
  BY <1>7, InstantIs DEF Since
<1> HIDE DEF a, z
<1>10. z - D + 1 \in Nat
  BY <1>2, <1>7
<1>11. ASSUME NEW m \in z - D + 1 .. z PROVE m \in T
  <2>1. m \in Nat /\ m <= z /\ z - D + 1 <= m
    BY <1>7, <1>10
  <2>2. m \in Minute
    BY <1>7, <2>1, MinuteIs
  <2>3. m >= FirstStored /\ m > z - D /\ q < m
    BY <1>2, <1>7, <1>8, <1>9, <2>1
  <2>4. CASE m = z
    BY <1>7, <2>4
  <2>5. CASE m # z
    <3>1. m < LastStored /\ m > LastStored - HydrationDepth
      BY <1>6, <1>7, <2>1, <2>3, <2>5 DEF D
    <3>2. m \in stored
      BY <2>2, <2>3, <3>1 DEF RecentWhole
    <3> QED
      BY <2>3, <3>2 DEF Since
  <2> QED
    BY <2>4, <2>5
<1>12. z - D + 1 .. z \subseteq T
  BY <1>11
<1> QED
  BY <1>1, <1>2, <1>7, <1>10, <1>12, RunHoldsBuckets

\* A restart changes nothing: while no minute is missing in the depth that hydration reads,
\* bucket in formation, last bars and side of the averages are those of a process that never
\* stopped.
THEOREM RestartKnows == Spec => []RestartChangesNothing
<1>1. ASSUME CursorInv, MemoryInv PROVE RestartChangesNothing
  <2> DEFINE bars == BarsOf(stored)
             w == warmup_required - 1
  <2> SUFFICES ASSUME stored # {}, InStep, RecentWhole
               PROVE  /\ agg.slots = FormingOf(stored)
                      /\ Len(bars) >= w => /\ Len(strat.bars) >= w
                                           /\ LastOf(strat.bars, w) = LastOf(bars, w)
                      /\ Len(bars) < w  => strat.bars = bars
                      /\ strat.prev = FastVsSlow(bars)
    BY DEF RestartChangesNothing
  <2>1. stored \in SUBSET Minute
    BY <1>1 DEF CursorInv
  <2>2. \E q \in Instant : StandsOn(q)
    BY <1>1, MemoryIs
  <2>3. PICK q \in Instant : StandsOn(q)
    BY <2>2
  <2> DEFINE T == Since(stored, q)
  <2>4. /\ q = Never \/ Cardinality(T) >= HydrationDepth
        /\ agg = AggregatorOf(T) /\ strat = StrategyOf(T)
    BY <2>3 DEF StandsOn
  <2>5. /\ T \in SUBSET stored /\ \A k \in stored \ T : \A m \in T : k < m
        /\ q = Never => T = stored
    BY <2>1, SinceIsEnd
  <2>6. agg.slots = FormingOf(T) /\ strat.bars = BarsOf(T) /\ strat.prev = FastVsSlow(BarsOf(T))
    BY <2>4 DEF AggregatorOf, StrategyOf
  <2>7. CASE q = Never
    <3>1. T = stored
      BY <2>5, <2>7
    <3> HIDE DEF T, w
    <3> QED
      BY <2>6, <3>1
  <2>8. CASE q # Never
    <3> DEFINE n == Cardinality(WholeBuckets(T))
               s == BarsOf(T)
    <3>1. n >= warmup_required
      BY <2>1, <2>4, <2>8, ReadsEnough
    <3>2. FormingOf(T) = FormingOf(stored)
      <4>1. Cardinality(T) \in Nat /\ Cardinality(T) >= Slots
        BY <2>1, <2>4, <2>5, <2>8, MinutesFinite, DepthIs
      <4> HIDE DEF T
      <4> QED
        BY <2>1, <2>5, <4>1, FormingStays
    <3>3. n \in 0 .. Len(bars) /\ s = LastOf(bars, n)
      <4> HIDE DEF T
      <4> QED
        BY <2>1, <2>5, BarsOfEnd
    <3>4. bars \in Seq(Bars) /\ Len(bars) \in Nat
      BY <2>1, BarsTyped
    <3> HIDE DEF T, n, s, bars
    <3>5. Len(s) = n
      BY <3>3, <3>4, LastOfIs
    <3>6. n >= Fast /\ n >= Slow /\ w \in 0 .. n /\ Len(bars) >= n /\ n \in Nat
      BY <3>1, <3>3, <3>4, DepthIs, PeriodsAre
    <3> HIDE DEF w
    <3>7. LastOf(s, w) = LastOf(bars, w)
      BY <3>3, <3>4, <3>6, EndOfEnd
    <3>8. FastVsSlow(s) = FastVsSlow(bars)
      BY <3>3, <3>4, <3>6, SideOfEnd
    <3>9. Len(s) >= w /\ ~ Len(bars) < w
      BY <3>4, <3>5, <3>6
    <3> QED
      BY <2>6, <3>2, <3>7, <3>8, <3>9 DEF s
  <2> QED
    BY <2>7, <2>8
<1> QED
  BY <1>1, CursorSafe, MemorySafe, PTL

-----------------------------------------------------------------------------
(* Types *)

AggregatorType == [open : Instant, slots : SUBSET Minute, last : Instant]
MemoryTyped ==
  /\ price \in Prices /\ agg \in AggregatorType /\ strat.prev \in Cross /\ degraded \in BOOLEAN
  /\ signal.bucket \in Instant /\ signal.direction \in Direction
  /\ report \in Reports /\ faults \in 0 .. MaxFaults /\ ahead \subseteq lost

\* A push keeps the type.
LEMMA PushTyped ==
  ASSUME NEW a \in AggregatorType, NEW m \in Minute
  PROVE  Push(a, m).agg \in AggregatorType /\ Push(a, m).out.start \in Instant
<1>1. bucket_start(m) \in Instant /\ Never \in Instant
  <2>1. bucket_start(m) \in Nat /\ bucket_start(m) <= m /\ m \in Nat /\ m <= MaxMinute
    BY MinuteIs, BucketIs
  <2>2. bucket_start(m) \in Minute
    <3> DEFINE b == bucket_start(m)
    <3> HIDE DEF b
    <3>1. b \in Nat /\ b <= m /\ m \in Nat /\ m <= MaxMinute
      BY <2>1 DEF b
    <3>2. b \in Minute
      BY <3>1, MinuteIs
    <3> QED
      BY <3>2 DEF b
  <2> QED
    BY <2>2 DEF Instant
<1>2. \A x \in AggregatorType : Finalized(x) \in AggregatorType
  BY <1>1 DEF Finalized, AggregatorType
<1> DEFINE base == Opened(a, m)
           grown == [base EXCEPT !.slots = @ \union {m}]
           prior == IF Turns(a, m) THEN Built(a.open, a.slots) ELSE NoBucket
<1>3. base \in AggregatorType
  <2> DEFINE x == IF Turns(a, m) THEN Finalized(a) ELSE a
  <2>1. x \in AggregatorType
    BY <1>2
  <2> HIDE DEF x
  <2>2. [x EXCEPT !.open = bucket_start(m), !.slots = {}] \in AggregatorType
    BY <1>1, <2>1 DEF AggregatorType
  <2>3. base = IF x.open = Never THEN [x EXCEPT !.open = bucket_start(m), !.slots = {}] ELSE x
    BY DEF Opened, x
  <2> QED
    BY <2>1, <2>2, <2>3
<1> HIDE DEF base
<1>4. grown \in AggregatorType
  BY <1>3 DEF AggregatorType
<1>5. prior.start \in Instant
  BY <1>1 DEF Built, NoBucket, AggregatorType
<1>6. grown.open \in Instant /\ Finalized(grown) \in AggregatorType
  BY <1>2, <1>4 DEF AggregatorType
<1>7. \/ Push(a, m) = [agg |-> a, out |-> NoBucket]
      \/ Push(a, m) = [agg |-> Finalized(grown),
                       out |-> IF prior = NoBucket THEN Built(grown.open, grown.slots) ELSE prior]
      \/ Push(a, m) = [agg |-> grown, out |-> prior]
  BY DEF Push, base
<1> HIDE DEF grown, prior
<1> QED
  BY <1>1, <1>4, <1>5, <1>6, <1>7 DEF NoBucket, Built

\* What a candle teaches has its type.
LEMMA LearnsTyped ==
  ASSUME MemoryTyped, NEW m \in Minute, NEW stopped \in BOOLEAN, Learns(m, stopped)
  PROVE  /\ agg' \in AggregatorType /\ strat'.prev \in Cross /\ degraded' \in BOOLEAN
         /\ Final(m).start \in Instant
<1>1. \A bars : FastVsSlow(bars) \in Cross
  BY DEF FastVsSlow, Cross
<1>2. strat'.prev \in Cross
  BY <1>1 DEF Learns, Seen, MemoryTyped
<1>3. degraded' \in BOOLEAN
  BY DEF Learns
<1>4. agg' \in AggregatorType /\ Final(m).start \in Instant
  BY PushTyped DEF Learns, Final, MemoryTyped
<1> QED
  BY <1>2, <1>3, <1>4

\* A signal says one of three things.
LEMMA SignalledTyped ==
  ASSUME NEW st, NEW bar PROVE Signalled(st, bar) \in Direction
  BY DEF Signalled, Direction

\* Every step keeps the types of the memory.
LEMMA StepTyped ==
  ASSUME WalkInv, MemoryTyped, [Next]_vars PROVE MemoryTyped'
<1>1. poll.phase = "deliver" => NextUp \in Minute
  <2>1. poll.phase = "deliver" => prov.queue \in SUBSET Minute /\ prov.queue # {}
    BY DEF WalkInv, CursorTyped, Provider
  <2> QED
    BY <2>1, FirstMinute DEF NextUp
<1>2. CASE Deliver
  <2>1. /\ poll.phase = "deliver"
        /\ UNCHANGED <<price, faults, ahead, lost>>
    BY <1>2 DEF Deliver, clock, history
  <2>2. CASE NextUp \in stored
    <3>1. report' = "duplicate_candle" /\ UNCHANGED <<agg, strat, degraded, signal>>
      BY <1>2, <2>2 DEF Deliver, strategy
    <3> QED
      BY <2>1, <3>1 DEF MemoryTyped, Reports
  <2>3. CASE NextUp \notin stored
    <3>1. PICK stopped \in BOOLEAN :
            /\ Learns(NextUp, stopped)
            /\ report' = CASE Whole(NextUp) -> "complete"
                           [] GapNoted(NextUp, stopped) -> "incomplete_bucket"
                           [] OTHER -> "aggregating"
      BY <1>2, <2>3 DEF Deliver
    <3>2. report' \in Reports
      BY <3>1 DEF Reports, GapNoted
    <3>3. /\ agg' \in AggregatorType /\ strat'.prev \in Cross /\ degraded' \in BOOLEAN
          /\ Final(NextUp).start \in Instant
      <4> DEFINE m == NextUp
      <4>1. m \in Minute /\ Learns(m, stopped)
        BY <1>1, <2>1, <3>1
      <4> HIDE DEF m
      <4>2. /\ agg' \in AggregatorType /\ strat'.prev \in Cross /\ degraded' \in BOOLEAN
            /\ Final(m).start \in Instant
        BY <4>1, LearnsTyped
      <4> QED
        BY <4>2 DEF m
    <3>4. signal' = IF Whole(NextUp)
                    THEN [bucket    |-> Final(NextUp).start,
                          direction |-> Signalled(strat, Bar(Final(NextUp)))]
                    ELSE signal
      BY <1>2, <2>3 DEF Deliver
    <3>5. signal'.bucket \in Instant /\ signal'.direction \in Direction
      BY <3>3, <3>4, SignalledTyped DEF MemoryTyped
    <3> QED
      BY <2>1, <3>2, <3>3, <3>5 DEF MemoryTyped
  <2> QED
    BY <2>2, <2>3
<1>3. CASE DeliverRaises
  <2>1. /\ poll.phase = "deliver" /\ report' = "raised" /\ UNCHANGED <<price, signal>>
        /\ faults < MaxFaults /\ faults' = faults + 1 /\ lost' = lost \union {NextUp}
    BY <1>3 DEF DeliverRaises, clock
  <2>2. faults' \in 0 .. MaxFaults /\ report' \in Reports
    BY <2>1, FaultsAssumption DEF MemoryTyped, Reports
  <2>3. CASE UNCHANGED <<agg, strat, degraded, ahead>>
    BY <2>1, <2>2, <2>3 DEF MemoryTyped
  <2>4. CASE ahead' = ahead \union {NextUp} /\ \E stopped \in BOOLEAN : Learns(NextUp, stopped)
    <3> DEFINE m == NextUp
    <3>1. PICK stopped \in BOOLEAN : Learns(m, stopped)
      BY <2>4
    <3>2. m \in Minute
      BY <1>1, <2>1
    <3>3. ahead' \subseteq lost'
      BY <2>1, <2>4 DEF MemoryTyped
    <3> HIDE DEF m
    <3>4. agg' \in AggregatorType /\ strat'.prev \in Cross /\ degraded' \in BOOLEAN
      BY <3>1, <3>2, LearnsTyped
    <3> QED
      BY <2>1, <2>2, <3>3, <3>4 DEF MemoryTyped
  <2> QED
    BY <1>3, <2>3, <2>4 DEF DeliverRaises
<1>4. CASE Crash
  <2>1. /\ agg' = Hydrated.agg /\ strat' = Hydrated.strat /\ signal' = NoSignal
        /\ degraded' = FALSE /\ ahead' = {} /\ report' = "none" /\ UNCHANGED price
        /\ faults < MaxFaults /\ faults' = faults + 1
    BY <1>4 DEF Crash, clock
  <2> DEFINE T == RecentCandles(HydrationDepth)
  <2>2. T \in SUBSET Minute /\ stored \subseteq Minute
    BY DEF WalkInv, CursorTyped, RecentCandles
  <2> HIDE DEF T
  <2>3. Hydrated.agg = AggregatorOf(T) /\ Hydrated.strat = StrategyOf(T)
    BY <2>2, HydratedIs DEF T
  <2>4. agg' \in AggregatorType
    <3>1. /\ FormingOf(T) \in SUBSET Minute
          /\ \A S \in SUBSET Minute : S # {} => bucket_start(Max(S)) \in Instant
      <4>1. FormingOf(T) \in SUBSET Minute
        BY <2>2 DEF FormingOf
      <4>2. ASSUME NEW S \in SUBSET Minute, S # {} PROVE bucket_start(Max(S)) \in Instant
        <5> DEFINE m == Max(S)
        <5>1. m \in Minute
          BY <4>2, LastMinute
        <5> HIDE DEF m
        <5> DEFINE b == bucket_start(m)
        <5>2. b \in Nat /\ b <= m /\ m \in Nat /\ m <= MaxMinute
          BY <5>1, MinuteIs, BucketIs
        <5> HIDE DEF b
        <5>3. b \in Minute
          BY <5>2, MinuteIs
        <5> QED
          BY <5>3 DEF m, b, Instant
      <4> QED
        BY <4>1, <4>2
    <3>2. T # {} => bucket_start(Max(T)) \in Instant
      BY <2>2, <3>1
    <3>3. FormingOf(T) # {} => T # {}
      BY <2>2, AggregatorIs
    <3>4. LastBucket(T \ FormingOf(T)) \in Instant
      BY <2>2, <3>1 DEF LastBucket, Instant
    <3>5. Never \in Instant
      BY DEF Instant
    <3>6. AggregatorOf(T) \in AggregatorType
      BY <2>2, <3>1, <3>2, <3>3, <3>4, <3>5, AggregatorIs DEF AggregatorType
    <3> QED
      BY <2>1, <2>3, <3>6
  <2>5. strat'.prev \in Cross
    BY <2>1, <2>3 DEF StrategyOf, FastVsSlow, Cross
  <2>6. faults' \in 0 .. MaxFaults /\ report' \in Reports
    BY <2>1, FaultsAssumption DEF MemoryTyped, Reports
  <2>7. signal'.bucket \in Instant /\ signal'.direction \in Direction
    BY <2>1 DEF NoSignal, Instant, Direction
  <2> QED
    BY <2>1, <2>4, <2>5, <2>6, <2>7 DEF MemoryTyped
<1>5. ASSUME UNCHANGED <<price, strategy, ahead, lost>>, report' \in Reports,
             faults' \in 0 .. MaxFaults
      PROVE  MemoryTyped'
  BY <1>5 DEF MemoryTyped, strategy
<1>6. ASSUME NEW got, NEW gap, Collected(got, gap) PROVE report' \in Reports
  BY <1>6 DEF Collected, Ends, Reports, MemoryTyped
<1>7. CASE TickFromQueue \/ TickFromExchange \/ TickFromFixture \/ BootstrapPage
  <2>1. UNCHANGED <<price, strategy, ahead, lost, faults>> /\ report' \in Reports
    BY <1>7 DEF TickFromQueue, TickFromExchange, TickFromFixture, BootstrapPage, Ends, clock,
                history, MemoryTyped, Reports
  <2> QED
    BY <1>5, <2>1 DEF MemoryTyped
<1>8. CASE FetchPage
  <2>1. UNCHANGED <<price, strategy, ahead, lost, faults>>
    BY <1>8 DEF FetchPage, clock, history
  <2>2. \/ report' \in Reports
        \/ \E got, gap : Collected(got, gap)
    BY <1>8 DEF FetchPage, Ends, Reports, MemoryTyped
  <2> QED
    BY <1>5, <1>6, <2>1, <2>2 DEF MemoryTyped
<1>9. CASE FetchFails
  <2>1. /\ UNCHANGED <<price, strategy, ahead, lost>> /\ faults < MaxFaults /\ faults' = faults + 1
        /\ Ends("retryable_error") \/ Collected(poll.got, FALSE)
    BY <1>9 DEF FetchFails, clock
  <2>2. report' \in Reports
    BY <1>6, <2>1 DEF Ends, Reports
  <2>3. faults' \in 0 .. MaxFaults
    BY <2>1, FaultsAssumption DEF MemoryTyped
  <2> QED
    BY <1>5, <2>1, <2>2, <2>3
<1>10. CASE MinutePasses \/ Backfill \/ UNCHANGED vars
  <2>1. UNCHANGED <<price, strategy, ahead, lost, report>>
    BY <1>10 DEF MinutePasses, Backfill, vars, clock, history
  <2>2. faults' \in 0 .. MaxFaults
    <3>1. faults' = faults \/ (faults < MaxFaults /\ faults' = faults + 1)
      BY <1>10 DEF MinutePasses, Backfill, vars, clock, history
    <3> QED
      BY <3>1, FaultsAssumption DEF MemoryTyped
  <2> QED
    BY <1>5, <2>1, <2>2 DEF MemoryTyped
<1> QED
  BY <1>2, <1>3, <1>4, <1>7, <1>8, <1>9, <1>10 DEF Next, TickStep

\* Every variable of the path of the candles has its type.
THEOREM WellTyped == Spec => []TypeOK
<1>1. Init => WalkInv /\ MemoryTyped
  <2>1. ASSUME Init PROVE MemoryTyped
    <3>1. /\ price \in Prices /\ agg = FreshAggregator /\ strat = FreshStrategy
          /\ degraded = FALSE /\ signal = NoSignal /\ report = "none" /\ faults = 0
          /\ ahead = {} /\ lost = {}
      BY <2>1 DEF Init
    <3>2. agg \in AggregatorType
      BY <3>1 DEF FreshAggregator, AggregatorType, Instant
    <3>3. strat.prev \in Cross /\ signal.bucket \in Instant /\ signal.direction \in Direction
      BY <3>1 DEF FreshStrategy, Cross, NoSignal, Instant, Direction
    <3>4. report \in Reports /\ faults \in 0 .. MaxFaults
      BY <3>1, FaultsAssumption DEF Reports
    <3> QED
      BY <3>1, <3>2, <3>3, <3>4 DEF MemoryTyped
  <2> QED
    BY <2>1, InitWalk
<1>2. WalkInv /\ MemoryTyped /\ [Next]_vars => WalkInv' /\ MemoryTyped'
  BY StepWalks, StepTyped
<1>3. WalkInv /\ MemoryTyped => TypeOK
  BY DEF WalkInv, CursorTyped, MemoryTyped, AggregatorType, Instant, TypeOK
<1> QED
  BY <1>1, <1>2, <1>3, PTL DEF Spec
=============================================================================
