------------------------------ MODULE Funding ------------------------------
(***************************************************************************)
(* Collection of the funding settlements of one symbol: the time since the *)
(* checkpoint is walked in windows, oldest first, each page by page; what  *)
(* a window brought is kept whatever happens, and the checkpoint follows   *)
(* only over windows that were read whole.  Symbols are collected apart.   *)
(*                                                                         *)
(* A settlement is identified by the instant it occurred at; the table     *)
(* funding_events is a bag of them.                                        *)
(***************************************************************************)
EXTENDS Integers, FiniteSets, Bags

CONSTANTS
  FundingWindow,   \* FUNDING_WINDOW_SECONDS
  PollInterval,    \* funding_poll_interval_seconds
  MaxNow           \* bound on time

ASSUME FundingAssumption ==
  FundingWindow \in Nat \ {0} /\ PollInterval \in Nat /\ MaxNow \in Nat

VARIABLES
  now,        \* the clock
  lastPoll,   \* _last_funding_poll_at, in memory
  events,     \* table funding_events
  covered,    \* table funding_collection_checkpoints
  settled,    \* the exchange: the instants of its settlements
  anchor      \* history: where the first walk began

vars == <<now, lastPoll, events, covered, settled, anchor>>

Never == 0
Earliest(x, y) == IF x < y THEN x ELSE y

\* Where the walk begins: at the checkpoint, or one window ago
WalkFrom(checkpoint, t) == IF checkpoint = Never THEN t - FundingWindow ELSE checkpoint

\* The windows up to t, and the end of the n-th
Windows(from, t) == IF from < t THEN ((t - from - 1) \div FundingWindow) + 1 ELSE 0
WindowEnd(from, n, t) == Earliest(from + n * FundingWindow, t)

\* list_funding asks for settlements from the start to the end of a window, both included
Settled(known, from, until) == {e \in known : from <= e /\ e <= until}

\* Seeded variant: a settlement is inserted each time it is returned
record_every_funding_event(table, records) == table (+) SetToBag(records)

\* record_new_funding_events
record_new_funding_events(table, records) ==
  table (+) SetToBag(records \ BagToSet(table))

\* Seeded variant: the checkpoint passes over the window that was cut short
CoveredPastFailure(checkpoint, from, n, t) ==
  IF Windows(from, t) = 0 THEN checkpoint ELSE WindowEnd(from, n + 1, t)

\* advance_funding_checkpoint, after n whole windows; never backwards
Covered(checkpoint, from, n, t) ==
  IF n = 0 \/ WindowEnd(from, n, t) <= checkpoint THEN checkpoint ELSE WindowEnd(from, n, t)

\* One walk at time t over what the exchange has: n windows are read whole, and of
\* the next one, if any, an arbitrary part before a page fails, repeats its cursor,
\* holds an invalid row or is one page too many
Walk(known, checkpoint, t) ==
  LET from == WalkFrom(checkpoint, t) IN
  UNION {{[records |-> Settled(known, from, WindowEnd(from, n, t)) \union part,
           covered |-> Covered(checkpoint, from, n, t)] :
            part \in IF n = Windows(from, t) THEN {{}}
                     ELSE SUBSET Settled(known, WindowEnd(from, n, t), WindowEnd(from, n + 1, t))} :
         n \in 0 .. Windows(from, t)}

\* The poll of one symbol is due
PollDue(last, t) == last = Never \/ t - last >= PollInterval

-----------------------------------------------------------------------------

Init ==
  /\ now \in 1 .. MaxNow
  /\ lastPoll = Never /\ covered = Never /\ events = EmptyBag /\ settled = {}
  /\ anchor = now - FundingWindow

\* The exchange settles; the walk asks for instants up to now, this one included
Settle ==
  /\ now \notin settled
  /\ settled' = settled \union {now}
  /\ UNCHANGED <<now, lastPoll, events, covered, anchor>>

Tick ==
  /\ now < MaxNow
  /\ now' = now + 1
  /\ UNCHANGED <<lastPoll, events, covered, settled, anchor>>

\* _maybe_collect_funding: the instant of the poll is remembered before anything is
\* asked; rows and checkpoint go with the transaction of the tick
CollectFunding ==
  /\ PollDue(lastPoll, now)
  /\ lastPoll' = now
  /\ \E walked \in Walk(settled, covered, now) :
       /\ events' = record_new_funding_events(events, walked.records)
       /\ covered' = walked.covered
  /\ anchor' = IF covered = Never THEN WalkFrom(Never, now) ELSE anchor
  /\ UNCHANGED <<now, settled>>

\* The same in a tick that is undone: only memory keeps a trace of it
CollectUndone ==
  /\ PollDue(lastPoll, now)
  /\ lastPoll' = now
  /\ UNCHANGED <<now, events, covered, settled, anchor>>

\* The process ends, by a crash or not, and starts again
Restart ==
  /\ lastPoll' = Never
  /\ UNCHANGED <<now, events, covered, settled, anchor>>

Next == Settle \/ Tick \/ CollectFunding \/ CollectUndone \/ Restart

Spec == Init /\ [][Next]_vars

-----------------------------------------------------------------------------
(* Properties *)

\* Every variable has its type; nothing is on file that the exchange has not settled.
TypeOK ==
  /\ now \in 1 .. MaxNow /\ lastPoll \in 0 .. now /\ covered \in 0 .. now
  /\ settled \subseteq 1 .. now
  /\ IsABag(events) /\ BagToSet(events) \subseteq settled
  /\ anchor \in Int /\ anchor <= now

\* Nothing is passed over: a settlement older than the checkpoint, and not older than
\* the first window, is on file, through failed pages, undone ticks, restarts, and
\* settlements of the very instant of a walk
\* (funding.py:88-145, orchestrator.py:949-1010).
CoveredIsCollected ==
  \A e \in settled : anchor <= e /\ e < covered => e \in BagToSet(events)

\* Nothing is booked twice, although windows meet, failed windows are read again, and
\* a restart forgets when it last asked (repo.py:532-575).
BookedOnce == \A e \in BagToSet(events) : events[e] = 1
=============================================================================
