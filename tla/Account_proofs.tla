-------------------------- MODULE Account_proofs --------------------------
(***************************************************************************)
(* The process runs under the settings frozen in its session, and an open  *)
(* position keeps the timeframe that it was decided on, for any settings,  *)
(* any number of boots, trades and crashes, and whatever sessions an       *)
(* earlier release has left.  A restart leaves the equity alone, and the   *)
(* two figures that the dashboard derives on their own agree.              *)
(***************************************************************************)
EXTENDS AccountProperties, FiniteSetTheorems, WellFoundedInduction, TLAPS

-----------------------------------------------------------------------------
(* Sessions *)

\* The row that StillOpen finds is the only one.
LEMMA LastOfOne ==
  ASSUME NEW i \in Nat
  PROVE  LastOne({i}) = i
BY DEF LastOne

\* The open session of a portfolio, if there is one, is the only open one.
LEMMA OpenIsOne ==
  ASSUME NEW S \in Seq(Session), AtMostOneOpen(S), NEW portfolio,
         StillOpen(S, portfolio) # {}
  PROVE  LET last == LastOne(StillOpen(S, portfolio))
         IN  /\ StillOpen(S, portfolio) = {last}
             /\ last \in 1 .. Len(S)
             /\ S[last].config.portfolio = portfolio /\ S[last].ended = Null
<1>1. PICK i : i \in StillOpen(S, portfolio)
  OBVIOUS
<1>2. DOMAIN S = 1 .. Len(S) /\ i \in Nat /\ i \in 1 .. Len(S)
  BY <1>1 DEF StillOpen, SamePortfolio
<1>3. S[i].config.portfolio = portfolio /\ S[i].ended = Null
  BY <1>1 DEF StillOpen, SamePortfolio
<1>4. StillOpen(S, portfolio) = {i}
  BY <1>1, <1>3 DEF StillOpen, SamePortfolio, AtMostOneOpen
<1>5. LastOne(StillOpen(S, portfolio)) = i
  BY <1>2, <1>4, LastOfOne
<1> QED
  BY <1>2, <1>3, <1>4, <1>5

\* Ending a session changes when and why it ended, and nothing else.
Ended(S, T, i, at, reason) ==
  /\ T \in Seq(Session) /\ Len(T) = Len(S)
  /\ \A j \in 1 .. Len(S) :
       /\ T[j].config = S[j].config /\ T[j].started = S[j].started
       /\ j # i => T[j] = S[j]
  /\ T[i].ended = at /\ T[i].reason = reason

\* What ending a session does to the rows
LEMMA EndSession ==
  ASSUME NEW S \in Seq(Session), NEW i \in 1 .. Len(S), NEW at \in Nat,
         NEW reason \in Reasons
  PROVE  Ended(S, end_session(S, i, at, reason), i, at, reason)
<1> DEFINE T == end_session(S, i, at, reason)
<1>1. T = [S EXCEPT ![i] = [S[i] EXCEPT !.ended = at, !.reason = reason]]
  BY DEF end_session
<1>0. S[i] \in Session
  OBVIOUS
<1>2. [S[i] EXCEPT !.ended = at, !.reason = reason] \in Session
  BY <1>0 DEF Session
<1>3. T \in Seq(Session) /\ Len(T) = Len(S)
  BY <1>1, <1>2
<1>4. \A j \in 1 .. Len(S) : T[j] = IF j = i THEN [S[i] EXCEPT !.ended = at, !.reason = reason] ELSE S[j]
  BY <1>1
<1> QED
  BY <1>0, <1>3, <1>4 DEF Session, Ended

\* What a boot leaves: its session is the open one of its portfolio and has its
\* settings; a row that had ended, or is of another portfolio, is untouched; and
\* unless the session was resumed, it began now.
Booted(S, T, own, config, at) ==
  /\ T \in Seq(Session) /\ Len(S) <= Len(T) /\ AtMostOneOpen(T)
  /\ own \in 1 .. Len(T) /\ T[own].config = config
  /\ StillOpen(T, config.portfolio) = {own}
  /\ \A i \in 1 .. Len(S) :
       /\ T[i].config = S[i].config /\ T[i].started = S[i].started
       /\ S[i].ended # Null \/ S[i].config.portfolio # config.portfolio => T[i] = S[i]
  /\ \A i \in 1 .. Len(T) : i > Len(S) => i = own /\ T[i].started = at
  /\ own <= Len(S) => T = S /\ own \in StillOpen(S, config.portfolio)

\* What a boot chooses: the session resumed, or a new one after ending the open one.
LEMMA BootsOne ==
  ASSUME NEW S \in Seq(Session), AtMostOneOpen(S), NEW config \in Config,
         NEW at \in Nat \ {0}
  PROVE  LET chosen == start_or_resume_session(S, config, at)
         IN  Booted(S, chosen.sessions, chosen.active, config, at)
<1> DEFINE open == StillOpen(S, config.portfolio)
           last == LastOne(open)
           chosen == start_or_resume_session(S, config, at)
           left == IF open = {} THEN S ELSE end_session(S, last, at, "replaced")
<1>0. DOMAIN S = 1 .. Len(S) /\ Len(S) \in Nat
  OBVIOUS
<1>1. CASE open # {} /\ S[last].config = config
  <2>1. chosen.sessions = S /\ chosen.active = last
    BY <1>1 DEF start_or_resume_session
  <2> QED
    BY <1>0, <1>1, <2>1, OpenIsOne DEF Booted
<1>2. CASE ~(open # {} /\ S[last].config = config)
  <2> DEFINE T == Append(left, NewSession(config, at))
  <2>1. chosen.sessions = T /\ chosen.active = Len(S) + 1
    BY <1>2 DEF start_or_resume_session
  <2>2. /\ left \in Seq(Session) /\ Len(left) = Len(S)
        /\ \A j \in 1 .. Len(S) :
             /\ left[j].config = S[j].config /\ left[j].started = S[j].started
             /\ j \in open => left[j].ended = at
             /\ j \notin open => left[j] = S[j]
    <3>1. CASE open = {}
      BY <3>1
    <3>2. CASE open # {}
      <4>1. open = {last} /\ last \in 1 .. Len(S)
        BY <3>2, OpenIsOne
      <4>2. at \in Nat /\ "replaced" \in Reasons
        BY DEF Reasons
      <4>3. left = end_session(S, last, at, "replaced")
        BY <3>2
      <4> HIDE DEF left, open, last
      <4>4. /\ left \in Seq(Session) /\ Len(left) = Len(S)
            /\ \A j \in 1 .. Len(S) :
                 /\ left[j].config = S[j].config /\ left[j].started = S[j].started
                 /\ j # last => left[j] = S[j]
            /\ left[last].ended = at
        <5>1. Ended(S, left, last, at, "replaced")
          BY <4>1, <4>2, <4>3, EndSession
        <5> QED
          BY <4>1, <5>1 DEF Ended
      <4> QED
        BY <4>1, <4>4
    <3> QED
      BY <3>1, <3>2
  <2>3. NewSession(config, at) \in Session
    BY DEF NewSession, Session, Config, Snapshot, Reasons, Null
  <2>4. /\ T \in Seq(Session) /\ Len(T) = Len(S) + 1
        /\ \A j \in 1 .. Len(S) : T[j] = left[j]
        /\ T[Len(S) + 1] = NewSession(config, at)
    BY <2>2, <2>3
  <2>5. DOMAIN T = 1 .. Len(S) + 1
    BY <2>4
  <2> HIDE DEF T, left
  <2>6. /\ T[Len(S) + 1].config = config /\ T[Len(S) + 1].started = at
        /\ T[Len(S) + 1].ended = Null
    BY <2>4 DEF NewSession
  <2>7. ASSUME NEW j \in 1 .. Len(S), T[j].ended = Null
        PROVE  S[j] = T[j] /\ S[j].config.portfolio # config.portfolio
    <3>1. j \notin open
      BY <2>2, <2>4, <2>7 DEF Null
    <3> QED
      BY <2>2, <2>4, <2>7, <3>1, <1>0 DEF StillOpen, SamePortfolio
  <2>8. AtMostOneOpen(T)
    BY <1>0, <2>5, <2>6, <2>7 DEF AtMostOneOpen
  <2>9. StillOpen(T, config.portfolio) = {Len(S) + 1}
    BY <1>0, <2>5, <2>6, <2>7 DEF StillOpen, SamePortfolio
  <2>10. ASSUME NEW j \in 1 .. Len(S),
                S[j].ended # Null \/ S[j].config.portfolio # config.portfolio
         PROVE  T[j] = S[j]
    BY <2>2, <2>4, <2>10 DEF StillOpen, SamePortfolio
  <2>11. Booted(S, T, Len(S) + 1, config, at)
    BY <1>0, <2>2, <2>4, <2>6, <2>8, <2>9, <2>10 DEF Booted
  <2> QED
    BY <2>1, <2>11
<1> QED
  BY <1>1, <1>2

-----------------------------------------------------------------------------
(* The inductive invariant *)

AInv == TypeOK /\ AccountInv

\* What settings the process may have, a timeframe among them.
LEMMA SettingsTyped ==
  ASSUME NEW config \in Configs \union {NoSettings}
  PROVE  config \in Config /\ config.timeframe \in Nat
<1>1. CASE config \in Configs
  BY <1>1, ConfigsAssumption DEF Config
<1>2. CASE config = NoSettings
  <2>1. <<>> \in Seq(Symbols)
    OBVIOUS
  <2> QED
    BY <1>2, <2>1 DEF Config, NoSettings
<1> QED
  BY <1>1, <1>2

\* While the process is up its session is open, and the only one of its portfolio.
LEMMA ActiveIsOpen ==
  ASSUME AInv, proc = "up"
  PROVE  /\ active \in 1 .. Len(sessions) /\ sessions[active].ended = Null
         /\ sessions[active].config = settings
         /\ StillOpen(sessions, settings.portfolio) = {active}
<1>1. sessions[active].config = settings /\ StillOpen(sessions, settings.portfolio) = {active}
  BY DEF AInv, AccountInv, RunsUnderItsSnapshot
<1>2. active \in StillOpen(sessions, settings.portfolio) /\ sessions \in Seq(Session)
  BY <1>1 DEF AInv, TypeOK
<1> QED
  BY <1>1, <1>2 DEF StillOpen, SamePortfolio

\* The invariant holds of the account inherited.
LEMMA InitAccount == Init => AInv
<1> SUFFICES ASSUME Init PROVE AInv
  OBVIOUS
<1>1. /\ sessions \in Seq(Session) /\ AtMostOneOpen(sessions)
      /\ \A i \in DOMAIN sessions : sessions[i].started <= 1
  <2>1. /\ sessions \in Seq(Session) /\ OpenIsLast(sessions)
        /\ \A i \in DOMAIN sessions : sessions[i].started <= 1
    BY InheritedAssumption DEF Init
  <2>2. DOMAIN sessions = 1 .. Len(sessions)
    BY <2>1
  <2>3. \A i, j \in DOMAIN sessions : i <= j /\ j <= i => i = j
    BY <2>2
  <2> QED
    BY <2>1, <2>3 DEF OpenIsLast, AtMostOneOpen
<1>2. MaxNow \in Nat \ {0} /\ MaxBoots \in Nat /\ Len(sessions) \in Nat
  <2>1. Len(sessions) \in Nat
    BY <1>1
  <2>2. {MaxNow, MaxBoots} \subseteq Nat /\ MaxNow # 0
    BY BoundsAssumption
  <2> QED
    BY <2>1, <2>2
<1>3. TypeOK
  <2>1. entries \in BOOLEAN
    BY DEF Init
  <2>2. now \in 1 .. MaxNow /\ boots \in 0 .. MaxBoots /\ active \in 0 .. Len(sessions)
    BY <1>2 DEF Init
  <2>3. trades \subseteq Trade /\ fees \subseteq Fill
    BY DEF Init
  <2> QED
    BY <1>1, <2>1, <2>2, <2>3 DEF Init, TypeOK
<1>4. AccountInv
  BY <1>1 DEF Init, AccountInv, RunsUnderItsSnapshot, Stamped, Terms
<1> QED
  BY <1>3, <1>4 DEF AInv

\* A boot keeps what was decided out of the guard's sight, or under the guard.
LEMMA BootKeepsTerms ==
  ASSUME AInv, NEW config \in Configs, Boot(config),
         Booted(sessions, sessions', active', config, now'),
         NEW p \in trades, Gone(p) \/ Guarded(p), p.status # "closed"
  PROVE  Gone(p)' \/ Guarded(p)'
<1> DEFINE P == sessions[p.session].config.portfolio
<1>1. /\ p \in Trade /\ p.decided <= now /\ now \in Nat /\ now' = now + 1
      /\ sessions \in Seq(Session) /\ sessions' \in Seq(Session)
      /\ Len(sessions) <= Len(sessions')
  BY DEF AInv, AccountInv, TypeOK, Stamped, Boot, Stamps, Booted
<1>2. DOMAIN sessions = 1 .. Len(sessions) /\ DOMAIN sessions' = 1 .. Len(sessions')
  BY <1>1
<1>3. /\ p.session \in 1 .. Len(sessions) /\ TimeframeOf(p.session) \in Nat
      /\ sessions'[p.session].config = sessions[p.session].config
      /\ p.decided \in Nat
  BY <1>1, <1>2 DEF AInv, AccountInv, Terms, Booted, Trade, Time
<1>4. \A i \in 1 .. Len(sessions) :
        /\ i \in 1 .. Len(sessions')
        /\ sessions'[i].config = sessions[i].config /\ sessions'[i].started = sessions[i].started
        /\ sessions[i].ended # Null \/ sessions[i].config.portfolio # config.portfolio
             => sessions'[i] = sessions[i]
  BY <1>1 DEF Booted
<1>5. CASE Gone(p)
  <2>1. CASE \E i \in DOMAIN sessions :
               sessions[i].reason = "graceful" /\ sessions[i].ended > p.decided
    <3>1. PICK i \in 1 .. Len(sessions) :
            sessions[i].reason = "graceful" /\ sessions[i].ended > p.decided
      BY <1>2, <2>1
    <3>2. sessions'[i] = sessions[i]
      BY <1>3, <1>4, <3>1 DEF Null
    <3> QED
      BY <1>2, <1>4, <3>1, <3>2 DEF Gone
  <2>2. CASE \E i \in DOMAIN sessions :
               /\ p.decided < sessions[i].started
               /\ p.status = "open" => sessions[i].started < p.opened
    BY <1>2, <1>4, <2>2 DEF Gone
  <2> QED
    BY <1>5, <2>1, <2>2 DEF Gone
<1>6. CASE Guarded(p)
  <2>0. /\ StillOpen(sessions, P) # {}
        /\ \A i \in StillOpen(sessions, P) : sessions[i].config.timeframe = TimeframeOf(p.session)
    BY <1>6 DEF Guarded, TimeframeOf
  <2>1. CASE P # config.portfolio
    <3>1. ASSUME NEW i
          PROVE  i \in StillOpen(sessions', P) <=> i \in StillOpen(sessions, P)
      <4>1. CASE i \in 1 .. Len(sessions)
        BY <1>2, <1>4, <2>1, <4>1 DEF StillOpen, SamePortfolio
      <4>2. CASE i \in 1 .. Len(sessions') /\ i \notin 1 .. Len(sessions)
        <5>1. i = active'
          BY <1>1, <4>2 DEF Booted
        <5> QED
          BY <1>2, <2>1, <4>2, <5>1 DEF Booted, StillOpen, SamePortfolio
      <4> QED
        BY <1>2, <1>4, <4>1, <4>2 DEF StillOpen, SamePortfolio
    <3>2. StillOpen(sessions', P) = StillOpen(sessions, P)
      BY <3>1
    <3>3. \A i \in StillOpen(sessions, P) : sessions'[i].config = sessions[i].config
      BY <1>2, <1>4 DEF StillOpen, SamePortfolio
    <3> QED
      BY <1>3, <2>0, <3>2, <3>3 DEF Guarded, TimeframeOf
  <2>2. CASE P = config.portfolio
    <3>1. StillOpen(sessions', P) = {active'} /\ sessions'[active'].config = config
      BY <2>2 DEF Booted
    <3>2. CASE config.timeframe = TimeframeOf(p.session)
      BY <1>3, <3>1, <3>2 DEF Guarded, TimeframeOf
    <3>3. CASE config.timeframe # TimeframeOf(p.session)
      <4>1. PICK i : i \in StillOpen(sessions, P)
        BY <2>0
      <4>2. /\ sessions[i].config.timeframe = TimeframeOf(p.session)
            /\ sessions[i].config # config
        BY <2>0, <3>3, <4>1
      <4>3. TimeframeMayChange(sessions[i], config, Flat)
        BY <2>2, <4>1, <4>2 DEF Boot, GuardsPass
      <4>4. Flat
        BY <1>3, <3>3, <4>2, <4>3, FallbackAssumption DEF TimeframeMayChange
      <4>5. p.status = "ordered"
        BY <1>1, <4>4 DEF Flat, open_positions, Trade
      <4>6. active' \notin 1 .. Len(sessions)
        <5>1. SUFFICES ASSUME active' \in 1 .. Len(sessions) PROVE FALSE
          OBVIOUS
        <5>2. active' \in StillOpen(sessions, P)
          BY <1>1, <2>2, <5>1 DEF Booted
        <5> QED
          BY <1>4, <2>0, <3>1, <3>3, <5>1, <5>2
      <4>7. active' \in 1 .. Len(sessions') /\ sessions'[active'].started = now'
        BY <1>1, <4>6 DEF Booted
      <4> QED
        BY <1>1, <1>2, <1>3, <4>5, <4>7 DEF Gone
    <3> QED
      BY <3>2, <3>3
  <2> QED
    BY <2>1, <2>2
<1> QED
  BY <1>5, <1>6

\* A boot does to the sessions what BootsOne says.
LEMMA BootIsBooted ==
  ASSUME AInv, NEW config \in Configs, Boot(config)
  PROVE  Booted(sessions, sessions', active', config, now')
<1>1. /\ sessions \in Seq(Session) /\ AtMostOneOpen(sessions) /\ config \in Config
      /\ now' \in Nat \ {0}
  BY ConfigsAssumption DEF AInv, AccountInv, TypeOK, Boot, Stamps
<1> QED
  BY <1>1, BootsOne DEF Boot

\* A boot keeps the invariant.
LEMMA BootKeeps ==
  ASSUME AInv, NEW config \in Configs, Boot(config)
  PROVE  AInv'
<1> USE DEF AInv, AccountInv
<1>1. /\ sessions \in Seq(Session) /\ AtMostOneOpen(sessions) /\ config \in Config
      /\ now \in 1 .. MaxNow /\ MaxNow \in Nat /\ now' = now + 1 /\ now' \in 1 .. MaxNow
      /\ now' \in Nat \ {0}
  BY BoundsAssumption, ConfigsAssumption DEF TypeOK, Boot, Stamps
<1>2. Booted(sessions, sessions', active', config, now')
  BY BootIsBooted
<1>3. /\ sessions' \in Seq(Session) /\ Len(sessions) <= Len(sessions')
      /\ AtMostOneOpen(sessions') /\ active' \in 1 .. Len(sessions')
      /\ StillOpen(sessions', config.portfolio) = {active'} /\ sessions'[active'].config = config
  BY <1>2 DEF Booted
<1>4. /\ trades' = trades /\ fees' = fees /\ settings' = config /\ proc' = "up"
      /\ entries' = FALSE /\ boots < MaxBoots /\ boots' = boots + 1
  BY DEF Boot, account
<1>5. TypeOK'
  <2>1. boots' \in 0 .. MaxBoots
    BY <1>4, BoundsAssumption DEF TypeOK
  <2>2. active' \in 0 .. Len(sessions')
    BY <1>3
  <2>3. entries' \in BOOLEAN
    BY <1>4
  <2>4. proc' \in {"up", "down"} /\ settings' \in Configs \union {NoSettings}
    BY <1>4
  <2>5. trades' \subseteq Trade /\ fees' \subseteq Fill
    BY <1>4 DEF TypeOK
  <2> QED
    BY <1>1, <1>3, <2>1, <2>2, <2>3, <2>4, <2>5 DEF TypeOK
<1>6. RunsUnderItsSnapshot'
  BY <1>3, <1>4 DEF RunsUnderItsSnapshot
<1>7. DOMAIN sessions = 1 .. Len(sessions) /\ DOMAIN sessions' = 1 .. Len(sessions')
  BY <1>1, <1>3
<1>8. Stamped'
  <2>1. ASSUME NEW i \in 1 .. Len(sessions')
        PROVE  sessions'[i].started <= now'
    <3>1. CASE i \in 1 .. Len(sessions)
      <4>1. sessions'[i].started = sessions[i].started /\ sessions[i] \in Session
        BY <1>1, <1>2, <3>1 DEF Booted
      <4>2. sessions[i].started <= now /\ sessions[i].started \in Nat
        BY <1>7, <3>1, <4>1 DEF Stamped, Session
      <4> HIDE DEF AInv, AccountInv
      <4> QED
        BY <1>1, <4>1, <4>2
    <3>2. CASE i \notin 1 .. Len(sessions)
      BY <1>1, <1>2, <3>2 DEF Booted
    <3> QED
      BY <3>1, <3>2
  <2>2. ASSUME NEW p \in trades
        PROVE  p.decided <= now'
    BY <1>1 DEF Stamped, TypeOK, Trade, Time
  <2> QED
    BY <1>4, <1>7, <2>1, <2>2 DEF Stamped
<1>9. Terms'
  <2>1. SUFFICES ASSUME NEW p \in trades
                 PROVE  /\ {p.session, active'} \subseteq DOMAIN sessions'
                        /\ sessions'[p.session].config.timeframe \in Nat
                        /\ p.status = "closed" \/ Gone(p)' \/ Guarded(p)'
                        /\ sessions'[active'].ended = Null
    BY <1>4 DEF Terms, TimeframeOf
  <2>2. /\ p.session \in 1 .. Len(sessions) /\ sessions[p.session].config.timeframe \in Nat
        /\ p.status = "closed" \/ Gone(p) \/ Guarded(p)
    BY <1>7 DEF Terms, TimeframeOf
  <2>3. p.session \in 1 .. Len(sessions') /\ sessions'[p.session].config = sessions[p.session].config
    BY <1>1, <1>2, <1>3, <2>2 DEF Booted
  <2>4. sessions'[active'].ended = Null
    BY <1>3 DEF StillOpen
  <2>5. p.status = "closed" \/ Gone(p)' \/ Guarded(p)'
    BY <1>2, <2>2, BootKeepsTerms
  <2> QED
    BY <1>3, <1>7, <2>2, <2>3, <2>4, <2>5
<1> QED
  BY <1>3, <1>5, <1>6, <1>8, <1>9

\* A shutdown keeps it.
LEMMA ShutdownKeeps ==
  ASSUME AInv, Shutdown
  PROVE  AInv'
<1> USE DEF AInv, AccountInv
<1>1. /\ active \in 1 .. Len(sessions) /\ sessions[active].ended = Null
      /\ sessions \in Seq(Session)
  BY ActiveIsOpen DEF Shutdown, TypeOK
<1>2. /\ now \in 1 .. MaxNow /\ MaxNow \in Nat /\ now' = now + 1 /\ now' \in 1 .. MaxNow
      /\ now' \in Nat /\ now' # Null
  BY BoundsAssumption DEF TypeOK, Shutdown, Stamps, Null
<1>3. Ended(sessions, sessions', active, now', "graceful")
  <2>1. sessions' = end_session(sessions, active, now', "graceful")
    BY <1>1 DEF Shutdown
  <2>2. "graceful" \in Reasons
    BY DEF Reasons
  <2> QED
    BY <1>1, <1>2, <2>1, <2>2, EndSession
<1>4. /\ sessions' \in Seq(Session) /\ Len(sessions') = Len(sessions)
      /\ DOMAIN sessions = 1 .. Len(sessions) /\ DOMAIN sessions' = 1 .. Len(sessions)
  BY <1>1, <1>3 DEF Ended
<1>5. \A i \in 1 .. Len(sessions) :
        /\ sessions'[i].config = sessions[i].config /\ sessions'[i].started = sessions[i].started
        /\ i # active => sessions'[i] = sessions[i]
  BY <1>3 DEF Ended
<1>6. sessions'[active].ended = now' /\ sessions'[active].reason = "graceful"
  BY <1>3 DEF Ended
<1>7. /\ trades' = trades /\ fees' = fees /\ proc' = "down" /\ settings' = NoSettings
      /\ active' = active /\ boots' = boots /\ entries' = FALSE
  BY DEF Shutdown, account
<1>8. TypeOK'
  <2>1. entries' \in BOOLEAN
    BY <1>7
  <2>2. trades' \subseteq Trade /\ fees' \subseteq Fill /\ boots' \in 0 .. MaxBoots
    BY <1>7 DEF TypeOK
  <2>3. proc' \in {"up", "down"} /\ settings' \in Configs \union {NoSettings}
    BY <1>7
  <2>4. active' \in 0 .. Len(sessions')
    BY <1>4, <1>7 DEF TypeOK
  <2> QED
    BY <1>2, <1>4, <2>1, <2>2, <2>3, <2>4 DEF TypeOK
<1>9. AtMostOneOpen(sessions')
  <2>1. ASSUME NEW i \in 1 .. Len(sessions), sessions'[i].ended = Null
        PROVE  sessions'[i] = sessions[i]
    BY <1>2, <1>5, <1>6, <2>1
  <2> QED
    BY <1>4, <2>1 DEF AtMostOneOpen
<1>10. RunsUnderItsSnapshot'
  BY <1>7 DEF RunsUnderItsSnapshot
<1>11. ASSUME NEW p \in trades
       PROVE  p.decided <= now /\ p.decided \in Nat /\ p.decided < now'
  BY <1>2 DEF Stamped, TypeOK, Trade, Time
<1>12. Stamped'
  <2>1. ASSUME NEW i \in 1 .. Len(sessions)
        PROVE  sessions'[i].started <= now'
    <3>1. sessions[i] \in Session
      BY <1>1
    <3>2. sessions[i].started <= now /\ sessions[i].started \in Nat
      BY <1>4, <3>1 DEF Stamped, Session
    <3>3. sessions'[i].started = sessions[i].started
      BY <1>5
    <3> HIDE DEF AInv, AccountInv
    <3> QED
      BY <1>2, <3>2, <3>3
  <2> QED
    BY <1>2, <1>4, <1>7, <1>11, <2>1 DEF Stamped
<1>13. Terms'
  <2>1. SUFFICES ASSUME NEW p \in trades
                 PROVE  /\ {p.session, active} \subseteq DOMAIN sessions'
                        /\ sessions'[p.session].config.timeframe \in Nat
                        /\ Gone(p)'
                        /\ sessions'[active].reason = "graceful"
                        /\ sessions'[active].ended > p.decided
    BY <1>7 DEF Terms, TimeframeOf
  <2>2. p.session \in 1 .. Len(sessions) /\ sessions[p.session].config.timeframe \in Nat
    BY <1>4 DEF Terms, TimeframeOf
  <2>3. sessions'[active].reason = "graceful" /\ sessions'[active].ended > p.decided
    BY <1>2, <1>6, <1>11
  <2>4. Gone(p)'
    BY <1>1, <1>4, <2>3 DEF Gone
  <2> QED
    BY <1>1, <1>4, <1>5, <2>2, <2>3, <2>4
<1> QED
  BY <1>8, <1>9, <1>10, <1>12, <1>13

\* A step that leaves clock, sessions and trades alone, and does not bring the process
\* up, changes nothing that the invariant is about.
LEMMA OthersKeep ==
  ASSUME AInv, UNCHANGED <<now, sessions, active, account>>,
         \/ UNCHANGED memory
         \/ proc' = "down" /\ settings' = NoSettings,
         entries' \in BOOLEAN, boots' \in 0 .. MaxBoots
  PROVE  AInv'
<1> USE DEF AInv, AccountInv, account, memory
<1>1. TypeOK'
  BY DEF TypeOK
<1>2. RunsUnderItsSnapshot'
  BY DEF RunsUnderItsSnapshot
<1>3. Stamped' /\ Terms' /\ AtMostOneOpen(sessions')
  BY DEF Stamped, Terms, Gone, Guarded, TimeframeOf
<1> QED
  BY <1>1, <1>2, <1>3

\* Trades come and go without touching the sessions: what is new, or changed, must be
\* stamped in the past and on the terms of its session.
LEMMA TradesKeep ==
  ASSUME AInv, proc = "up", Stamps,
         UNCHANGED <<memory, sessions, active, entries, boots>>,
         trades' \subseteq Trade, fees' \subseteq Fill,
         \A p \in trades' : p \in trades
           \/ /\ p.session \in 1 .. Len(sessions) /\ TimeframeOf(p.session) \in Nat
              /\ p.decided <= now'
              /\ p.status = "closed" \/ Gone(p) \/ Guarded(p)
  PROVE  AInv'
<1> USE DEF AInv, AccountInv
<1>1. /\ active \in 1 .. Len(sessions) /\ sessions[active].ended = Null
      /\ sessions \in Seq(Session) /\ sessions' = sessions /\ active' = active
      /\ DOMAIN sessions = 1 .. Len(sessions)
  BY ActiveIsOpen DEF TypeOK
<1>2. now \in Nat /\ now' = now + 1 /\ now' \in 1 .. MaxNow
  BY BoundsAssumption DEF TypeOK, Stamps
<1>3. TypeOK'
  BY <1>1, <1>2 DEF TypeOK, memory
<1>4. RunsUnderItsSnapshot'
  BY DEF RunsUnderItsSnapshot, memory
<1>5. Stamped'
  <2>1. ASSUME NEW i \in 1 .. Len(sessions)
        PROVE  sessions[i].started <= now'
    <3>1. sessions[i] \in Session
      BY <1>1
    <3>2. sessions[i].started <= now /\ sessions[i].started \in Nat
      BY <1>1, <3>1 DEF Stamped, Session
    <3> HIDE DEF AInv, AccountInv
    <3> QED
      BY <1>2, <3>2
  <2>2. ASSUME NEW p \in trades'
        PROVE  p.decided <= now'
    <3>1. CASE p \in trades
      <4>1. p.decided <= now /\ p.decided \in Nat
        BY <3>1 DEF Stamped, TypeOK, Trade, Time
      <4> HIDE DEF AInv, AccountInv
      <4> QED
        BY <1>2, <4>1
    <3> QED
      BY <3>1
  <2> QED
    BY <1>1, <2>1, <2>2 DEF Stamped
<1>6. Terms'
  <2>1. ASSUME NEW p
        PROVE  Gone(p)' = Gone(p) /\ Guarded(p)' = Guarded(p)
    BY <1>1 DEF Gone, Guarded, TimeframeOf
  <2>2. ASSUME NEW p \in trades'
        PROVE  /\ {p.session, active} \subseteq DOMAIN sessions /\ TimeframeOf(p.session) \in Nat
               /\ p.status = "closed" \/ Gone(p) \/ Guarded(p)
    BY <1>1 DEF Terms
  <2>3. ASSUME NEW i
        PROVE  TimeframeOf(i)' = TimeframeOf(i)
    BY <1>1 DEF TimeframeOf
  <2> QED
    BY <1>1, <2>1, <2>2, <2>3 DEF Terms
<1> QED
  BY <1>1, <1>3, <1>4, <1>5, <1>6

\* Ordering an entry keeps it.
LEMMA OrderEntryKeeps ==
  ASSUME AInv, NEW s \in Symbols, OrderEntry(s)
  PROVE  AInv'
<1> DEFINE new == [symbol |-> s, session |-> active, decided |-> now', opened |-> 0,
                   closed |-> 0, status |-> "ordered"]
<1>1. /\ proc = "up" /\ Stamps /\ trades' = trades \union {new} /\ fees' = fees
      /\ UNCHANGED <<memory, sessions, active, entries, boots>>
  BY DEF OrderEntry, Operating
<1>2. /\ active \in 1 .. Len(sessions) /\ sessions[active].ended = Null
      /\ sessions[active].config = settings
      /\ StillOpen(sessions, settings.portfolio) = {active}
  BY <1>1, ActiveIsOpen
<1>3. now \in 1 .. MaxNow /\ MaxNow \in Nat /\ now' = now + 1 /\ now' \in 1 .. MaxNow
  BY <1>1, BoundsAssumption DEF AInv, TypeOK, Stamps
<1>4. new \in Trade
  <2>1. active \in Nat /\ now' \in Time /\ 0 \in Time
    BY <1>3 DEF AInv, TypeOK, Time
  <2> QED
    BY <2>1 DEF Trade
<1>5. trades' \subseteq Trade /\ fees' \subseteq Fill
  BY <1>1, <1>4 DEF AInv, TypeOK
<1>6. TimeframeOf(active) \in Nat
  BY <1>2, SettingsTyped DEF AInv, TypeOK, TimeframeOf
<1>7. Guarded(new)
  BY <1>2 DEF Guarded
<1>8. new.session = active /\ new.decided = now' /\ now' <= now'
  BY <1>3
<1> HIDE DEF new
<1> QED
  BY <1>1, <1>2, <1>5, <1>6, <1>7, <1>8, TradesKeep

\* The fill of an entry keeps it.
LEMMA FillEntryKeeps ==
  ASSUME AInv, NEW p \in trades, FillEntry(p)
  PROVE  AInv'
<1> DEFINE new == [p EXCEPT !.status = "open", !.opened = now']
<1>1. /\ proc = "up" /\ Stamps /\ trades' = (trades \ {p}) \union {new} /\ p.status = "ordered"
      /\ UNCHANGED <<memory, sessions, active, entries, boots>>
  BY DEF FillEntry
<1>2. p \in Trade /\ p.decided \in Time /\ p.symbol \in Symbols
  BY DEF AInv, TypeOK, Trade
<1>3. /\ now \in 1 .. MaxNow /\ MaxNow \in Nat /\ now' = now + 1 /\ now' \in 1 .. MaxNow
      /\ now' \in Time
  BY <1>1, BoundsAssumption DEF AInv, TypeOK, Stamps, Time
<1>4. new \in Trade
  BY <1>2, <1>3 DEF Trade
<1>5. fees' \subseteq Fill
  <2>1. PICK at \in {p.decided, now'} : fees' = fees \union {[symbol |-> p.symbol, at |-> at]}
    BY DEF FillEntry
  <2>2. [symbol |-> p.symbol, at |-> at] \in Fill
    BY <1>2, <1>3, <2>1 DEF Fill
  <2> QED
    BY <2>1, <2>2 DEF AInv, TypeOK
<1>6. trades' \subseteq Trade
  BY <1>1, <1>4 DEF AInv, TypeOK
<1>7. /\ new.session = p.session /\ new.decided = p.decided /\ new.status = "open"
      /\ new.opened = now'
  BY <1>2 DEF Trade
<1>8. /\ p.session \in DOMAIN sessions /\ TimeframeOf(p.session) \in Nat /\ p.decided <= now
      /\ Gone(p) \/ Guarded(p)
      /\ DOMAIN sessions = 1 .. Len(sessions) /\ sessions \in Seq(Session)
  BY <1>1 DEF AInv, AccountInv, TypeOK, Terms, Stamped
<1>9. Gone(new) \/ Guarded(new)
  <2>1. CASE Guarded(p)
    BY <1>7, <2>1 DEF Guarded
  <2>2. CASE \E i \in DOMAIN sessions :
               sessions[i].reason = "graceful" /\ sessions[i].ended > p.decided
    BY <1>7, <2>2 DEF Gone
  <2>3. CASE \E i \in DOMAIN sessions : p.decided < sessions[i].started
    <3>1. PICK i \in DOMAIN sessions : p.decided < sessions[i].started
      BY <2>3
    <3>2. sessions[i] \in Session /\ sessions[i].started <= now
      BY <1>8 DEF AInv, AccountInv, Stamped
    <3>3. sessions[i].started < now'
      BY <1>3, <3>2 DEF Session
    <3> QED
      BY <1>7, <3>1, <3>3 DEF Gone
  <2> QED
    BY <1>8, <2>1, <2>2, <2>3 DEF Gone
<1>10. p.decided <= now'
  BY <1>2, <1>3, <1>8 DEF Time
<1> HIDE DEF new
<1> QED
  BY <1>1, <1>5, <1>6, <1>7, <1>8, <1>9, <1>10, TradesKeep

\* Closing a position keeps it.
LEMMA ClosePositionKeeps ==
  ASSUME AInv, NEW p \in trades, ClosePosition(p)
  PROVE  AInv'
<1> DEFINE new == [p EXCEPT !.status = "closed", !.closed = now']
<1>1. /\ proc = "up" /\ Stamps /\ trades' = (trades \ {p}) \union {new}
      /\ fees' = fees \union {[symbol |-> p.symbol, at |-> now']}
      /\ UNCHANGED <<memory, sessions, active, entries, boots>>
  BY DEF ClosePosition, Operating
<1>2. p \in Trade /\ p.decided \in Time /\ p.symbol \in Symbols
  BY DEF AInv, TypeOK, Trade
<1>3. /\ now \in 1 .. MaxNow /\ MaxNow \in Nat /\ now' = now + 1 /\ now' \in 1 .. MaxNow
      /\ now' \in Time
  BY <1>1, BoundsAssumption DEF AInv, TypeOK, Stamps, Time
<1>4. new \in Trade /\ [symbol |-> p.symbol, at |-> now'] \in Fill
  BY <1>2, <1>3 DEF Trade, Fill
<1>5. trades' \subseteq Trade /\ fees' \subseteq Fill
  BY <1>1, <1>4 DEF AInv, TypeOK
<1>6. new.session = p.session /\ new.decided = p.decided /\ new.status = "closed"
  BY <1>2 DEF Trade
<1>7. /\ p.session \in 1 .. Len(sessions) /\ TimeframeOf(p.session) \in Nat /\ p.decided <= now
  BY DEF AInv, AccountInv, TypeOK, Terms, Stamped
<1>8. p.decided <= now'
  BY <1>2, <1>3, <1>7 DEF Time
<1> HIDE DEF new
<1> QED
  BY <1>1, <1>5, <1>6, <1>7, <1>8, TradesKeep

\* Every step keeps it.
LEMMA StepKeeps ==
  ASSUME AInv, [Next]_vars
  PROVE  AInv'
<1>1. ASSUME NEW config \in Configs, Boot(config) PROVE AInv'
  BY <1>1, BootKeeps
<1>2. ASSUME NEW config \in Configs, BootRefused(config) PROVE AInv'
  <2>1. entries' \in BOOLEAN /\ boots' \in 0 .. MaxBoots
    BY <1>2, BoundsAssumption DEF BootRefused, AInv, TypeOK
  <2> QED
    BY <1>2, <2>1, OthersKeep DEF BootRefused
<1>3. CASE Activate
  <2>1. entries' \in BOOLEAN /\ boots' \in 0 .. MaxBoots
    BY <1>3 DEF Activate, AInv, TypeOK
  <2> QED
    BY <1>3, <2>1, OthersKeep DEF Activate
<1>4. CASE Shutdown
  BY <1>4, ShutdownKeeps
<1>5. CASE Crash
  <2>1. entries' \in BOOLEAN /\ boots' \in 0 .. MaxBoots
    BY <1>5 DEF Crash, AInv, TypeOK
  <2> QED
    BY <1>5, <2>1, OthersKeep DEF Crash
<1>6. ASSUME NEW s \in Symbols, OrderEntry(s) PROVE AInv'
  BY <1>6, OrderEntryKeeps
<1>7. ASSUME NEW p \in trades, FillEntry(p) \/ ClosePosition(p) PROVE AInv'
  BY <1>7, FillEntryKeeps, ClosePositionKeeps
<1>8. CASE UNCHANGED vars
  <2>1. entries' \in BOOLEAN /\ boots' \in 0 .. MaxBoots
    BY <1>8 DEF vars, AInv, TypeOK
  <2> QED
    BY <1>8, <2>1, OthersKeep DEF vars
<1> QED
  BY <1>1, <1>2, <1>3, <1>4, <1>5, <1>6, <1>7, <1>8 DEF Next

-----------------------------------------------------------------------------
(* The accounting base: the earliest session of the portfolio since which every one
   before the active session started with the balance of the active one.  The walk back
   is recursive; what it returns is proved without induction, from a minimal session
   that it would be wrong for. *)

\* A set of numbers has a least one.
LEMMA LeastExists ==
  ASSUME NEW S, S \subseteq Nat, S # {}
  PROVE  \E x \in S : \A y \in S : x <= y
<1>1. PICK x \in S : \A y \in S : ~ (<<y, x>> \in OpToRel(<, Nat))
  BY NatLessThanWellFounded, WFMin
<1>2. \A y \in S : ~ (y < x)
  BY <1>1 DEF OpToRel
<1> QED
  BY <1>2

\* LastOne is the greatest of a set of session numbers.
LEMMA LastOneIsLast ==
  ASSUME NEW n \in Nat, NEW S, S \subseteq 1 .. n, S # {}
  PROVE  LastOne(S) \in S /\ \A j \in S : j <= LastOne(S)
<1> DEFINE D == {n - j : j \in S}
<1>1. PICK d \in D : \A e \in D : d <= e
  <2>1. D \subseteq Nat /\ D # {}
    <3>1. \A j \in S : j \in 1 .. n
      OBVIOUS
    <3>2. \A j \in 1 .. n : n - j \in Nat
      OBVIOUS
    <3> QED
      BY <3>1, <3>2
  <2> HIDE DEF D
  <2> QED
    BY <2>1, LeastExists
<1>2. PICK i \in S : d = n - i
  OBVIOUS
<1>3. \A j \in S : j <= i
  <2> SUFFICES ASSUME NEW j \in S PROVE j <= i
    OBVIOUS
  <2>1. d <= n - j /\ i \in 1 .. n /\ j \in 1 .. n
    BY <1>1
  <2> QED
    BY <1>2, <2>1
<1> QED
  BY <1>3 DEF LastOne

Predecessors(S, i) == {j \in SamePortfolio(S, S[i].config.portfolio) : j < i}

\* The function that resolve_accounting_base defines by recursion
Bases(S, target, base) ==
  base = [i \in DOMAIN S |->
            IF \/ Predecessors(S, i) = {}
               \/ resolve_starting_balance(S[LastOne(Predecessors(S, i))]) # target
            THEN i ELSE base[LastOne(Predecessors(S, i))]]

\* Sessions of the portfolio since which the balance has been the same
Unbroken(S, target, i) ==
  {j \in SamePortfolio(S, S[i].config.portfolio) :
     /\ j <= i
     /\ \A k \in Predecessors(S, i) : j <= k => resolve_starting_balance(S[k]) = target}

IsBase(S, target, i, b) ==
  b \in Unbroken(S, target, i) /\ \A j \in Unbroken(S, target, i) : b <= j

\* A session has at most one accounting base.
LEMMA BaseIsOne ==
  ASSUME NEW S \in Seq(Session), NEW target, NEW i \in 1 .. Len(S),
         NEW b, NEW c, IsBase(S, target, i, b), IsBase(S, target, i, c)
  PROVE  b = c /\ b \in 1 .. i
<1>1. DOMAIN S = 1 .. Len(S) /\ Len(S) \in Nat
  OBVIOUS
<1>2. b \in 1 .. i /\ c \in 1 .. i
  BY <1>1 DEF IsBase, Unbroken, SamePortfolio
<1> QED
  BY <1>2 DEF IsBase

\* A session has an accounting base.
LEMMA BaseExists ==
  ASSUME NEW S \in Seq(Session), NEW target, NEW i \in 1 .. Len(S)
  PROVE  \E b : IsBase(S, target, i, b)
<1>1. DOMAIN S = 1 .. Len(S) /\ Len(S) \in Nat
  OBVIOUS
<1>2. i \in Unbroken(S, target, i) /\ Unbroken(S, target, i) \subseteq Nat
  BY <1>1 DEF Unbroken, SamePortfolio, Predecessors
<1>3. PICK b \in Unbroken(S, target, i) : \A j \in Unbroken(S, target, i) : b <= j
  BY <1>2, LeastExists
<1> QED
  BY <1>3 DEF IsBase

\* One step of the walk: to the session before, or no further.
LEMMA BaseStep ==
  ASSUME NEW S \in Seq(Session), NEW target, NEW i \in 1 .. Len(S)
  PROVE  LET last == LastOne(Predecessors(S, i))
         IN  IF Predecessors(S, i) = {} \/ resolve_starting_balance(S[last]) # target
             THEN IsBase(S, target, i, i)
             ELSE /\ last \in 1 .. Len(S) /\ last < i
                  /\ \A b : IsBase(S, target, last, b) => IsBase(S, target, i, b)
<1> DEFINE P == Predecessors(S, i)
           last == LastOne(P)
<1>1. DOMAIN S = 1 .. Len(S) /\ Len(S) \in Nat
  OBVIOUS
<1>2. P \subseteq 1 .. Len(S) /\ \A j \in P : j < i
  BY <1>1 DEF Predecessors, SamePortfolio
<1>3. i \in Unbroken(S, target, i)
  BY <1>1 DEF Unbroken, SamePortfolio, Predecessors
<1>4. \A j \in Unbroken(S, target, i) : j \in 1 .. Len(S) /\ j <= i /\ (j # i => j \in P)
  BY <1>1 DEF Unbroken, SamePortfolio, Predecessors
<1>5. CASE P = {}
  BY <1>3, <1>4, <1>5 DEF IsBase
<1>6. CASE P # {}
  <2>1. last \in P /\ \A j \in P : j <= last
    BY <1>1, <1>2, <1>6, LastOneIsLast
  <2>2. last \in 1 .. Len(S) /\ last < i /\ S[last].config.portfolio = S[i].config.portfolio
    BY <1>2, <2>1 DEF Predecessors, SamePortfolio
  <2> HIDE DEF last
  <2>3. CASE resolve_starting_balance(S[last]) # target
    <3>1. \A j \in Unbroken(S, target, i) : j = i
      BY <1>4, <2>1, <2>3 DEF Unbroken
    <3> QED
      BY <1>3, <1>6, <2>3, <3>1 DEF IsBase, last
  <2>4. CASE resolve_starting_balance(S[last]) = target
    <3>1. ASSUME NEW j \in Unbroken(S, target, last)
          PROVE  j \in Unbroken(S, target, i) /\ j <= last /\ j \in 1 .. Len(S)
      <4>1. j \in 1 .. Len(S) /\ j <= last /\ S[j].config.portfolio = S[i].config.portfolio
        BY <1>1, <2>2 DEF Unbroken, SamePortfolio
      <4>2. ASSUME NEW k \in P, j <= k
            PROVE  resolve_starting_balance(S[k]) = target
        <5>1. k <= last /\ k \in 1 .. Len(S) /\ S[k].config.portfolio = S[last].config.portfolio
          BY <1>1, <2>1, <2>2 DEF Predecessors, SamePortfolio
        <5>2. CASE k = last
          BY <2>4, <5>2
        <5>3. CASE k # last
          <6>1. k \in Predecessors(S, last)
            BY <1>1, <2>2, <5>1, <5>3 DEF Predecessors, SamePortfolio
          <6> QED
            BY <4>2, <6>1 DEF Unbroken
        <5> QED
          BY <5>2, <5>3
      <4> QED
        BY <1>1, <2>2, <4>1, <4>2 DEF Unbroken, SamePortfolio
    <3>2. ASSUME NEW j \in Unbroken(S, target, i), j # i
          PROVE  j \in Unbroken(S, target, last)
      <4>1. j \in P /\ j <= last /\ j \in 1 .. Len(S)
        BY <1>4, <2>1, <3>2
      <4>2. S[j].config.portfolio = S[last].config.portfolio
        BY <2>2 DEF Unbroken, SamePortfolio
      <4>3. \A k \in Predecessors(S, last) : k \in P
        BY <1>1, <2>2 DEF Predecessors, SamePortfolio
      <4> QED
        BY <1>1, <4>1, <4>2, <4>3 DEF Unbroken, SamePortfolio
    <3>3. ASSUME NEW b, IsBase(S, target, last, b)
          PROVE  IsBase(S, target, i, b)
      <4>1. b \in Unbroken(S, target, i) /\ b <= last /\ b \in 1 .. Len(S)
        BY <3>1, <3>3 DEF IsBase
      <4>2. \A j \in Unbroken(S, target, i) : b <= j
        BY <2>2, <3>2, <3>3, <4>1 DEF IsBase
      <4> QED
        BY <4>1, <4>2 DEF IsBase
    <3> QED
      BY <1>6, <2>2, <2>4, <3>3 DEF last
  <2> QED
    BY <2>3, <2>4
<1> QED
  BY <1>5, <1>6

\* A function that satisfies the recursion finds the base: it has no first mistake.
LEMMA WalkFindsBase ==
  ASSUME NEW S \in Seq(Session), NEW target, NEW base, Bases(S, target, base)
  PROVE  \A i \in 1 .. Len(S) : IsBase(S, target, i, base[i])
<1> DEFINE Bad == {i \in 1 .. Len(S) : ~ IsBase(S, target, i, base[i])}
<1> SUFFICES ASSUME Bad # {} PROVE FALSE
  OBVIOUS
<1>1. DOMAIN S = 1 .. Len(S) /\ Len(S) \in Nat
  OBVIOUS
<1>2. PICK i \in Bad : \A j \in Bad : i <= j
  <2>1. Bad \subseteq Nat
    BY <1>1
  <2> HIDE DEF Bad
  <2> QED
    BY <2>1, LeastExists
<1> DEFINE last == LastOne(Predecessors(S, i))
<1>3. base[i] = IF Predecessors(S, i) = {} \/ resolve_starting_balance(S[last]) # target
                THEN i ELSE base[last]
  BY <1>1 DEF Bases
<1>4. CASE Predecessors(S, i) = {} \/ resolve_starting_balance(S[last]) # target
  BY <1>3, <1>4, BaseStep
<1>5. CASE ~ (Predecessors(S, i) = {} \/ resolve_starting_balance(S[last]) # target)
  <2>1. /\ last \in 1 .. Len(S) /\ last < i
        /\ \A b : IsBase(S, target, last, b) => IsBase(S, target, i, b)
    BY <1>5, BaseStep
  <2>2. base[i] = base[last]
    BY <1>3, <1>5
  <2> HIDE DEF last
  <2>3. last \notin Bad
    BY <1>1, <1>2, <2>1
  <2> QED
    BY <2>1, <2>2, <2>3
<1> QED
  BY <1>4, <1>5

\* There is such a function.
LEMMA WalkExists ==
  ASSUME NEW S \in Seq(Session), NEW target
  PROVE  \E base : Bases(S, target, base)
<1> DEFINE Found(i) == CHOOSE b : IsBase(S, target, i, b)
           base == [i \in DOMAIN S |-> Found(i)]
<1>1. DOMAIN S = 1 .. Len(S)
  OBVIOUS
<1>2. ASSUME NEW i \in 1 .. Len(S) PROVE IsBase(S, target, i, Found(i))
  BY BaseExists
<1>3. ASSUME NEW i \in 1 .. Len(S)
      PROVE  base[i] = IF \/ Predecessors(S, i) = {}
                          \/ resolve_starting_balance(S[LastOne(Predecessors(S, i))]) # target
                       THEN i ELSE base[LastOne(Predecessors(S, i))]
  <2> DEFINE last == LastOne(Predecessors(S, i))
  <2> HIDE DEF Found
  <2>1. CASE Predecessors(S, i) = {} \/ resolve_starting_balance(S[last]) # target
    <3>1. IsBase(S, target, i, i)
      BY <2>1, BaseStep
    <3>2. Found(i) = i
      BY <1>2, <3>1, BaseIsOne
    <3> QED
      BY <1>1, <2>1, <3>2
  <2>2. CASE ~ (Predecessors(S, i) = {} \/ resolve_starting_balance(S[last]) # target)
    <3>1. /\ last \in 1 .. Len(S)
          /\ \A b : IsBase(S, target, last, b) => IsBase(S, target, i, b)
      BY <2>2, BaseStep
    <3> HIDE DEF last
    <3>2. IsBase(S, target, i, Found(last))
      BY <1>2, <3>1
    <3>3. Found(i) = Found(last)
      BY <1>2, <3>2, BaseIsOne
    <3> QED
      BY <1>1, <2>2, <3>1, <3>3 DEF last
  <2> QED
    BY <2>1, <2>2
<1> DEFINE W(i) == IF \/ Predecessors(S, i) = {}
                      \/ resolve_starting_balance(S[LastOne(Predecessors(S, i))]) # target
                   THEN i ELSE base[LastOne(Predecessors(S, i))]
<1>4. \A i \in DOMAIN S : Found(i) = W(i)
  <2>1. \A i \in DOMAIN S : Found(i) = base[i]
    OBVIOUS
  <2> HIDE DEF base, Found
  <2> QED
    BY <1>1, <1>3, <2>1
<1>5. base = [i \in DOMAIN S |-> W(i)]
  <2>1. base = [i \in DOMAIN S |-> Found(i)]
    OBVIOUS
  <2> HIDE DEF W, Found, base
  <2> QED
    BY <1>4, <2>1
<1> QED
  BY <1>5 DEF Bases

\* What resolve_accounting_base returns.
LEMMA AccountingBase ==
  ASSUME NEW S \in Seq(Session), NEW i \in 1 .. Len(S)
  PROVE  IsBase(S, resolve_starting_balance(S[i]), i, resolve_accounting_base(S, i))
<1> DEFINE target == resolve_starting_balance(S[i])
           base == CHOOSE base : Bases(S, target, base)
<1>1. resolve_accounting_base(S, i) = base[i]
  BY DEF resolve_accounting_base, Bases, Predecessors
<1>2. Bases(S, target, base)
  BY WalkExists
<1> HIDE DEF base
<1> QED
  BY <1>1, <1>2, WalkFindsBase

\* A session added with the balance of the one before it has the same base.
LEMMA BaseStays ==
  ASSUME NEW S \in Seq(Session), NEW T \in Seq(Session), Len(T) = Len(S) + 1,
         \A j \in 1 .. Len(S) : T[j].config = S[j].config,
         NEW a \in 1 .. Len(S),
         \A j \in SamePortfolio(S, S[a].config.portfolio) : j <= a,
         T[Len(T)].config.portfolio = S[a].config.portfolio,
         resolve_starting_balance(T[Len(T)]) = resolve_starting_balance(S[a])
  PROVE  resolve_accounting_base(T, Len(T)) = resolve_accounting_base(S, a)
<1> DEFINE n == Len(S) + 1
           target == resolve_starting_balance(S[a])
<1>1. DOMAIN S = 1 .. Len(S) /\ Len(S) \in Nat /\ DOMAIN T = 1 .. n /\ n = Len(T) /\ n \in 1 .. n
  OBVIOUS
<1>2. Predecessors(T, n) = SamePortfolio(S, S[a].config.portfolio)
  BY <1>1 DEF Predecessors, SamePortfolio
<1>3. a \in Predecessors(T, n) /\ \A j \in Predecessors(T, n) : j <= a
  BY <1>1, <1>2 DEF SamePortfolio
<1>4. LastOne(Predecessors(T, n)) = a
  <2>1. Predecessors(T, n) \subseteq 1 .. n
    BY <1>1 DEF Predecessors, SamePortfolio
  <2>2. LastOne(Predecessors(T, n)) \in Predecessors(T, n)
        /\ a <= LastOne(Predecessors(T, n))
    BY <1>1, <1>3, <2>1, LastOneIsLast
  <2> QED
    BY <1>1, <1>3, <2>1, <2>2
<1>5. \A j \in 1 .. Len(S) : resolve_starting_balance(T[j]) = resolve_starting_balance(S[j])
  BY DEF resolve_starting_balance
<1>6. Predecessors(T, a) = Predecessors(S, a)
  BY <1>1 DEF Predecessors, SamePortfolio
<1>7. Unbroken(T, target, a) = Unbroken(S, target, a)
  <2>1. \A k \in Predecessors(S, a) : k \in 1 .. Len(S)
    BY <1>1 DEF Predecessors, SamePortfolio
  <2> HIDE DEF target
  <2>2. ASSUME NEW j
        PROVE  j \in Unbroken(T, target, a) <=> j \in Unbroken(S, target, a)
    <3>1. (j \in SamePortfolio(T, T[a].config.portfolio) /\ j <= a)
            <=> (j \in SamePortfolio(S, S[a].config.portfolio) /\ j <= a)
      BY <1>1 DEF SamePortfolio
    <3> QED
      BY <1>5, <1>6, <2>1, <3>1 DEF Unbroken
  <2> QED
    BY <2>2
<1>8. IsBase(T, target, a, resolve_accounting_base(S, a))
  BY <1>7, AccountingBase DEF IsBase
<1>9. IsBase(T, target, n, resolve_accounting_base(S, a))
  BY <1>1, <1>3, <1>4, <1>5, <1>8, BaseStep
<1>10. IsBase(T, target, n, resolve_accounting_base(T, n))
  BY <1>1, AccountingBase
<1> HIDE DEF target
<1> QED
  BY <1>1, <1>9, <1>10, BaseIsOne

-----------------------------------------------------------------------------
(* Sessions stay in order *)

\* The sessions inherited are in order.
LEMMA InitOrder == Init => SessionsInOrder
<1> SUFFICES ASSUME Init PROVE SessionsInOrder
  OBVIOUS
<1>1. sessions \in Seq(Session) /\ OpenIsLast(sessions) /\ active = Len(sessions)
  BY InheritedAssumption DEF Init
<1>2. \A i \in DOMAIN sessions : i <= active
  BY <1>1
<1> QED
  BY <1>1, <1>2 DEF SessionsInOrder, SamePortfolio

\* A boot resumes the last session of its portfolio or adds one.
LEMMA BootKeepsOrder ==
  ASSUME NEW S \in Seq(Session), NEW T, NEW own, NEW config, NEW at,
         OpenIsLast(S), Booted(S, T, own, config, at)
  PROVE  /\ OpenIsLast(T)
         /\ \A i \in SamePortfolio(T, config.portfolio) : i <= own
         /\ own > Len(S) => own = Len(S) + 1 /\ Len(T) = Len(S) + 1
<1>1. /\ T \in Seq(Session) /\ Len(S) \in Nat /\ Len(T) \in Nat /\ Len(S) <= Len(T)
      /\ DOMAIN S = 1 .. Len(S) /\ DOMAIN T = 1 .. Len(T)
      /\ own \in 1 .. Len(T) /\ T[own].config = config
      /\ StillOpen(T, config.portfolio) = {own}
  BY DEF Booted
<1>2. CASE own <= Len(S)
  <2>1. T = S /\ own \in StillOpen(S, config.portfolio)
    BY <1>2 DEF Booted
  <2>2. \A i \in SamePortfolio(T, config.portfolio) : i <= own
    BY <1>1, <2>1 DEF OpenIsLast, StillOpen, SamePortfolio
  <2>3. ~ (own > Len(S))
    <3>1. own \in Nat
      BY <1>1
    <3> QED
      BY <1>1, <1>2, <3>1
  <2> QED
    BY <2>1, <2>2, <2>3
<1>3. CASE own > Len(S)
  <2>1. own = Len(S) + 1 /\ Len(T) = Len(S) + 1
    <3>1. \A i \in 1 .. Len(T) : i > Len(S) => i = own
      BY DEF Booted
    <3>2. own \in Nat /\ Len(S) + 1 \in 1 .. Len(T)
      BY <1>1, <1>3
    <3>3. own = Len(S) + 1
      BY <1>1, <3>1, <3>2
    <3>4. ASSUME Len(T) # Len(S) + 1 PROVE FALSE
      <4>1. Len(S) + 2 \in 1 .. Len(T) /\ Len(S) + 2 > Len(S)
        <5>1. \A m, n \in Nat : m + 1 \in 1 .. n /\ n # m + 1 => m + 2 \in 1 .. n /\ m + 2 > m
          OBVIOUS
        <5>2. Len(S) \in Nat /\ Len(T) \in Nat
          BY <1>1
        <5> QED
          BY <3>2, <3>4, <5>1, <5>2
      <4>2. Len(S) + 2 = own
        BY <3>1, <4>1
      <4> QED
        BY <1>1, <3>3, <4>2
    <3> QED
      BY <3>3, <3>4
  <2>2. ASSUME NEW i \in 1 .. Len(T), NEW j \in 1 .. Len(T), T[i].ended = Null,
               T[i].config.portfolio = T[j].config.portfolio
        PROVE  j <= i
    <3>1. CASE T[i].config.portfolio = config.portfolio
      <4>1. i = own
        BY <1>1, <2>2, <3>1 DEF StillOpen, SamePortfolio
      <4> QED
        BY <1>1, <2>1, <4>1
    <3>2. CASE T[i].config.portfolio # config.portfolio
      <4>1. i \in 1 .. Len(S) /\ j \in 1 .. Len(S)
        BY <1>1, <2>1, <2>2, <3>2
      <4>2. T[i] = S[i] /\ S[i].config.portfolio = S[j].config.portfolio
        BY <2>2, <3>2, <4>1 DEF Booted
      <4> QED
        BY <1>1, <2>2, <4>1, <4>2 DEF OpenIsLast
    <3> QED
      BY <3>1, <3>2
  <2>3. OpenIsLast(T)
    BY <1>1, <2>2 DEF OpenIsLast
  <2> QED
    BY <1>1, <2>1, <2>3 DEF SamePortfolio
<1>4. own <= Len(S) \/ own > Len(S)
  <2>1. own \in Nat
    BY <1>1
  <2> QED
    BY <1>1, <2>1
<1> QED
  BY <1>2, <1>3, <1>4

\* The sessions stay in order.
LEMMA OrderKept ==
  ASSUME AInv, SessionsInOrder, [Next]_vars
  PROVE  SessionsInOrder'
<1>1. ASSUME NEW config \in Configs, Boot(config) PROVE SessionsInOrder'
  <2>1. Booted(sessions, sessions', active', config, now') /\ sessions \in Seq(Session)
    BY <1>1, BootIsBooted DEF AInv, TypeOK
  <2>2. /\ OpenIsLast(sessions')
        /\ \A i \in SamePortfolio(sessions', config.portfolio) : i <= active'
    BY <2>1, BootKeepsOrder DEF SessionsInOrder
  <2>3. sessions'[active'].config = config
    BY <2>1 DEF Booted
  <2> QED
    BY <2>2, <2>3 DEF SessionsInOrder
<1>2. CASE Shutdown
  <2>1. /\ sessions \in Seq(Session) /\ active \in 1 .. Len(sessions) /\ active' = active
        /\ sessions' = end_session(sessions, active, now', "graceful")
        /\ now' \in Nat \ {0}
    BY <1>2, ActiveIsOpen DEF Shutdown, Stamps, AInv, TypeOK
  <2>2. Ended(sessions, sessions', active, now', "graceful")
    BY <2>1, EndSession DEF Reasons
  <2>3. /\ DOMAIN sessions = 1 .. Len(sessions) /\ DOMAIN sessions' = 1 .. Len(sessions)
        /\ \A i \in 1 .. Len(sessions) :
             /\ sessions'[i].config = sessions[i].config
             /\ sessions'[i].ended = Null => sessions[i].ended = Null
    BY <2>1, <2>2 DEF Ended, Null
  <2> QED
    BY <2>1, <2>3 DEF SessionsInOrder, OpenIsLast, SamePortfolio
<1>3. ASSUME UNCHANGED <<sessions, active>> PROVE SessionsInOrder'
  BY <1>3 DEF SessionsInOrder, OpenIsLast, SamePortfolio
<1> QED
  BY <1>1, <1>2, <1>3
  DEF Next, BootRefused, Activate, Crash, OrderEntry, FillEntry, ClosePosition, vars

-----------------------------------------------------------------------------
(* The ledger stays balanced *)

\* No trades have no fills.
LEMMA InitLedger == Init => Ledger
  BY FS_EmptySet DEF Init, Ledger

\* What a trade's instants are, and that they are past.
LEMMA TradeTyped ==
  ASSUME AInv, Ledger, NEW p \in trades
  PROVE  /\ p \in Trade /\ now \in Nat
         /\ p.decided \in Nat /\ p.opened \in Nat /\ p.closed \in Nat
         /\ p.status \in {"ordered", "open", "closed"} /\ p.symbol \in Symbols
         /\ InSequence(p, now) /\ \A t \in InstantsOf(p) : t \in Nat /\ t <= now
<1>1. p \in Trade /\ now \in Nat /\ InSequence(p, now)
  BY BoundsAssumption DEF AInv, TypeOK, Ledger
<1>2. /\ p.decided \in Nat /\ p.opened \in Nat /\ p.closed \in Nat
      /\ p.status \in {"ordered", "open", "closed"} /\ p.symbol \in Symbols
  BY <1>1 DEF Trade, Time
<1>3. p.decided <= now /\ p.opened <= now /\ p.closed <= now
  BY <1>1, <1>2 DEF InSequence, Null
<1> QED
  BY <1>1, <1>2, <1>3 DEF InstantsOf

\* The fill of an entry or of a close is at an instant of its trade.
LEMMA FillInstant ==
  ASSUME AInv, Ledger, NEW p \in trades, NEW f, OfEntry(f, p) \/ OfClose(f, p)
  PROVE  f.at \in InstantsOf(p)
<1>1. /\ p.decided \in Nat /\ p.opened \in Nat /\ p.closed \in Nat /\ InSequence(p, now)
      /\ p.status \in {"ordered", "open", "closed"}
  BY TradeTyped
<1>2. CASE OfEntry(f, p)
  <2>1. p.status # "ordered" /\ f.at \in {p.decided, p.opened}
    BY <1>2 DEF OfEntry
  <2>2. p.decided > 0 /\ p.opened > 0
    BY <1>1, <2>1 DEF InSequence
  <2> QED
    BY <1>1, <2>1, <2>2 DEF InstantsOf, Null
<1>3. CASE OfClose(f, p)
  <2>1. p.status = "closed" /\ f.at = p.closed
    BY <1>3 DEF OfClose
  <2>2. p.closed > 0
    BY <1>1, <2>1 DEF InSequence
  <2> QED
    BY <1>1, <2>1, <2>2 DEF InstantsOf, Null
<1> QED
  BY <1>2, <1>3

\* So every fill on file is past, and of one trade.
LEMMA FillTyped ==
  ASSUME AInv, Ledger, NEW f \in fees
  PROVE  /\ f \in Fill /\ f.at \in Nat /\ f.at <= now
         /\ \E p \in trades : OfEntry(f, p) \/ OfClose(f, p)
<1>1. PICK p \in trades : OfEntry(f, p) \/ OfClose(f, p)
  BY DEF Ledger
<1>2. f.at \in InstantsOf(p)
  BY <1>1, FillInstant
<1> QED
  BY <1>1, <1>2, TradeTyped DEF AInv, TypeOK

\* A fill belongs to one trade.
LEMMA OneTradePerFill ==
  ASSUME AInv, Ledger, NEW p \in trades, NEW q \in trades, NEW f,
         OfEntry(f, p) \/ OfClose(f, p), OfEntry(f, q) \/ OfClose(f, q)
  PROVE  p = q
  BY FillInstant DEF Ledger

\* Time alone changes nothing in the ledger.
LEMMA SameLedger ==
  ASSUME AInv, Ledger, UNCHANGED account, now' \in Nat, now <= now'
  PROVE  Ledger'
<1>1. trades' = trades /\ fees' = fees
  BY DEF account
<1>2. ASSUME NEW p \in trades PROVE InSequence(p, now')
  <2>1. /\ p.decided \in Nat /\ p.opened \in Nat /\ p.closed \in Nat /\ now \in Nat
        /\ InSequence(p, now)
    BY TradeTyped
  <2> QED
    BY <2>1 DEF InSequence
<1> QED
  BY <1>1, <1>2 DEF Ledger

\* An entry that was ordered has no fill.
LEMMA OrderEntryLedger ==
  ASSUME AInv, Ledger, NEW s \in Symbols, OrderEntry(s)
  PROVE  Ledger'
<1> DEFINE new == [symbol |-> s, session |-> active, decided |-> now', opened |-> 0,
                   closed |-> 0, status |-> "ordered"]
<1>1. trades' = trades \union {new} /\ fees' = fees
  BY DEF OrderEntry
<1>2. now \in Nat /\ now' = now + 1 /\ now' \in Nat
  BY DEF OrderEntry, Stamps, AInv, TypeOK
<1>3. /\ new.decided = now' /\ new.opened = 0 /\ new.closed = 0 /\ new.status = "ordered"
  OBVIOUS
<1> HIDE DEF new
<1>4. InSequence(new, now') /\ InstantsOf(new) = {now'}
  <2>1. InSequence(new, now')
    BY <1>2, <1>3 DEF InSequence, Null
  <2> QED
    BY <1>2, <1>3, <2>1 DEF InstantsOf, Null
<1>5. ASSUME NEW p \in trades PROVE InSequence(p, now') /\ now' \notin InstantsOf(p)
  <2>1. /\ p.decided \in Nat /\ p.opened \in Nat /\ p.closed \in Nat /\ now \in Nat
        /\ InSequence(p, now) /\ \A t \in InstantsOf(p) : t \in Nat /\ t <= now
    BY TradeTyped
  <2>2. InSequence(p, now')
    BY <1>2, <2>1 DEF InSequence
  <2> QED
    BY <1>2, <2>1, <2>2
<1>6. /\ IsFiniteSet(trades') /\ IsFiniteSet(fees') /\ \A p \in trades' : InSequence(p, now')
  BY <1>1, <1>4, <1>5, FS_AddElement DEF Ledger
<1>7. \A p, q \in trades' : p # q => InstantsOf(p) \cap InstantsOf(q) = {}
  BY <1>1, <1>4, <1>5 DEF Ledger
<1>8. \A f : ~ OfEntry(f, new) /\ ~ OfClose(f, new)
  BY <1>3 DEF OfEntry, OfClose
<1>9. /\ \A f \in fees' : \E p \in trades' : OfEntry(f, p) \/ OfClose(f, p)
      /\ \A p \in trades' : p.status # "ordered" => \E f \in fees' : OfEntry(f, p)
      /\ \A p \in trades' : p.status = "closed" => \E f \in fees' : OfClose(f, p)
      /\ \A p \in trades' : \A f, g \in fees' : OfEntry(f, p) /\ OfEntry(g, p) => f = g
  BY <1>1, <1>3, <1>8 DEF Ledger
<1> QED
  BY <1>6, <1>7, <1>9 DEF Ledger

\* A trade moves on and leaves a fill of its own, at an instant that was its own or is new.
LEMMA MovesOn ==
  ASSUME AInv, Ledger, Stamps, NEW p \in trades, NEW new, NEW f0,
         trades' = (trades \ {p}) \union {new}, fees' = fees \union {f0},
         InSequence(new, now'), InstantsOf(new) = InstantsOf(p) \union {now'},
         new.status # "ordered",
         f0.at \in InstantsOf(p) \union {now'}, OfEntry(f0, new) \/ OfClose(f0, new),
         \A f \in fees : (OfEntry(f, p) => OfEntry(f, new)) /\ (OfClose(f, p) => OfClose(f, new)),
         \E f \in fees' : OfEntry(f, new),
         new.status = "closed" => \E f \in fees' : OfClose(f, new),
         \A f, g \in fees' : OfEntry(f, new) /\ OfEntry(g, new) => f = g
  PROVE  Ledger'
<1>1. now \in Nat /\ now' = now + 1 /\ now' \in Nat
  BY DEF Stamps, AInv, TypeOK
<1>2. ASSUME NEW q \in trades PROVE InSequence(q, now') /\ now' \notin InstantsOf(q)
  <2>1. /\ q.decided \in Nat /\ q.opened \in Nat /\ q.closed \in Nat /\ now \in Nat
        /\ InSequence(q, now) /\ \A t \in InstantsOf(q) : t \in Nat /\ t <= now
    BY TradeTyped
  <2>2. InSequence(q, now')
    BY <1>1, <2>1 DEF InSequence
  <2> QED
    BY <1>1, <2>1, <2>2
<1>3. IsFiniteSet(trades') /\ IsFiniteSet(fees')
  <2>1. IsFiniteSet(trades \ {p})
    BY FS_RemoveElement DEF Ledger
  <2>2. IsFiniteSet((trades \ {p}) \union {new})
    BY <2>1, FS_AddElement
  <2>3. IsFiniteSet(fees \union {f0})
    BY FS_AddElement DEF Ledger
  <2> QED
    BY <2>2, <2>3
<1>4. \A q \in trades' : InSequence(q, now')
  BY <1>2
<1>5. \A q, r \in trades' : q # r => InstantsOf(q) \cap InstantsOf(r) = {}
  <2>1. \A q \in trades \ {p} : InstantsOf(new) \cap InstantsOf(q) = {}
    BY <1>2 DEF Ledger
  <2> QED
    BY <2>1 DEF Ledger
<1>6. \A f \in fees' : \E q \in trades' : OfEntry(f, q) \/ OfClose(f, q)
  BY DEF Ledger
<1>7. ASSUME NEW q \in trades \ {p}
      PROVE  ~ OfEntry(f0, q) /\ ~ OfClose(f0, q)
  <2>1. f0.at \notin InstantsOf(q)
    BY <1>2 DEF Ledger
  <2> QED
    BY <2>1, FillInstant
<1>8. ASSUME NEW q \in trades'
      PROVE  /\ q.status # "ordered" => \E f \in fees' : OfEntry(f, q)
             /\ q.status = "closed" => \E f \in fees' : OfClose(f, q)
             /\ \A f, g \in fees' : OfEntry(f, q) /\ OfEntry(g, q) => f = g
  <2>1. CASE q = new
    BY <2>1
  <2>2. CASE q \in trades \ {p}
    <3>1. \A f \in fees' : OfEntry(f, q) \/ OfClose(f, q) => f \in fees
      BY <1>7, <2>2
    <3> QED
      BY <2>2, <3>1 DEF Ledger
  <2> QED
    BY <2>1, <2>2
<1> QED
  BY <1>3, <1>4, <1>5, <1>6, <1>8 DEF Ledger

\* The fill of an entry is booked with its trade.
LEMMA FillEntryLedger ==
  ASSUME AInv, Ledger, NEW p \in trades, FillEntry(p)
  PROVE  Ledger'
<1> DEFINE new == [p EXCEPT !.status = "open", !.opened = now']
<1>1. /\ Stamps /\ trades' = (trades \ {p}) \union {new} /\ p.status = "ordered"
  BY DEF FillEntry
<1>2. PICK at \in {p.decided, now'} : fees' = fees \union {[symbol |-> p.symbol, at |-> at]}
  BY DEF FillEntry
<1> DEFINE f0 == [symbol |-> p.symbol, at |-> at]
<1>3. /\ p \in Trade /\ now \in Nat /\ p.decided \in Nat /\ p.opened = Null /\ p.closed = Null
      /\ 0 < p.decided /\ p.decided <= now /\ InstantsOf(p) = {p.decided}
  <2>1. p \in Trade /\ now \in Nat /\ p.decided \in Nat /\ InSequence(p, now)
    BY TradeTyped
  <2>2. p.opened = Null /\ p.closed = Null /\ 0 < p.decided /\ p.decided <= now
    BY <1>1, <2>1 DEF InSequence
  <2> QED
    BY <2>1, <2>2 DEF InstantsOf, Null
<1>4. now' = now + 1 /\ now' \in Nat
  BY <1>1, <1>3 DEF Stamps
<1>5. /\ new.decided = p.decided /\ new.opened = now' /\ new.closed = Null
      /\ new.status = "open" /\ new.symbol = p.symbol
  BY <1>3 DEF Trade
<1>6. f0.symbol = p.symbol /\ f0.at = at /\ fees' = fees \union {f0}
  BY <1>2
<1> HIDE DEF new, f0
<1>7. InSequence(new, now')
  BY <1>3, <1>4, <1>5 DEF InSequence
<1>8. InstantsOf(new) = InstantsOf(p) \union {now'}
  BY <1>3, <1>4, <1>5 DEF InstantsOf, Null
<1>9. OfEntry(f0, new)
  BY <1>2, <1>5, <1>6 DEF OfEntry
<1>10. \A f : ~ OfEntry(f, p) /\ ~ OfClose(f, p)
  BY <1>1 DEF OfEntry, OfClose
<1>11. ASSUME NEW f \in fees PROVE ~ OfEntry(f, new)
  <2> SUFFICES ASSUME OfEntry(f, new) PROVE FALSE
    OBVIOUS
  <2>1. f.at \in Nat /\ f.at <= now
    BY FillTyped
  <2>2. f.at = p.decided
    BY <1>3, <1>4, <1>5, <2>1 DEF OfEntry
  <2>3. PICK q \in trades : OfEntry(f, q) \/ OfClose(f, q)
    BY FillTyped
  <2>4. f.at \in InstantsOf(q) /\ f.at \in InstantsOf(p)
    BY <1>3, <2>2, <2>3, FillInstant
  <2>5. q = p
    BY <2>4 DEF Ledger
  <2> QED
    BY <1>10, <2>3, <2>5
<1>12. /\ f0.at \in InstantsOf(p) \union {now'} /\ new.status # "ordered" /\ new.status # "closed"
       /\ \A f, g \in fees' : OfEntry(f, new) /\ OfEntry(g, new) => f = g
  BY <1>2, <1>3, <1>5, <1>6, <1>11
<1> QED
  BY <1>1, <1>6, <1>7, <1>8, <1>9, <1>10, <1>12, MovesOn

\* The fill of a close is booked with its trade.
LEMMA ClosePositionLedger ==
  ASSUME AInv, Ledger, NEW p \in trades, ClosePosition(p)
  PROVE  Ledger'
<1> DEFINE new == [p EXCEPT !.status = "closed", !.closed = now']
           f0 == [symbol |-> p.symbol, at |-> now']
<1>1. /\ Stamps /\ trades' = (trades \ {p}) \union {new} /\ p.status = "open"
      /\ fees' = fees \union {f0}
  BY DEF ClosePosition
<1>2. /\ p \in Trade /\ now \in Nat /\ p.decided \in Nat /\ p.opened \in Nat /\ p.closed = Null
      /\ 0 < p.decided /\ p.decided < p.opened /\ p.opened <= now
      /\ InstantsOf(p) = {p.decided, p.opened}
  <2>1. p \in Trade /\ now \in Nat /\ p.decided \in Nat /\ p.opened \in Nat /\ InSequence(p, now)
    BY TradeTyped
  <2>2. p.closed = Null /\ 0 < p.decided /\ p.decided < p.opened /\ p.opened <= now
    BY <1>1, <2>1 DEF InSequence
  <2> QED
    BY <2>1, <2>2 DEF InstantsOf, Null
<1>3. now' = now + 1 /\ now' \in Nat
  BY <1>1, <1>2 DEF Stamps
<1>4. /\ new.decided = p.decided /\ new.opened = p.opened /\ new.closed = now'
      /\ new.status = "closed" /\ new.symbol = p.symbol
  BY <1>2 DEF Trade
<1>5. f0.symbol = p.symbol /\ f0.at = now'
  OBVIOUS
<1> HIDE DEF new, f0
<1>6. InSequence(new, now')
  BY <1>2, <1>3, <1>4 DEF InSequence
<1>7. InstantsOf(new) = InstantsOf(p) \union {now'}
  BY <1>2, <1>3, <1>4 DEF InstantsOf, Null
<1>8. OfClose(f0, new)
  BY <1>4, <1>5 DEF OfClose
<1>9. \A f : (OfEntry(f, p) <=> OfEntry(f, new)) /\ ~ OfClose(f, p)
  BY <1>1, <1>4 DEF OfEntry, OfClose
<1>10. ~ OfEntry(f0, new)
  BY <1>2, <1>3, <1>4, <1>5 DEF OfEntry
<1>11. /\ \E f \in fees' : OfEntry(f, new)
       /\ \A f, g \in fees' : OfEntry(f, new) /\ OfEntry(g, new) => f = g
  <2>1. \E f \in fees : OfEntry(f, p)
    BY <1>1 DEF Ledger
  <2>2. \A f, g \in fees : OfEntry(f, p) /\ OfEntry(g, p) => f = g
    BY DEF Ledger
  <2> QED
    BY <1>1, <1>9, <1>10, <2>1, <2>2
<1>12. /\ f0.at \in InstantsOf(p) \union {now'} /\ new.status # "ordered"
       /\ \E f \in fees' : OfClose(f, new)
  BY <1>1, <1>4, <1>5, <1>8
<1> QED
  BY <1>1, <1>6, <1>7, <1>8, <1>9, <1>11, <1>12, MovesOn

\* Every step keeps the ledger.
LEMMA LedgerKept ==
  ASSUME AInv, Ledger, [Next]_vars
  PROVE  Ledger'
<1>1. now \in Nat
  BY DEF AInv, TypeOK
<1>2. ASSUME Stamps, UNCHANGED account PROVE Ledger'
  BY <1>1, <1>2, SameLedger DEF Stamps
<1>3. ASSUME UNCHANGED <<now, account>> PROVE Ledger'
  BY <1>1, <1>3, SameLedger
<1>4. ASSUME NEW config \in Configs, Boot(config) \/ BootRefused(config) PROVE Ledger'
  BY <1>2, <1>3, <1>4 DEF Boot, BootRefused
<1>5. ASSUME Activate \/ Shutdown \/ Crash \/ UNCHANGED vars PROVE Ledger'
  BY <1>2, <1>3, <1>5 DEF Activate, Shutdown, Crash, vars
<1>6. ASSUME NEW s \in Symbols, OrderEntry(s) PROVE Ledger'
  BY <1>6, OrderEntryLedger
<1>7. ASSUME NEW p \in trades, FillEntry(p) \/ ClosePosition(p) PROVE Ledger'
  BY <1>7, FillEntryLedger, ClosePositionLedger
<1> QED
  BY <1>4, <1>5, <1>6, <1>7 DEF Next

-----------------------------------------------------------------------------
(* The figures *)

\* The base of the active session, and when it began.
LEMMA BaseTyped ==
  ASSUME AInv, active \in 1 .. Len(sessions)
  PROVE  /\ resolve_accounting_base(sessions, active) \in 1 .. active
         /\ BaseStart \in Nat
<1>1. sessions \in Seq(Session)
  BY DEF AInv, TypeOK
<1>2. resolve_accounting_base(sessions, active) \in 1 .. active
  BY <1>1, AccountingBase, BaseIsOne
<1>3. sessions[resolve_accounting_base(sessions, active)] \in Session
  BY <1>1, <1>2
<1> QED
  BY <1>2, <1>3 DEF BaseStart, Session

\* As many elements as their images under a one-to-one correspondence.
LEMMA Counted ==
  ASSUME NEW C, IsFiniteSet(C), NEW F, NEW h \in [C -> F],
         \A f \in F : \E p \in C : h[p] = f,
         \A p, q \in C : h[p] = h[q] => p = q
  PROVE  IsFiniteSet(F) /\ Cardinality(F) = Cardinality(C)
<1>1. h \in Bijection(C, F)
  BY DEF Bijection, Injection, Surjection, IsInjective
<1>2. ExistsBijection(C, F)
  BY <1>1 DEF ExistsBijection
<1> QED
  BY <1>2, FS_Bijection

\* With every trade closed, and those of the base ordered in it, there are two fills of
\* each trade of the base and no others.
LEMMA TwoFillsEach ==
  ASSUME AInv, Ledger, NEW since \in Nat, NEW S, NEW C,
         C = closed_positions(Symbols, since),
         \A p \in trades : p.status = "closed",
         \A p \in C : p.decided >= since /\ p.symbol \in S
  PROVE  /\ closed_positions(S, since) = C /\ IsFiniteSet(C)
         /\ Cardinality({f \in fees : f.symbol \in S /\ f.at >= since}) = 2 * Cardinality(C)
<1> DEFINE F == {f \in fees : f.symbol \in S /\ f.at >= since}
           Entries == {f \in fees : \E p \in C : OfEntry(f, p)}
           Closes == {f \in fees : \E p \in C : OfClose(f, p)}
<1>1. C \subseteq trades /\ \A p \in trades : p \in C <=> p.closed >= since
  BY TradeTyped DEF closed_positions
<1>2. closed_positions(S, since) = C
  BY <1>1 DEF closed_positions
<1>3. IsFiniteSet(C) /\ Cardinality(C) \in Nat
  BY <1>1, FS_Subset, FS_CardinalityType DEF Ledger
<1>4. ASSUME NEW p \in trades
      PROVE  /\ p.decided \in Nat /\ p.opened \in Nat /\ p.closed \in Nat
             /\ p.decided < p.opened /\ p.opened < p.closed /\ p.status = "closed"
  BY TradeTyped DEF InSequence
<1>5. ASSUME NEW f \in F PROVE f \in Entries \union Closes
  <2>1. PICK p \in trades : OfEntry(f, p) \/ OfClose(f, p)
    BY FillTyped
  <2>2. f.at <= p.closed
    BY <1>4, <2>1 DEF OfEntry, OfClose
  <2>3. p \in C
    BY <1>1, <1>4, <2>2, FillTyped
  <2> QED
    BY <2>1, <2>3
<1>6. ASSUME NEW f \in Entries \union Closes PROVE f \in F
  <2>1. PICK p \in C : OfEntry(f, p) \/ OfClose(f, p)
    OBVIOUS
  <2>2. p \in trades /\ p.decided >= since /\ p.symbol \in S
    BY <1>1
  <2>3. p.decided <= f.at /\ f.symbol = p.symbol
    BY <1>4, <2>1, <2>2 DEF OfEntry, OfClose
  <2>4. f.at >= since
    BY <1>4, <2>2, <2>3, FillTyped
  <2> QED
    BY <2>2, <2>3, <2>4
<1>7. F = Entries \union Closes
  BY <1>5, <1>6
<1>8. Entries \cap Closes = {}
  <2> SUFFICES ASSUME NEW f \in Entries \cap Closes PROVE FALSE
    OBVIOUS
  <2>1. PICK p \in C : OfEntry(f, p)
    OBVIOUS
  <2>2. PICK q \in C : OfClose(f, q)
    OBVIOUS
  <2>3. p = q
    BY <1>1, <2>1, <2>2, OneTradePerFill
  <2>4. f.at \in {p.decided, p.opened} /\ f.at = p.closed
    BY <2>1, <2>2, <2>3 DEF OfEntry, OfClose
  <2> QED
    BY <1>1, <1>4, <2>4
<1>9. IsFiniteSet(Entries) /\ Cardinality(Entries) = Cardinality(C)
  <2> DEFINE h == [p \in C |-> CHOOSE f \in fees : OfEntry(f, p)]
  <2>1. ASSUME NEW p \in C PROVE h[p] \in fees /\ OfEntry(h[p], p)
    <3>1. \E f \in fees : OfEntry(f, p)
      BY <1>1, <1>4 DEF Ledger
    <3> QED
      BY <3>1
  <2>2. h \in [C -> Entries]
    BY <2>1
  <2>3. \A f \in Entries : \E p \in C : h[p] = f
    <3> SUFFICES ASSUME NEW f \in Entries PROVE \E p \in C : h[p] = f
      OBVIOUS
    <3>1. PICK p \in C : OfEntry(f, p)
      OBVIOUS
    <3>2. h[p] = f
      BY <1>1, <2>1, <3>1 DEF Ledger
    <3> QED
      BY <3>2
  <2>4. \A p, q \in C : h[p] = h[q] => p = q
    BY <1>1, <2>1, OneTradePerFill
  <2> HIDE DEF h, Entries
  <2> QED
    BY <1>3, <2>2, <2>3, <2>4, Counted
<1>10. IsFiniteSet(Closes) /\ Cardinality(Closes) = Cardinality(C)
  <2> DEFINE h == [p \in C |-> CHOOSE f \in fees : OfClose(f, p)]
  <2>1. ASSUME NEW p \in C PROVE h[p] \in fees /\ OfClose(h[p], p)
    <3>1. \E f \in fees : OfClose(f, p)
      BY <1>1, <1>4 DEF Ledger
    <3> QED
      BY <3>1
  <2>2. h \in [C -> Closes]
    BY <2>1
  <2>3. \A f \in Closes : \E p \in C : h[p] = f
    <3> SUFFICES ASSUME NEW f \in Closes PROVE \E p \in C : h[p] = f
      OBVIOUS
    <3>1. PICK p \in C : OfClose(f, p)
      OBVIOUS
    <3>2. h[p] \in Fill /\ f \in Fill
      BY <2>1, FillTyped
    <3>3. h[p] = f
      BY <2>1, <3>1, <3>2 DEF OfClose, Fill
    <3> QED
      BY <3>3
  <2>4. \A p, q \in C : h[p] = h[q] => p = q
    BY <1>1, <2>1, OneTradePerFill
  <2> HIDE DEF h, Closes
  <2> QED
    BY <1>3, <2>2, <2>3, <2>4, Counted
<1> HIDE DEF Entries, Closes
<1>11. Cardinality(Entries \union Closes) = Cardinality(C) + Cardinality(C) - 0
  BY <1>8, <1>9, <1>10, FS_Union, FS_EmptySet
<1>12. Cardinality(F) = 2 * Cardinality(C)
  <2> HIDE DEF F
  <2> QED
    BY <1>3, <1>7, <1>11
<1> QED
  BY <1>2, <1>3, <1>12

-----------------------------------------------------------------------------
(* Theorems *)

\* The invariant holds for any settings, sessions left behind, boots and trades.
THEOREM AccountSafe == Spec => []AInv
<1> QED
  BY InitAccount, StepKeeps, PTL DEF Spec

\* The process works under the settings of its session, the only open one of its
\* portfolio (sessions.start_or_resume_session).
THEOREM SnapshotKept == Spec => []RunsUnderItsSnapshot
<1>1. AInv => RunsUnderItsSnapshot
  BY DEF AInv, AccountInv
<1> QED
  BY <1>1, AccountSafe, PTL

\* An open position is managed on the timeframe that it was decided on, unless it was
\* out of sight of the guard (sessions._guard_strategy_timeframe_change).
THEOREM TermsKept == Spec => []KeepsItsTerms
<1>1. AInv => KeepsItsTerms
  <2> SUFFICES ASSUME AInv, NEW p \in open_positions, ~Missed(p)
               PROVE  TimeframeOf(active) = TimeframeOf(p.session)
    BY DEF KeepsItsTerms, TimeframeOf
  <2>1. /\ p \in trades /\ p.status = "open" /\ sessions \in Seq(Session)
        /\ {p.session, active} \subseteq DOMAIN sessions
    BY DEF open_positions, AInv, AccountInv, TypeOK, Terms
  <2>2. ~Gone(p)
    BY <2>1 DEF Missed, Gone
  <2>3. Guarded(p)
    BY <2>1, <2>2 DEF AInv, AccountInv, Terms
  <2>4. sessions[active].ended = Null
    BY <2>1 DEF AInv, AccountInv, Terms, Missed
  <2>5. sessions[active].config.portfolio = sessions[p.session].config.portfolio
    BY DEF Missed
  <2>6. active \in StillOpen(sessions, sessions[p.session].config.portfolio)
    BY <2>1, <2>4, <2>5 DEF StillOpen, SamePortfolio
  <2> QED
    BY <2>3, <2>6 DEF Guarded
<1> QED
  BY <1>1, AccountSafe, PTL

\* Sessions stay in order and the ledger balanced.
THEOREM MoneySafe == Spec => [](AInv /\ MoneyInv)
<1>1. Init => MoneyInv
  BY InitOrder, InitLedger DEF MoneyInv
<1>2. AInv /\ MoneyInv /\ [Next]_vars => MoneyInv'
  BY OrderKept, LedgerKept DEF MoneyInv
<1> QED
  BY <1>1, <1>2, AccountSafe, PTL DEF Spec

\* With no position open, the curve ends at the equity (routes_dashboard: portfolio-summary
\* and equity-curve).
THEOREM CurveMeets == Spec => []CurveMeetsEquity
<1>1. AInv /\ MoneyInv => CurveMeetsEquity
  <2> DEFINE S == SymbolsOf(settings)
             C == closed_positions(Symbols, BaseStart)
             F == {f \in fees : f.symbol \in S /\ f.at >= BaseStart}
             balance == resolve_starting_balance(sessions[active])
  <2> SUFFICES ASSUME AInv, MoneyInv, proc = "up", \A p \in trades : p.status = "closed",
                      \A p \in C : p.decided >= BaseStart /\ p.symbol \in S
               PROVE  Equity(S) = LastPointOfCurve
    BY DEF CurveMeetsEquity
  <2>1. BaseStart \in Nat
    BY ActiveIsOpen, BaseTyped
  <2>2. /\ closed_positions(S, BaseStart) = C /\ IsFiniteSet(C)
        /\ Cardinality(F) = 2 * Cardinality(C)
    BY <2>1, TwoFillsEach DEF MoneyInv
  <2>3. Equity(S) = balance + Pnl * Cardinality(C) - Fee * Cardinality(F)
    BY <2>2 DEF Equity, execution_fees
  <2>4. LastPointOfCurve = balance + (Pnl - 2 * Fee) * Cardinality(C)
    BY DEF LastPointOfCurve
  <2>5. balance \in Int
    <3>1. sessions[active] \in Session
      BY ActiveIsOpen DEF AInv, TypeOK
    <3>2. sessions[active].config.balance \in Nat \union {NoField}
      BY <3>1 DEF Session, Snapshot
    <3> QED
      BY <3>2, FallbackAssumption DEF resolve_starting_balance
  <2>6. Cardinality(C) \in Nat /\ Pnl \in Int /\ Fee \in Int
    BY <2>2, FS_CardinalityType, MoneyAssumption
  <2> HIDE DEF C, F, balance, S
  <2>7. \A n, x, y, b \in Int : b + x * n - y * (2 * n) = b + (x - 2 * y) * n
    OBVIOUS
  <2> QED
    BY <2>2, <2>3, <2>4, <2>5, <2>6, <2>7
<1> QED
  BY <1>1, MoneySafe, PTL

\* A boot that changes neither portfolio nor starting balance leaves the equity alone
\* (sessions.resolve_accounting_base).
THEOREM EquityKept == Spec => RestartKeepsEquity
<1> DEFINE Kept(config) ==
      /\ Boot(config) /\ active # 0
      /\ config.portfolio = sessions[active].config.portfolio
      /\ config.balance = resolve_starting_balance(sessions[active])
      => Equity(SymbolsOf(config))' = Equity(SymbolsOf(config))
<1>1. ASSUME AInv, SessionsInOrder, NEW config \in Configs, Boot(config), active # 0,
             config.portfolio = sessions[active].config.portfolio,
             config.balance = resolve_starting_balance(sessions[active])
      PROVE  Equity(SymbolsOf(config))' = Equity(SymbolsOf(config))
  <2>1. /\ sessions \in Seq(Session) /\ active \in 1 .. Len(sessions)
        /\ DOMAIN sessions = 1 .. Len(sessions) /\ config \in Config
    BY <1>1, ConfigsAssumption DEF AInv, TypeOK
  <2>2. Booted(sessions, sessions', active', config, now')
    BY <1>1, BootIsBooted
  <2>3. /\ OpenIsLast(sessions) /\ trades' = trades /\ fees' = fees
        /\ \A i \in SamePortfolio(sessions, config.portfolio) : i <= active
    BY <1>1 DEF SessionsInOrder, Boot, account
  <2>4. /\ sessions' \in Seq(Session) /\ active' \in 1 .. Len(sessions')
        /\ sessions'[active'].config = config
        /\ \A i \in 1 .. Len(sessions) :
             sessions'[i].config = sessions[i].config /\ sessions'[i].started = sessions[i].started
    BY <2>2 DEF Booted
  <2>5. resolve_starting_balance(sessions'[active']) = resolve_starting_balance(sessions[active])
    BY <1>1, <2>1, <2>4, FallbackAssumption DEF resolve_starting_balance, Config
  <2>6. BaseStart' = BaseStart
    <3>1. CASE active' <= Len(sessions)
      <4>1. sessions' = sessions /\ active' \in StillOpen(sessions, config.portfolio)
        BY <2>2, <3>1 DEF Booted
      <4>2. active' <= active /\ active <= active'
        BY <1>1, <2>1, <2>3, <4>1 DEF OpenIsLast, StillOpen, SamePortfolio
      <4> QED
        BY <2>1, <2>4, <4>1, <4>2 DEF BaseStart
    <3>2. CASE active' > Len(sessions)
      <4>1. active' = Len(sessions') /\ Len(sessions') = Len(sessions) + 1
        BY <2>1, <2>2, <2>3, <3>2, BootKeepsOrder
      <4>2. resolve_accounting_base(sessions', active') = resolve_accounting_base(sessions, active)
        BY <1>1, <2>1, <2>3, <2>4, <2>5, <4>1, BaseStays
      <4>3. resolve_accounting_base(sessions, active) \in 1 .. Len(sessions)
        BY <1>1, <2>1, BaseTyped
      <4> QED
        BY <2>4, <4>2, <4>3 DEF BaseStart
    <3> QED
      BY <2>1, <2>4, <3>1, <3>2
  <2> QED
    BY <2>3, <2>5, <2>6 DEF Equity, closed_positions, execution_fees
<1>2. AInv /\ MoneyInv => [\A config \in Configs : Kept(config)]_vars
  BY <1>1 DEF MoneyInv
<1> QED
  BY <1>2, MoneySafe, PTL DEF RestartKeepsEquity
=============================================================================
