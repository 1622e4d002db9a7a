-------------------------- MODULE RankedQueueProofs --------------------------
(***************************************************************************)
(* What holds of the ranked queue for every set of players, every lease,   *)
(* every lag of a transaction's clock and every number of commands.        *)
(***************************************************************************)
EXTENDS RankedQueue, TLAPS

\* The three invariants are inductive only together: that a match owns both of
\* its players is why ending it clears them, and that no owned player has a row
\* is why a heartbeat gives none back.
QueueInv == TypeOK /\ OneMatchEach /\ NotQueuedWhileOwned

LEMMA NoMatchIsNone == NoMatch \notin Matches
BY SMT DEF NoMatch, Matches

LEMMA PlayersOf == \A m \in Matches : Of(m) \subseteq Players
BY SMT DEF Of, Matches

\* A new lease is never as old as those nobody is seated from, and no row is
\* below them all.
LEMMA Leases ==
  /\ NoRow \in NoRow..Lease /\ NoRow < LongLapsed /\ LongLapsed <= 0
  /\ \A lag \in Lags : NewLease(lag) \in NoRow..Lease /\ NewLease(lag) > LongLapsed
BY LeaseAssumption, MaxLagAssumption DEF NoRow, LongLapsed, Lags, NewLease

LEMMA InitInv == Init => QueueInv
<1>. SUFFICES ASSUME Init PROVE QueueInv
  OBVIOUS
<1>1. TypeOK
  BY Leases DEF Init, TypeOK, PStates, LiveStates, UserCommands
<1>2. OneMatchEach
  BY NoMatchIsNone DEF Init, OneMatchEach
<1>3. NotQueuedWhileOwned
  BY DEF Init, NotQueuedWhileOwned
<1>. QED  BY <1>1, <1>2, <1>3 DEF QueueInv

-----------------------------------------------------------------------------
(* Steps that touch neither the matches nor their owners. *)

LEMMA DrainInv ==
  ASSUME QueueInv, NEW p \in Players, DrainOneUserCommand(p)
  PROVE  QueueInv'
<1>. USE DEF QueueInv
<1>1. /\ lease' \in [Players -> NoRow..Lease]
      /\ pstate' \in [Players -> PStates]
      /\ \A q \in Players : active[q] # NoMatch /\ lease[q] = NoRow => lease'[q] = NoRow
  <2>1. CASE ApplyQueue(p) /\ active[p] # NoMatch
    BY <2>1 DEF ApplyQueue, TypeOK
  <2>4. CASE ApplyQueue(p) /\ active[p] = NoMatch
    <3>1. /\ \E lag \in Lags : lease' = [lease EXCEPT ![p] = NewLease(lag)]
          /\ pstate' = [pstate EXCEPT ![p] = "Queueing"]
      BY <2>4 DEF ApplyQueue
    <3>. QED  BY <2>4, <3>1, Leases DEF TypeOK, PStates
  <2>2. CASE ApplyCancel(p)
    BY <2>2, Leases DEF ApplyCancel, TypeOK, PStates, LiveStates
  <2>3. CASE ApplyHeartbeat(p)
    BY <2>3, Leases DEF ApplyHeartbeat, TypeOK, Queued
  <2>. QED  BY <2>1, <2>2, <2>3, <2>4 DEF DrainOneUserCommand
<1>2. stream' \in [Players -> Seq(UserCommands)]
  BY DEF DrainOneUserCommand, TypeOK
<1>3. UNCHANGED <<active, hint, matchVars, swept, found, gw, sent>>
  BY DEF DrainOneUserCommand
<1>4. TypeOK'
  BY <1>1, <1>2, <1>3 DEF TypeOK, matchVars
<1>5. OneMatchEach'
  BY <1>3 DEF OneMatchEach, matchVars
<1>6. NotQueuedWhileOwned'
  BY <1>1, <1>3 DEF NotQueuedWhileOwned, Queued
<1>. QED  BY <1>4, <1>5, <1>6

\* The steps of the sweep, of the gateway and of the sessions, and admission,
\* change the states of players and what the actors remember, and never add a row.
LEMMA AsideInv ==
  ASSUME QueueInv, TypeOK', UNCHANGED <<active, live>>,
         \A q \in Players : lease[q] = NoRow => lease'[q] = NoRow
  PROVE  QueueInv'
BY DEF QueueInv, OneMatchEach, NotQueuedWhileOwned, Queued

LEMMA AdmitInv ==
  ASSUME QueueInv, NEW p \in Players, NEW cmd \in UserCommands, Admit(p, cmd)
  PROVE  QueueInv'
<1>1. stream' \in [Players -> Seq(UserCommands)] /\ sent' \in Nat
  BY DEF Admit, QueueInv, TypeOK
<1>2. TypeOK'
  BY <1>1 DEF Admit, QueueInv, TypeOK, matchVars
<1>. QED  BY <1>2, AsideInv DEF Admit, matchVars

LEMMA HintInv ==
  ASSUME QueueInv, PairRead \/ PairDone
  PROVE  QueueInv'
<1>1. TypeOK'
  BY DEF PairRead, PairDone, QueueInv, TypeOK, matchVars
<1>. QED  BY <1>1, AsideInv DEF PairRead, PairDone, matchVars

LEMMA SessionInv ==
  ASSUME QueueInv, NEW p \in Players,
         \/ MatchFound(p) \/ SweepReset(p)
         \/ GwConnect(p) \/ GwReadRow(p) \/ GwReadState(p) \/ GwReset(p)
  PROVE  QueueInv'
<1>1. pstate' \in [Players -> PStates]
  BY DEF MatchFound, SweepReset, GwConnect, GwReadRow, GwReadState, GwReset,
         QueueInv, TypeOK, PStates, LiveStates
<1>2. gw' \in [Players -> {"open", "unqueued", "idle", "closed"}]
  BY DEF MatchFound, SweepReset, GwConnect, GwReadRow, GwReadState, GwReset,
         QueueInv, TypeOK
<1>3. swept' \subseteq Players /\ found' \subseteq Players
  BY DEF MatchFound, SweepReset, GwConnect, GwReadRow, GwReadState, GwReset,
         QueueInv, TypeOK
<1>4. UNCHANGED <<active, lease, stream, hint, matchVars, sent>>
  BY DEF MatchFound, SweepReset, GwConnect, GwReadRow, GwReadState, GwReset
<1>5. TypeOK'
  BY <1>1, <1>2, <1>3, <1>4 DEF QueueInv, TypeOK, matchVars
<1>. QED  BY <1>4, <1>5, AsideInv DEF matchVars

LEMMA SweepInv ==
  ASSUME QueueInv, SweepDelete
  PROVE  QueueInv'
<1>1. PICK lag \in Lags : lease' = Set(lease, Lapsed(lag), NoRow) /\ swept' = Lapsed(lag)
  BY DEF SweepDelete
<1>2. /\ lease' \in [Players -> NoRow..Lease]
      /\ \A p \in Players : lease'[p] = IF p \in Lapsed(lag) THEN NoRow ELSE lease[p]
  BY <1>1, Leases DEF Set, QueueInv, TypeOK
<1>3. TypeOK'
  BY <1>1, <1>2 DEF SweepDelete, Lapsed, QueueInv, TypeOK, matchVars
<1>. QED  BY <1>2, <1>3, AsideInv DEF SweepDelete, matchVars

LEMMA TickInv ==
  ASSUME QueueInv, Tick
  PROVE  QueueInv'
<1>1. /\ lease' \in [Players -> NoRow..Lease]
      /\ \A p \in Players : lease[p] = NoRow => lease'[p] = NoRow
  BY LeaseAssumption, MaxLagAssumption DEF Tick, QueueInv, TypeOK, NoRow, LongLapsed
<1>2. TypeOK'
  BY <1>1 DEF Tick, QueueInv, TypeOK, matchVars
<1>. QED  BY <1>1, <1>2, AsideInv DEF Tick, matchVars

-----------------------------------------------------------------------------
(* Steps of matches. *)

\* A pair is made of two players no match owns, so of no player of a live match.
LEMMA PairInv ==
  ASSUME QueueInv, NEW m \in Matches, PairClaim(m)
  PROVE  QueueInv'
<1>. USE DEF QueueInv
<1>1. Of(m) \subseteq Players
  BY PlayersOf
<1>2. \A p \in Of(m) : active[p] = NoMatch
  BY DEF PairClaim
<1>3. /\ active' \in [Players -> Matches \cup {NoMatch}]
      /\ \A p \in Players : active'[p] = IF p \in Of(m) THEN m ELSE active[p]
  BY DEF Set, PairClaim, Pair, TypeOK
<1>4. /\ lease' \in [Players -> NoRow..Lease]
      /\ \A p \in Players : lease'[p] = IF p \in Of(m) THEN NoRow ELSE lease[p]
  BY Leases DEF Set, PairClaim, Pair, TypeOK
<1>5. pstate' \in [Players -> PStates]
  <2>1. "MatchAccepted" \in PStates
    BY DEF PStates, LiveStates
  <2>. QED  BY <2>1 DEF Set, PairClaim, Pair, TypeOK
<1>6. /\ live' = live \cup {m}
      /\ accepted' = accepted \ Of(m)
      /\ found' \subseteq found \cup Of(m)
      /\ UNCHANGED <<stream, hint, playing, swept, gw, sent>>
  BY DEF PairClaim, Pair
<1>7. TypeOK'
  BY <1>1, <1>3, <1>4, <1>5, <1>6 DEF TypeOK
<1>8. OneMatchEach'
  <2>1. ASSUME NEW n \in live', NEW p \in Of(n)
        PROVE  active'[p] = n
    <3>1. p \in Players
      BY <2>1, <1>6, PlayersOf DEF TypeOK
    <3>2. CASE n = m
      BY <2>1, <3>1, <3>2, <1>3
    <3>3. CASE n # m
      <4>1. n \in live /\ n \in Matches /\ active[p] = n
        BY <2>1, <3>3, <1>6 DEF TypeOK, OneMatchEach
      <4>. QED  BY <4>1, <3>1, <1>2, <1>3, NoMatchIsNone
    <3>. QED  BY <3>2, <3>3
  <2>2. ASSUME NEW p \in Players, active'[p] # NoMatch
        PROVE  active'[p] \in live' /\ p \in Of(active'[p])
    BY <2>2, <1>3, <1>6 DEF OneMatchEach
  <2>. QED  BY <2>1, <2>2 DEF OneMatchEach
<1>9. NotQueuedWhileOwned'
  BY <1>3, <1>4 DEF NotQueuedWhileOwned, Queued
<1>. QED  BY <1>7, <1>8, <1>9

\* The end of a live match lets its two players go, and no others.
LEMMA EndInv ==
  ASSUME QueueInv, NEW m \in live, NEW back \in SUBSET Of(m), End(m, back), sent' \in Nat
  PROVE  QueueInv'
<1>. USE DEF QueueInv
<1>1. m \in Matches /\ Of(m) \subseteq Players /\ m # NoMatch
  BY PlayersOf, NoMatchIsNone DEF TypeOK
<1>2. \A p \in Of(m) : active[p] = m
  BY DEF OneMatchEach
<1>3. /\ active' \in [Players -> Matches \cup {NoMatch}]
      /\ \A p \in Players : active'[p] = IF active[p] = m THEN NoMatch ELSE active[p]
  BY DEF End, TypeOK
<1>4. /\ lease' \in [Players -> NoRow..Lease]
      /\ \A p \in Players : p \notin back => lease'[p] = lease[p]
  <2>1. PICK lag \in Lags : lease' = Set(lease, back, NewLease(lag))
    BY DEF End
  <2>. QED  BY <2>1, Leases DEF Set, TypeOK
<1>5. pstate' \in [Players -> PStates]
  BY DEF End, TypeOK, PStates
<1>6. /\ live' = live \ {m} /\ playing' = playing \ {m}
      /\ accepted' = accepted \ Of(m)
      /\ UNCHANGED <<stream, hint, swept, found, gw>>
  BY DEF End
<1>7. TypeOK'
  BY <1>3, <1>4, <1>5, <1>6 DEF TypeOK
<1>8. OneMatchEach'
  <2>1. ASSUME NEW n \in live', NEW p \in Of(n)
        PROVE  active'[p] = n
    <3>1. n \in live /\ n # m /\ p \in Players /\ active[p] = n
      BY <2>1, <1>6, PlayersOf DEF TypeOK, OneMatchEach
    <3>. QED  BY <3>1, <1>3
  <2>2. ASSUME NEW p \in Players, active'[p] # NoMatch
        PROVE  active'[p] \in live' /\ p \in Of(active'[p])
    BY <2>2, <1>3, <1>6 DEF OneMatchEach
  <2>. QED  BY <2>1, <2>2 DEF OneMatchEach
<1>9. NotQueuedWhileOwned'
  <2>. SUFFICES ASSUME NEW p \in Players, active'[p] # NoMatch
                PROVE  lease'[p] = NoRow
    BY DEF NotQueuedWhileOwned, Queued
  <2>1. active[p] # NoMatch /\ active[p] # m
    BY <1>3
  <2>2. p \notin back
    BY <1>2, <2>1
  <2>3. lease[p] = NoRow
    BY <2>1 DEF NotQueuedWhileOwned, Queued
  <2>. QED  BY <1>4, <2>2, <2>3
<1>. QED  BY <1>7, <1>8, <1>9

LEMMA AcceptInv ==
  ASSUME QueueInv, NEW p \in Players, Accept(p)
  PROVE  QueueInv'
<1>1. TypeOK'
  BY DEF Accept, QueueInv, TypeOK
<1>. QED  BY <1>1, AsideInv DEF Accept

LEMMA DeclineInv ==
  ASSUME QueueInv, NEW p \in Players, Decline(p)
  PROVE  QueueInv'
<1>1. active[p] \in live /\ sent' \in Nat /\ End(active[p], Of(active[p]) \ {p})
  BY DEF Decline, QueueInv, TypeOK
<1>. QED  BY <1>1, EndInv

LEMMA MatchInv ==
  ASSUME QueueInv, NEW m \in Matches, StartPlaying(m) \/ ExpireBarrier(m) \/ Finalize(m)
  PROVE  QueueInv'
<1>1. CASE StartPlaying(m)
  <2>1. "InMatch" \in PStates
    BY DEF PStates, LiveStates
  <2>2. pstate' \in [Players -> PStates]
    BY <1>1, <2>1 DEF Set, StartPlaying, QueueInv, TypeOK
  <2>3. TypeOK'
    BY <1>1, <2>2 DEF StartPlaying, QueueInv, TypeOK
  <2>. QED  BY <1>1, <2>3, AsideInv DEF StartPlaying
<1>2. CASE ExpireBarrier(m)
  <2>1. PICK back \in SUBSET Of(m) : End(m, back)
    BY <1>2 DEF ExpireBarrier
  <2>2. m \in live /\ sent' \in Nat
    BY <1>2 DEF ExpireBarrier, QueueInv, TypeOK
  <2>. QED  BY <2>1, <2>2, EndInv
<1>3. CASE Finalize(m)
  <2>1. m \in live /\ sent' \in Nat /\ End(m, {}) /\ {} \in SUBSET Of(m)
    BY <1>3 DEF Finalize, QueueInv, TypeOK
  <2>. QED  BY <2>1, EndInv
<1>. QED  BY <1>1, <1>2, <1>3

-----------------------------------------------------------------------------
(* The theorems. *)

LEMMA NextInv ==
  ASSUME QueueInv, [Next]_vars
  PROVE  QueueInv'
<1>1. ASSUME NEW p \in Players, PlayerStep(p)
      PROVE  QueueInv'
  BY <1>1, AdmitInv, DrainInv, AcceptInv, DeclineInv, SessionInv DEF PlayerStep
<1>2. ASSUME NEW m \in Matches, MatchStep(m)
      PROVE  QueueInv'
  BY <1>2, PairInv, MatchInv DEF MatchStep
<1>3. CASE UNCHANGED vars
  BY <1>3 DEF vars, matchVars, QueueInv, TypeOK, OneMatchEach, NotQueuedWhileOwned, Queued
<1>. QED  BY <1>1, <1>2, <1>3, HintInv, SweepInv, TickInv DEF Next

LEMMA QueueCorrect == Spec => []QueueInv
BY InitInv, NextInv, PTL DEF Spec

\* Every column holds a value of its type, whatever interleaves.
THEOREM QueueTypeCorrect == Spec => []TypeOK
BY QueueCorrect, PTL DEF QueueInv

\* No player is ever in two matches, for any number of players and any overlap
\* of pairing attempts with stale candidates.
THEOREM OneMatchCorrect == Spec => []OneMatchEach
BY QueueCorrect, PTL DEF QueueInv

\* No player waits in the queue while a match owns him.
THEOREM NotQueuedCorrect == Spec => []NotQueuedWhileOwned
BY QueueCorrect, PTL DEF QueueInv

\* What runs by one clock runs by that of a transaction that began earlier.
LEMMA RunningLonger ==
  ASSUME QueueInv, NEW p \in Players, NEW lag \in Lags, Running(p, lag)
  PROVE  Running(p, MaxLag)
BY LeaseAssumption, MaxLagAssumption
   DEF Running, Lags, QueueInv, TypeOK, NoRow, LongLapsed

\* A step that makes a match finds its two players waiting, and
\* their leases running at some moment the claim may have begun.
LEMMA PairStep ==
  ASSUME QueueInv, [Next]_vars, NEW m \in live' \ live, NEW p \in Of(m)
  PROVE  Running(p, MaxLag)
<1>1. ASSUME NEW n \in Matches, PairClaim(n)
      PROVE  Running(p, MaxLag)
  <2>1. n = m
    BY <1>1 DEF PairClaim, Pair
  <2>2. PICK lag \in Lags : \A q \in Of(m) : Running(q, lag)
    BY <1>1, <2>1 DEF PairClaim
  <2>. QED  BY <2>1, <2>2, RunningLonger, PlayersOf
<1>2. ASSUME live' \subseteq live
      PROVE  FALSE
  BY <1>2
<1>3. ASSUME NEW q \in Players, PlayerStep(q)
      PROVE  live' \subseteq live
  BY <1>3 DEF PlayerStep, Admit, DrainOneUserCommand, Accept, Decline, End, MatchFound,
              SweepReset, GwConnect, GwReadRow, GwReadState, GwReset, matchVars
<1>4. ASSUME NEW n \in Matches, StartPlaying(n) \/ ExpireBarrier(n) \/ Finalize(n)
      PROVE  live' \subseteq live
  BY <1>4 DEF StartPlaying, ExpireBarrier, Finalize, End
<1>5. CASE PairRead \/ PairDone \/ SweepDelete \/ Tick \/ UNCHANGED vars
  BY <1>5 DEF PairRead, PairDone, SweepDelete, Tick, vars, matchVars
<1>. QED  BY <1>1, <1>2, <1>3, <1>4, <1>5 DEF Next, MatchStep

\* A match is made only of players who are in the queue when it is made, under
\* leases that ran at some moment its transaction may have begun.
THEOREM PairsWaitingCorrect == Spec => PairsOnlyWaiting
<1>1. QueueInv /\ [Next]_vars
        => [\A m \in live' \ live : \A p \in Of(m) : Running(p, MaxLag)]_vars
  BY PairStep
<1>. QED  BY <1>1, QueueCorrect, PTL DEF Spec, PairsOnlyWaiting

-----------------------------------------------------------------------------
(* The queue implements the lobby. *)

\* What kind of place a lease is.
Kind(l) == IF l = NoRow THEN "none"
           ELSE IF l > 0 THEN "kept"
           ELSE IF l > LongLapsed THEN "lapsed" ELSE "lost"

LEMMA KindsOfPlaces ==
  ASSUME QueueInv, QueueInv'
  PROVE  /\ Places = [p \in Players |-> Kind(lease[p])]
         /\ Places' = [p \in Players |-> Kind(lease'[p])]
<1>1. \A p \in Players : lease[p] \in Int /\ lease'[p] \in Int
  BY Leases, LeaseAssumption, MaxLagAssumption DEF QueueInv, TypeOK, NoRow, LongLapsed
<1>2. \A l \in Int : l > -0 <=> l > 0
  OBVIOUS
<1>. QED  BY <1>1, <1>2 DEF Places, Kind, Running, Queued, LongLapsed

\* New leases are places of one kind, not lost; without their rows players have none.
LEMMA Given ==
  ASSUME QueueInv, QueueInv', NEW S \in SUBSET Players
  PROVE  /\ \A lag \in Lags : lease' = Set(lease, S, NewLease(lag))
                => \E kind \in AsLobby!Good : AsLobby!Give(S, kind)
         /\ lease' = Set(lease, S, NoRow) => AsLobby!Give(S, "none")
<1>1. ASSUME NEW lag \in Lags, lease' = Set(lease, S, NewLease(lag))
      PROVE  \E kind \in AsLobby!Good : AsLobby!Give(S, kind)
  <2>1. Kind(NewLease(lag)) \in AsLobby!Good
    BY LeaseAssumption, MaxLagAssumption
       DEF Kind, AsLobby!Good, NewLease, Lags, NoRow, LongLapsed
  <2>2. AsLobby!Give(S, Kind(NewLease(lag)))
    BY <1>1, KindsOfPlaces DEF AsLobby!Give, Set
  <2>. QED  BY <2>1, <2>2
<1>2. ASSUME lease' = Set(lease, S, NoRow)
      PROVE  AsLobby!Give(S, "none")
  BY <1>2, KindsOfPlaces DEF AsLobby!Give, Set, Kind
<1>. QED  BY <1>1, <1>2

\* Whoever no match owns sits at no table, and a live match is a table for two.
LEMMA Tables ==
  ASSUME QueueInv
  PROVE  /\ \A p \in Players : AsLobby!Free(p) <=> active[p] = NoMatch
         /\ \A m \in live : \A p \in Of(m) : Company[p] = Of(m)
<1>1. \A m \in Matches : Of(m) # {}
  BY DEF Of
<1>2. \A p \in Players : active[p] # NoMatch => active[p] \in Matches
  BY DEF QueueInv, TypeOK
<1>3. \A p \in Players : AsLobby!Free(p) <=> active[p] = NoMatch
  BY <1>1, <1>2 DEF AsLobby!Free, Company
<1>4. \A m \in live : \A p \in Of(m) : Company[p] = Of(m)
  BY PlayersOf, NoMatchIsNone DEF QueueInv, TypeOK, OneMatchEach, Company
<1>. QED  BY <1>3, <1>4

LEMMA InitLobby == Init => AsLobby!Init
BY DEF Init, AsLobby!Init, Places, Queued, Company

\* The commands of a player come, stay and go in the lobby, or are refused.
LEMMA DrainLobby ==
  ASSUME QueueInv, QueueInv', NEW p \in Players, DrainOneUserCommand(p)
  PROVE  \/ AsLobby!Enter(p)
         \/ AsLobby!Leave(p)
         \/ UNCHANGED <<Places, Company>>
<1>1. UNCHANGED Company
  BY DEF DrainOneUserCommand, Company
<1>2. lease \in [Players -> NoRow..Lease]
  BY DEF QueueInv, TypeOK
<1>3. ASSUME NEW lag \in Lags, lease' = [lease EXCEPT ![p] = NewLease(lag)],
             active[p] = NoMatch
      PROVE  AsLobby!Enter(p)
  <2>1. lease' = Set(lease, {p}, NewLease(lag))
    BY <1>2, <1>3 DEF Set
  <2>. QED  BY <1>1, <1>3, <2>1, Given, Tables DEF AsLobby!Enter
<1>4. CASE ApplyCancel(p)
  <2>1. lease' = Set(lease, {p}, NoRow)
    BY <1>2, <1>4 DEF ApplyCancel, Set
  <2>. QED  BY <1>1, <2>1, Given DEF AsLobby!Leave
<1>5. CASE UNCHANGED lease
  BY <1>1, <1>5 DEF Places, Queued, Running
<1>6. ApplyHeartbeat(p) /\ ~UNCHANGED lease
        => /\ \E lag \in Lags : lease' = [lease EXCEPT ![p] = NewLease(lag)]
           /\ active[p] = NoMatch
  BY DEF ApplyHeartbeat, QueueInv, NotQueuedWhileOwned
<1>7. ApplyQueue(p) /\ ~UNCHANGED lease
        => /\ \E lag \in Lags : lease' = [lease EXCEPT ![p] = NewLease(lag)]
           /\ active[p] = NoMatch
  BY DEF ApplyQueue
<1>. QED  BY <1>3, <1>4, <1>5, <1>6, <1>7 DEF DrainOneUserCommand

\* Two players who have places that are not lost are seated together.
LEMMA PairLobby ==
  ASSUME QueueInv, QueueInv', NEW m \in Matches, PairClaim(m)
  PROVE  AsLobby!Pair(m[1], m[2])
<1>1. m[1] \in Players /\ m[2] \in Players /\ m[1] # m[2] /\ m # NoMatch
  BY NoMatchIsNone DEF Matches
<1>2. \A p \in Of(m) : p \in Players /\ Running(p, MaxLag) /\ AsLobby!Free(p)
  BY <1>1, Tables, RunningLonger DEF PairClaim, Of
<1>3. /\ lease' = Set(lease, Of(m), NoRow)
      /\ active' = Set(active, Of(m), m)
  BY DEF PairClaim, Pair
<1>4. \A p \in Of(m) : Places[p] \in AsLobby!Good
  BY <1>2 DEF Places, Running, AsLobby!Good
<1>5. AsLobby!Give(Of(m), "none")
  BY <1>3, Given, PlayersOf
<1>6. Company' = [p \in Players |-> IF p \in Of(m) THEN Of(m) ELSE Company[p]]
  BY <1>1, <1>3 DEF Company, Set
<1>. QED  BY <1>1, <1>2, <1>4, <1>5, <1>6 DEF AsLobby!Pair, AsLobby!Seat, Of

\* The players of a live match rise together, and those put back wait again.
LEMMA EndLobby ==
  ASSUME QueueInv, QueueInv', NEW m \in live, NEW back \in SUBSET Of(m), End(m, back)
  PROVE  \E p \in Players : AsLobby!Rise(p, back)
<1>1. m \in Matches /\ Of(m) \subseteq Players /\ m[1] \in Of(m) /\ m # NoMatch
  BY PlayersOf, NoMatchIsNone DEF QueueInv, TypeOK, Of
<1>2. \A p \in Players : active[p] = m <=> p \in Of(m)
  BY <1>1 DEF QueueInv, OneMatchEach
<1>3. Company[m[1]] = Of(m) /\ ~AsLobby!Free(m[1])
  BY <1>1, <1>2, Tables
<1>4. \E kind \in AsLobby!Good : AsLobby!Give(back, kind)
  BY <1>1, Given DEF End
<1>5. Company' = [p \in Players |-> IF p \in Of(m) THEN {} ELSE Company[p]]
  BY <1>2 DEF End, Company
<1>. QED  BY <1>1, <1>3, <1>4, <1>5 DEF AsLobby!Rise, AsLobby!Seat

\* Time makes places worse and brings no one one.
LEMMA TickLobby ==
  ASSUME QueueInv, QueueInv', Tick
  PROVE  AsLobby!Age
<1>. DEFINE later == [p \in Players |-> Kind(lease'[p])]
<1>0. lease \in [Players -> NoRow..Lease] /\ Lease \in Nat /\ MaxLag \in Nat
  BY LeaseAssumption, MaxLagAssumption DEF QueueInv, TypeOK
<1>1. later \in [Players -> {"none", "kept", "lapsed", "lost"}]
  BY DEF Kind
<1>2. ASSUME NEW p \in Players
      PROVE  \/ later[p] = Places[p]
             \/ Places[p] \in AsLobby!Good /\ later[p] = "lost"
             \/ Places[p] = "kept" /\ later[p] = "lapsed"
  <2>1. lease'[p] = IF lease[p] > LongLapsed THEN lease[p] - 1 ELSE lease[p]
    BY DEF Tick
  <2>2. lease[p] \in Int /\ lease[p] >= NoRow
    BY <1>0 DEF NoRow, LongLapsed
  <2>3. Places[p] = Kind(lease[p]) /\ later[p] = Kind(lease'[p])
    BY KindsOfPlaces
  <2>. QED  BY <1>0, <2>1, <2>2, <2>3 DEF Kind, AsLobby!Good, NoRow, LongLapsed
<1>3. Places' = later /\ UNCHANGED Company
  BY KindsOfPlaces DEF Tick, Company
<1>. QED  BY <1>1, <1>2, <1>3 DEF AsLobby!Age

\* The sweep sends away all who lost their place and only who let it lapse.
LEMMA SweepLobby ==
  ASSUME QueueInv, QueueInv', SweepDelete
  PROVE  AsLobby!Sweep
<1>1. PICK lag \in Lags : lease' = Set(lease, Lapsed(lag), NoRow)
  BY DEF SweepDelete
<1>2. Lapsed(lag) \in SUBSET Players
  BY DEF Lapsed
<1>3. AsLobby!Give(Lapsed(lag), "none")
  BY <1>1, <1>2, Given
<1>4. lease \in [Players -> NoRow..Lease] /\ Lease \in Nat /\ MaxLag \in Nat
  BY LeaseAssumption, MaxLagAssumption DEF QueueInv, TypeOK
<1>5. ASSUME NEW p \in Lapsed(lag)
      PROVE  Places[p] \in {"lapsed", "lost"}
  <2>1. p \in Players /\ Queued(p) /\ ~Running(p, lag) /\ lease[p] \in Int
    BY <1>4 DEF Lapsed, NoRow, LongLapsed
  <2>2. ~Running(p, 0)
    BY <2>1 DEF Running, Lags
  <2>. QED  BY <2>1, <2>2 DEF Places
<1>6. ASSUME NEW p \in Players, Places[p] = "lost"
      PROVE  p \in Lapsed(lag)
  <2>1. Queued(p) /\ ~Running(p, MaxLag)
    BY <1>6 DEF Places
  <2>2. ~Running(p, lag)
    BY <2>1, RunningLonger
  <2>. QED  BY <2>1, <2>2 DEF Lapsed, QueueInv, NotQueuedWhileOwned
<1>7. UNCHANGED Company
  BY DEF SweepDelete, Company
<1>. QED  BY <1>2, <1>3, <1>5, <1>6, <1>7 DEF AsLobby!Sweep

LEMMA StepLobby ==
  ASSUME QueueInv, [Next]_vars
  PROVE  [AsLobby!Next]_<<Places, Company>>
<1>. DEFINE Stays == UNCHANGED <<Places, Company>>
<1>i. QueueInv'
  BY NextInv
<1>0. lease' = lease /\ active' = active => Stays
  BY DEF Places, Queued, Running, Company
<1>1. ASSUME NEW m \in live, NEW back \in SUBSET Of(m), End(m, back)
      PROVE  AsLobby!Next
  <2>1. back \in SUBSET Players
    BY PlayersOf DEF QueueInv, TypeOK
  <2>. QED  BY <1>i, <1>1, <2>1, EndLobby DEF AsLobby!Next
<1>2. ASSUME NEW p \in Players, PlayerStep(p)
      PROVE  AsLobby!Next \/ Stays
  <2>1. CASE DrainOneUserCommand(p)
    BY <1>i, <2>1, DrainLobby DEF AsLobby!Next
  <2>2. CASE Decline(p)
    BY <2>2, <1>1 DEF Decline
  <2>3. CASE ~DrainOneUserCommand(p) /\ ~Decline(p)
    BY <1>0, <1>2, <2>3
       DEF PlayerStep, Admit, Accept, MatchFound, SweepReset, GwConnect,
           GwReadRow, GwReadState, GwReset
  <2>. QED  BY <2>1, <2>2, <2>3
<1>3. ASSUME NEW m \in Matches, MatchStep(m)
      PROVE  AsLobby!Next \/ Stays
  <2>1. CASE PairClaim(m)
    <3>1. m[1] \in Players /\ m[2] \in Players
      BY DEF Matches
    <3>. QED  BY <1>i, <2>1, <3>1, PairLobby DEF AsLobby!Next
  <2>2. CASE StartPlaying(m)
    BY <1>0, <2>2 DEF StartPlaying
  <2>3. CASE ExpireBarrier(m)
    BY <1>1, <2>3 DEF ExpireBarrier
  <2>4. CASE Finalize(m)
    BY <1>1, <2>4 DEF Finalize, QueueInv, TypeOK
  <2>. QED  BY <1>3, <2>1, <2>2, <2>3, <2>4 DEF MatchStep
<1>4. CASE PairRead \/ PairDone \/ UNCHANGED vars
  BY <1>0, <1>4 DEF PairRead, PairDone, vars
<1>5. CASE SweepDelete \/ Tick
  BY <1>i, <1>5, TickLobby, SweepLobby DEF AsLobby!Next
<1>. QED  BY <1>2, <1>3, <1>4, <1>5 DEF Next

\* The queue implements the lobby: for any players, however stale the candidates
\* of the pairing attempts, late the commands, signals and resets and old the
\* clocks of the transactions, players are seated out of the waiting room two at
\* a time, rise together, and lose their place only by leaving, being seated or
\* letting it lapse; a place lapsed for longer than MaxLag seats nobody.
THEOREM KeepsLobbyCorrect == Spec => KeepsLobby
<1>1. QueueInv /\ [Next]_vars => [AsLobby!Next]_<<Places, Company>>
  BY StepLobby
<1>. QED  BY <1>1, InitLobby, QueueCorrect, PTL DEF Spec, KeepsLobby, AsLobby!Spec

=============================================================================
