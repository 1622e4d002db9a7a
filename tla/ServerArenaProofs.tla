-------------------------- MODULE ServerArenaProofs --------------------------
(***************************************************************************)
(* What holds of a match played on a game server for every number of       *)
(* connections, callbacks and faults.                                      *)
(***************************************************************************)
EXTENDS ServerArena, TLAPS

\* What both have accepted stays accepted, so it is enough that whoever may still
\* move the match on has seen it; and a server, once there, is never taken away,
\* so that a callback that has seen Playing may rate whatever the status is by then.
Witnesses ==
  /\ \A c \in Connections : accepting[c] = "both" => accepted = Players
  /\ (tick \notin {"idle", "after", "expire"} \/ asked) => accepted = Players
  /\ \A c \in Callbacks : callback[c] \notin {"new", "done"} => server
  /\ status = "Playing" => server

ArenaInv == TypeOK /\ StartsWhenBothAccepted /\ RatedOnce /\ Witnesses

LEMMA InitInv == Init => ArenaInv
<1>. SUFFICES ASSUME Init PROVE ArenaInv
  OBVIOUS
<1>1. /\ accepting \in [Connections -> AcceptStages]
      /\ callback \in [Callbacks -> CallbackStages]
      /\ pstate \in [Players -> {"Queueing", "InMenus"}]
  BY DEF Init, AcceptStages, CallbackStages
<1>3. {server, allocDue, resultDue, listDue, asked} \subseteq BOOLEAN
  BY DEF Init
<1>4. TypeOK
  BY <1>1, <1>3, FaultsAssumption DEF Init, TypeOK, Statuses, TickStages
<1>2. StartsWhenBothAccepted /\ RatedOnce /\ Witnesses
  BY DEF Init, StartsWhenBothAccepted, RatedOnce, Witnesses
<1>. QED  BY <1>2, <1>4 DEF ArenaInv

-----------------------------------------------------------------------------
(* accept_match *)

LEMMA AcceptInv ==
  ASSUME ArenaInv, NEW c \in Connections, AcceptRead(c) \/ AcceptGoesOn(c)
  PROVE  ArenaInv'
<1>. USE DEF ArenaInv, AcceptRead, AcceptGoesOn, MarkAccepted, AcceptCount, AcceptStart,
             Accepting, tickVars
<1>1. c[1] \in Players
  BY DEF Connections
<1>2. /\ accepted' \subseteq Players /\ accepted \subseteq accepted'
      /\ accepting' \in [Connections -> AcceptStages]
      /\ UNCHANGED <<server, rated, callback, tick, asked>>
  BY <1>1 DEF TypeOK, AcceptStages
<1>3. TypeOK'
  BY <1>2 DEF TypeOK, Statuses
<1>4. /\ status' = status \/ (status' = "InProgress" /\ accepted' = Players)
      /\ \A d \in Connections : accepting'[d] = "both" =>
           accepting[d] = "both" \/ accepted' = Players
  BY DEF Witnesses, TypeOK
<1>5. accepted = Players => accepted' = Players
  BY <1>2
<1>6. StartsWhenBothAccepted' /\ RatedOnce'
  BY <1>2, <1>4, <1>5 DEF StartsWhenBothAccepted, RatedOnce
<1>7. Witnesses'
  BY <1>2, <1>4, <1>5 DEF Witnesses
<1>. QED  BY <1>3, <1>6, <1>7

-----------------------------------------------------------------------------
(* game_result *)

LEMMA CallbackInv ==
  ASSUME ArenaInv, NEW c \in Callbacks, ResultRead(c) \/ GameResult(c) \/ ResultDropped(c)
  PROVE  ArenaInv'
<1>. USE DEF ArenaInv, ResultRead, GameResult, ResolveMatch, ResultFree, ResultDropped,
             Answering, SetInMenus, tickVars
<1>1. /\ UNCHANGED <<accepted, server, allocDue, resultDue, accepting, tick, listDue, asked>>
      /\ callback' \in [Callbacks -> CallbackStages]
      /\ pstate' \in [Players -> {"Queueing", "InMenus"}]
      /\ faults' \in 0 .. MaxFaults
      /\ status' \in {status, "Resolved"} /\ rated' \in {rated, 1}
  BY FaultsAssumption DEF TypeOK, CallbackStages, matchVars
<1>2. TypeOK'
  BY <1>1 DEF TypeOK, Statuses
<1>3. \A d \in Callbacks : callback'[d] \notin {"new", "done"} => server
  BY DEF Witnesses, TypeOK
<1>4. status' # status \/ rated' # rated => server
  BY DEF Witnesses, matchVars
<1>5. server => accepted = Players
  BY DEF StartsWhenBothAccepted
<1>6. StartsWhenBothAccepted' /\ RatedOnce'
  BY <1>1, <1>4, <1>5 DEF StartsWhenBothAccepted, RatedOnce, TypeOK
<1>7. Witnesses'
  BY <1>1, <1>3, <1>4 DEF Witnesses
<1>. QED  BY <1>2, <1>6, <1>7

-----------------------------------------------------------------------------
(* The ticker, the clock and the crash *)

LEMMA TickInv ==
  ASSUME ArenaInv, Tick \/ AnswerRead
  PROVE  ArenaInv'
<1>. USE DEF ArenaInv, Ticking, SetInMenus
<1>. DEFINE Kept == UNCHANGED <<accepted, allocDue, rated, accepting, callback, faults>>
<1>. SUFFICES /\ Kept
              /\ tick' \in TickStages /\ pstate' \in [Players -> {"Queueing", "InMenus"}]
              /\ {listDue', asked', server', resultDue'} \subseteq BOOLEAN
              /\ server => server'
              /\ status' = status \/ (status' \in Statuses /\ accepted = Players)
              /\ server' = server \/ accepted = Players
              /\ tick' \notin {"idle", "after", "expire"} \/ asked' => accepted = Players
              /\ status' = "Playing" => server'
  BY DEF TypeOK, StartsWhenBothAccepted, RatedOnce, Witnesses
<1>1. CASE TickList
  BY <1>1 DEF TickList, TypeOK, TickStages, Witnesses, StartsWhenBothAccepted
<1>2. CASE TickTimeout
  BY <1>2 DEF TickTimeout, TypeOK, TickStages, Statuses, Witnesses
<1>3. CASE TickAllocate
  BY <1>3 DEF TickAllocate, TypeOK, TickStages, Witnesses
<1>4. CASE TickAnswered \/ TickRefused \/ TickOthers
  BY <1>4 DEF TickAnswered, TickRefused, TickOthers, TypeOK, TickStages, Witnesses
<1>5. CASE MarkServerReady
  BY <1>5 DEF MarkServerReady, TypeOK, TickStages, Statuses, Witnesses
<1>6. CASE TickLook
  BY <1>6 DEF TickLook, TypeOK, TickStages, Witnesses, StartsWhenBothAccepted
<1>7. CASE TickDispute
  BY <1>7 DEF TickDispute, TypeOK, TickStages, Statuses, Witnesses
<1>8. CASE TickFree
  BY <1>8 DEF TickFree, TypeOK, TickStages, Witnesses
<1>. QED  BY <1>1, <1>2, <1>3, <1>4, <1>5, <1>6, <1>7, <1>8 DEF Tick, AnswerRead

LEMMA ElapseInv ==
  ASSUME ArenaInv, Elapse
  PROVE  ArenaInv'
<1>1. TypeOK'
  BY DEF ArenaInv, Elapse, TypeOK
<1>2. StartsWhenBothAccepted' /\ RatedOnce' /\ Witnesses'
  BY DEF ArenaInv, Elapse, StartsWhenBothAccepted, RatedOnce, Witnesses
<1>. QED  BY <1>1, <1>2 DEF ArenaInv

\* A crash forgets who was where; what they had to have seen is in the database.
LEMMA CrashInv ==
  ASSUME ArenaInv, Crash
  PROVE  ArenaInv'
<1>1. TypeOK'
  <2>1. /\ accepting' \in [Connections -> AcceptStages]
        /\ callback' \in [Callbacks -> CallbackStages]
    BY DEF Crash, AcceptStages, CallbackStages
  <2>2. faults' \in 0 .. MaxFaults
    BY FaultsAssumption DEF ArenaInv, TypeOK, Crash
  <2>3. {server', allocDue', resultDue', listDue', asked'} \subseteq BOOLEAN
    BY DEF ArenaInv, TypeOK, Crash, matchVars
  <2>. QED  BY <2>1, <2>2, <2>3 DEF ArenaInv, TypeOK, Crash, matchVars, TickStages
<1>2. StartsWhenBothAccepted' /\ RatedOnce'
  BY DEF ArenaInv, Crash, matchVars, StartsWhenBothAccepted, RatedOnce
<1>3. Witnesses'
  BY DEF ArenaInv, Crash, matchVars, Witnesses
<1>. QED  BY <1>1, <1>2, <1>3 DEF ArenaInv

LEMMA NextInv == ArenaInv /\ [Next]_vars => ArenaInv'
<1>. SUFFICES ASSUME ArenaInv, [Next]_vars PROVE ArenaInv'
  OBVIOUS
<1>1. CASE UNCHANGED vars
  BY <1>1 DEF ArenaInv, TypeOK, StartsWhenBothAccepted, RatedOnce, Witnesses,
              vars, matchVars, tickVars
<1>2. CASE Next
  BY <1>2, AcceptInv, CallbackInv, TickInv, ElapseInv, CrashInv DEF Next
<1>. QED  BY <1>1, <1>2

-----------------------------------------------------------------------------
\* ArenaInv holds of every run.
LEMMA ArenaInvAlways == Spec => []ArenaInv
BY InitInv, NextInv, PTL DEF Spec

\* Every variable keeps to its domain, whatever interleaves or fails.
THEOREM ArenaTypeCorrect == Spec => []TypeOK
BY ArenaInvAlways, PTL DEF ArenaInv

\* accept_match sets a flag and reads both in statements of their own, on any
\* number of connections: nothing of the match starts before both are set.
THEOREM StartsCorrect == Spec => []StartsWhenBothAccepted
BY ArenaInvAlways, PTL DEF ArenaInv

\* However many results, expiries and crashes meet, the ratings are written once,
\* and only for a match both accepted and that got a server.
THEOREM ArenaRatedOnceCorrect == Spec => []RatedOnce
BY ArenaInvAlways, PTL DEF ArenaInv

-----------------------------------------------------------------------------
(* The end. *)

\* While the ticker waits for the creator nothing else decides the match: a
\* callback needs a server to have seen it Playing, and there is none yet.
Allocating == tick \in {"before", "listed", "asked", "reading"} => status = "InProgress" /\ ~server

LEMMA StepAllocating ==
  ASSUME ArenaInv, Allocating, [Next]_vars
  PROVE  Allocating'
<1>1. ASSUME NEW c \in Connections, AcceptRead(c) \/ AcceptGoesOn(c)
      PROVE  Allocating'
  BY <1>1 DEF AcceptRead, AcceptGoesOn, MarkAccepted, AcceptCount, AcceptStart, Accepting,
              tickVars, Allocating
<1>2. ASSUME NEW c \in Callbacks, ResultRead(c) \/ GameResult(c) \/ ResultDropped(c)
      PROVE  Allocating'
  <2>1. server \/ status' = status
    BY <1>2 DEF ResultRead, GameResult, ResolveMatch, ResultFree, ResultDropped, Answering,
                ArenaInv, Witnesses, matchVars
  <2>2. UNCHANGED <<server, tick>>
    BY <1>2 DEF ResultRead, GameResult, ResolveMatch, ResultFree, ResultDropped, Answering,
                matchVars, tickVars
  <2>. QED  BY <2>1, <2>2 DEF Allocating
<1>3. CASE TickList \/ TickOthers \/ TickAllocate \/ TickAnswered
  BY <1>3 DEF TickList, TickOthers, TickAllocate, TickAnswered, Ticking, Allocating
<1>4. CASE TickTimeout \/ TickRefused \/ MarkServerReady \/ TickLook \/ TickDispute \/ TickFree
  BY <1>4 DEF TickTimeout, TickRefused, MarkServerReady, TickLook, TickDispute, TickFree,
              Ticking, Allocating
<1>5. CASE Elapse \/ Crash \/ UNCHANGED vars
  BY <1>5 DEF Elapse, Crash, vars, matchVars, tickVars, Allocating
<1>. QED  BY <1>1, <1>2, <1>3, <1>4, <1>5 DEF Next, Tick, AnswerRead

\* For any number of connections, callbacks and faults, an ended match is opened
\* again by nothing but an accept that was at work when it ended.
THEOREM StaysEndedCorrect == Spec => EndedStaysEnded
<1>1. ASSUME Allocating, [Next]_vars, status \in Terminal, NoAcceptAtWork
      PROVE  status' \in Terminal
  <2>1. ASSUME NEW c \in Connections, AcceptRead(c) \/ AcceptGoesOn(c)
        PROVE  status' = status
    BY <1>1, <2>1 DEF AcceptRead, AcceptGoesOn, MarkAccepted, AcceptCount, AcceptStart,
                      Accepting, NoAcceptAtWork
  <2>2. ASSUME NEW c \in Callbacks, ResultRead(c) \/ GameResult(c) \/ ResultDropped(c)
        PROVE  status' \in {status, "Resolved"}
    BY <2>2 DEF ResultRead, GameResult, ResolveMatch, ResultFree, ResultDropped, matchVars
  <2>3. CASE MarkServerReady
    BY <1>1, <2>3 DEF MarkServerReady, Ticking, Allocating, Terminal
  <2>4. ASSUME Tick \/ AnswerRead, ~MarkServerReady
        PROVE  status' \in {status, "Disputed"}
    BY <2>4 DEF Tick, AnswerRead, TickList, TickOthers, TickTimeout, TickAllocate,
                TickAnswered, TickRefused, TickLook, TickDispute, TickFree
  <2>5. CASE Elapse \/ Crash \/ UNCHANGED vars
    BY <1>1, <2>5 DEF Elapse, Crash, vars, matchVars
  <2>. QED  BY <1>1, <2>1, <2>2, <2>3, <2>4, <2>5 DEF Next, Terminal
<1>2. Allocating /\ [Next]_vars
        => [(status \in Terminal /\ NoAcceptAtWork) => status' \in Terminal]_vars
  BY <1>1
<1>3. Init => Allocating
  BY DEF Init, Allocating
<1>4. ArenaInv /\ Allocating /\ [Next]_vars => Allocating'
  BY StepAllocating
<1>. QED  BY <1>2, <1>3, <1>4, ArenaInvAlways, PTL DEF Spec, EndedStaysEnded
=============================================================================
