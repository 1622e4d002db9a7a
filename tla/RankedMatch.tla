----------------------------- MODULE RankedMatch -----------------------------
(***************************************************************************)
(* One UMVC3 ranked match, from its pairing to its terminal phase.         *)
(*                                                                         *)
(* PostgreSQL is the authority: every step that changes the match is one   *)
(* transaction that locks the matches row and then the umvc3_matches row,  *)
(* so each transaction is one action here.  The actors are                 *)
(*   - the players' requests, which durably admit commands (Admit);        *)
(*   - the drains (the server's two-second ticker and the workflow), which *)
(*     apply the admitted commands in match_sequence order (Drain...);     *)
(*   - the UMVC3MatchWorkflow, which polls and expires phases (Wf...), its *)
(*     activities run at least once and an abandoned attempt may still     *)
(*     reach the database (LateExpire).                                    *)
(*                                                                         *)
(* player_state.state, which no step of a match reads and which others set *)
(* too, is left to RankedQueue.                                            *)
(*                                                                         *)
(* Time.  PostgreSQL's NOW() is the start of the transaction, which may    *)
(* lie before the instant the row lock is granted.  `left' is the time     *)
(* from the present until phase_deadline; a transaction that began `lag'   *)
(* ticks ago reads a NOW() that is left + lag ticks before the deadline.   *)
(***************************************************************************)
EXTENDS Integers, Sequences

CONSTANTS
  Timeout,      \* seconds (ticks) each live phase may last; 0: no deadline
  MaxLag,       \* longest wait of a transaction for its row locks, in ticks
  ReportData,   \* what score, checksum and end_frame may say
  MaxAttempt,   \* bound: how many lobby attempts player A publishes
  MaxPending    \* bound: how many admitted commands wait at a time

Players == {"a", "b"}
Other(p) == IF p = "a" THEN "b" ELSE "a"

LivePhases == {"AwaitingAccepted", "AwaitingTrying", "AwaitingConnect",
               "AwaitingReady", "Playing", "AwaitingReport"}
Phases == LivePhases \cup {"Terminal"}
Evidential == {"Playing", "AwaitingReport"}

ASSUME TimeoutAssumption == Timeout \in [LivePhases -> Nat]
ASSUME MaxLagAssumption  == MaxLag \in Nat

VARIABLES
  phase, version, attempt,     \* umvc3_matches: phase, phase_version, attempt_id
  armed, left,                 \* phase_deadline: is it set, and how far away
  accepted, trying, conn, ready,  \* the barriers' flags, per player
  report, vote,                \* match_reports rows and abandon votes
  status, reason, result,      \* matches.status, terminal_reason, match_results
  active, requeued,            \* owned by the match; put back in the queue by its end
  inbox,                       \* pending commands, in match_sequence order
  wfPc, wfVersion, wfTimer,    \* the workflow: where it is, what it last loaded
  abandoned,                   \* versions whose expiry attempt was given up on
  connAttempt, mmrWrites       \* history: attempt of each connect; rating writes

phaseVars    == <<phase, version, armed, left>>
barrierVars  == <<accepted, trying, conn, ready, connAttempt>>
evidenceVars == <<report, vote>>
outcomeVars  == <<status, reason, result, mmrWrites>>
playerVars   == <<active, requeued>>
wfVars       == <<wfPc, wfVersion, wfTimer, abandoned>>
matchVars == <<phaseVars, attempt, barrierVars, evidenceVars, outcomeVars, playerVars>>
vars == <<matchVars, inbox, wfVars>>

-----------------------------------------------------------------------------
(* The commands of the match stream. *)

Sides    == {"local", "peer"}
NoReport == [outcome |-> "none"]
Reports  == [outcome : {"win", "loss", "draw"}, data : ReportData]
Votes    == Players \cup {"none"}

Commands ==
       [kind : {"accept", "decline"}, by : Players]
  \cup [kind : {"trying"}, by : Players, attempt : Nat, role : {"create", "join"}]
  \cup [kind : {"connect"}, by : Players, attempt : Nat, reached : SUBSET Sides]
  \cup [kind : {"ready"}, by : Players, attempt : Nat]
  \cup [kind : {"report"}, by : Players, claim : Reports]
  \cup [kind : {"abandon"}, by : Players, target : {"self", "opponent"}]

\* What the clients send.  A client knows only attempts that were published.
Requests ==
       [kind : {"accept", "decline"}, by : Players]
  \cup [kind : {"trying"}, by : Players, attempt : 1..attempt, role : {"create", "join"}]
  \cup [kind : {"connect"}, by : Players, attempt : 1..attempt, reached : SUBSET Sides]
  \cup [kind : {"ready"}, by : Players, attempt : 1..attempt]
  \cup [kind : {"report"}, by : Players, claim : Reports]
  \cup [kind : {"abandon"}, by : Players, target : {"self", "opponent"}]

LobbyRole(p) == IF p = "a" THEN "create" ELSE "join"

-----------------------------------------------------------------------------
(* Admission. *)

\* A command only of the phase, the attempt and the role it belongs to.
ValidMatchAdmission(c) ==
  /\ c.kind \in {"accept", "decline"} => phase = "AwaitingAccepted"
  /\ c.kind \in {"trying", "connect", "ready"} => c.attempt = attempt
  /\ c.kind = "trying" =>
       /\ c.role = LobbyRole(c.by)
       /\ phase = "AwaitingTrying" \/ (c.by = "a" /\ phase = "AwaitingConnect")
  /\ c.kind = "connect" => phase = "AwaitingConnect"
  /\ c.kind = "ready" => phase = "AwaitingReady"
  /\ c.kind \in {"report", "abandon"} => phase \in Evidential

\* The deadline is read against NOW(), and a command on the deadline is in time.
InTime(lag) == armed => left + lag >= 0

\* The bounds of the model: nothing in the code limits either.
WithinBounds(c) ==
  /\ Len(inbox) < MaxPending
  /\ c.kind = "trying" /\ c.by = "a" =>
       /\ attempt < MaxAttempt
       /\ \A i \in 1..Len(inbox) : inbox[i].kind = "trying" => inbox[i].by # "a"

AdmitMatchCommand(c, lag) ==
  /\ WithinBounds(c)
  /\ phase # "Terminal"
  /\ InTime(lag)
  /\ ValidMatchAdmission(c)
  /\ inbox' = Append(inbox, c)
  /\ UNCHANGED <<matchVars, wfVars>>

-----------------------------------------------------------------------------
(* Pieces of the draining and expiring transactions. *)

TransitionPhase(next, lag) ==
  /\ phase' = next
  /\ version' = version + 1
  /\ armed' = (Timeout[next] # 0)
  /\ left' = IF Timeout[next] = 0 THEN 0 ELSE Timeout[next] - lag

\* Mutant of EndMatch: only a requeued player's active_match_token is cleared.
EndMatchKeepsIdle(steps, why, requeue) ==
  /\ phase' = "Terminal"
  /\ version' = version + steps
  /\ armed' = FALSE /\ left' = 0
  /\ status' = "Resolved" /\ reason' = why
  /\ active' = [p \in Players |-> active[p] /\ p \notin requeue]
  /\ requeued' = [p \in Players |-> requeued[p] \/ p \in requeue]

\* End the match (by `steps' version increments) and free both players.
EndMatch(steps, why, requeue) ==
  /\ phase' = "Terminal"
  /\ version' = version + steps
  /\ armed' = FALSE
  /\ left' = 0
  /\ status' = "Resolved"
  /\ reason' = why
  /\ active' = [p \in Players |-> FALSE]
  /\ requeued' = [p \in Players |-> requeued[p] \/ p \in requeue]

TerminalUnrated(why, requeue) ==
  /\ EndMatch(1, why, requeue)
  /\ UNCHANGED <<result, mmrWrites>>

\* Mutant of FinalizeUmvc3: ratings are written for a dispute too.
FinalizeRatesDisputes(steps, verdict) ==
  /\ result = "none"
  /\ EndMatch(steps, IF verdict = "disputed" THEN "disputed" ELSE "resolved", {})
  /\ result' = verdict
  /\ mmrWrites' = mmrWrites + 1

\* A verdict is a winner, "draw" or "disputed".  An existing result is
\* authoritative and nothing is written again.  Where the function returns an
\* error its transaction is rolled back, and the step is not taken.
FinalizeUmvc3(steps, verdict) ==
  IF result # "none"
  THEN UNCHANGED <<phaseVars, outcomeVars, playerVars>>
  ELSE /\ phase # "Terminal"
       /\ status # "Resolved"
       /\ \A p \in Players : active[p]
       /\ EndMatch(steps, IF verdict = "disputed" THEN "disputed" ELSE "resolved", {})
       /\ result' = verdict
       /\ mmrWrites' = IF verdict = "disputed" THEN mmrWrites ELSE mmrWrites + 1

-----------------------------------------------------------------------------
(* Evidence. *)

\* Who a report says won: the outcome is relative to the reporter.
ClaimedWinner(p, r) ==
  IF r.outcome = "win" THEN p ELSE IF r.outcome = "loss" THEN Other(p) ELSE "nobody"

\* Mutant of Verdict: any vote corroborates a lone report, the reporter's own too.
VerdictByOwnVote(rep, vt) ==
  IF \E p \in Players : rep[p] # NoReport
  THEN LET p == CHOOSE q \in Players : rep[q] # NoReport
           loser == IF vt[p] # "none" THEN vt[p] ELSE vt[Other(p)]
       IN IF loser = "none" THEN "none"
          ELSE IF ClaimedWinner(p, rep[p]) = Other(loser) THEN Other(loser) ELSE "disputed"
  ELSE "none"

\* The verdict the reports rep and the votes vt support, or "none".  With one
\* report only the other player's vote counts: a player's own two commands are
\* never enough to rate a match.
Verdict(rep, vt) ==
  LET reporters == {p \in Players : rep[p] # NoReport}
      winner(p) == ClaimedWinner(p, rep[p])
  IN IF reporters = Players
     THEN IF winner("a") # winner("b") \/ rep["a"].data # rep["b"].data THEN "disputed"
          ELSE IF winner("a") = "nobody" THEN "draw" ELSE winner("a")
     ELSE IF \A p \in Players : vt[p] # "none"
     THEN IF vt["a"] = vt["b"] THEN Other(vt["a"]) ELSE "disputed"
     ELSE IF \E p \in reporters : vt[Other(p)] # "none"
     THEN LET p == CHOOSE q \in Players : q \in reporters
          IN IF winner(p) \notin {"nobody", vt[Other(p)]} THEN winner(p) ELSE "disputed"
     ELSE "none"

\* Mutant of ResolveEvidence: the verdict is taken before the new evidence is stored.
ResolveStaleEvidence(rep, vt, lag) ==
  /\ report' = rep
  /\ vote' = vt
  /\ IF Verdict(report, vote) # "none"
     THEN FinalizeUmvc3(1, Verdict(report, vote))
     ELSE /\ IF phase = "Playing" THEN TransitionPhase("AwaitingReport", lag)
                                  ELSE UNCHANGED phaseVars
          /\ UNCHANGED <<outcomeVars, playerVars>>
  /\ UNCHANGED <<attempt, barrierVars>>

\* The first evidence moves Playing to AwaitingReport; then the evidence resolves.
ResolveEvidence(rep, vt, lag) ==
  LET verdict == Verdict(rep, vt)
      first   == phase = "Playing"
  IN /\ report' = rep
     /\ vote' = vt
     /\ IF verdict # "none"
        THEN FinalizeUmvc3(IF first THEN 2 ELSE 1, verdict)
        ELSE /\ IF first THEN TransitionPhase("AwaitingReport", lag)
                         ELSE UNCHANGED phaseVars
             /\ UNCHANGED <<outcomeVars, playerVars>>
     /\ UNCHANGED <<attempt, barrierVars>>

-----------------------------------------------------------------------------
(* Draining: the lowest pending command is applied, or rejected unchanged. *)

\* Player A, with a new lobby while the players connect, starts a new attempt.
Republishes(c) ==
  /\ c.by = "a"
  /\ c.role = "create"
  /\ phase = "AwaitingConnect"

Applicable(c) ==
  /\ phase # "Terminal"
  /\ c.kind \in {"accept", "decline"} => phase = "AwaitingAccepted"
  /\ c.kind \in {"trying", "connect", "ready"} => c.attempt = attempt
  /\ c.kind = "trying" =>
       Republishes(c) \/ (phase = "AwaitingTrying" /\ c.role = LobbyRole(c.by))
  /\ c.kind = "connect" => phase = "AwaitingConnect"
  /\ c.kind = "ready" => phase = "AwaitingReady"
  /\ c.kind \in {"report", "abandon"} => phase \in Evidential
  /\ c.kind = "report" => report[c.by] = NoReport
  /\ c.kind = "abandon" => vote[c.by] = "none"

ApplyAccept(c, lag) ==
  /\ c.kind = "accept"
  /\ accepted' = [accepted EXCEPT ![c.by] = TRUE]
  /\ IF accepted[Other(c.by)] THEN TransitionPhase("AwaitingTrying", lag)
                              ELSE UNCHANGED phaseVars
  /\ UNCHANGED <<attempt, trying, conn, ready, connAttempt, evidenceVars,
                 outcomeVars, playerVars>>

ApplyDecline(c) ==
  /\ c.kind = "decline"
  /\ TerminalUnrated("declined", {Other(c.by)})
  /\ UNCHANGED <<attempt, barrierVars, evidenceVars>>

ApplyTrying(c, lag) ==
  /\ c.kind = "trying"
  /\ ~Republishes(c)
  /\ trying' = [trying EXCEPT ![c.by] = TRUE]
  /\ IF trying[Other(c.by)] THEN TransitionPhase("AwaitingConnect", lag)
                            ELSE UNCHANGED phaseVars
  /\ UNCHANGED <<attempt, accepted, conn, ready, connAttempt, evidenceVars,
                 outcomeVars, playerVars>>

\* Mutant of ApplyRepublish: the connection facts of the old attempt are kept.
RepublishKeepsFacts(c, lag) ==
  /\ c.kind = "trying" /\ Republishes(c)
  /\ attempt' = attempt + 1
  /\ trying' = [p \in Players |-> p = "a"]
  /\ version' = version + 1
  /\ armed' = TRUE /\ left' = Timeout["AwaitingConnect"] - lag
  /\ UNCHANGED <<phase, accepted, conn, ready, connAttempt, evidenceVars,
                 outcomeVars, playerVars>>

\* Mutant of ApplyRepublish: the deadline is renewed under the old phase_version.
RepublishUnfenced(c, lag) ==
  /\ c.kind = "trying" /\ Republishes(c)
  /\ attempt' = attempt + 1
  /\ trying' = [p \in Players |-> p = "a"]
  /\ conn' = [p \in Players |-> {}] /\ ready' = [p \in Players |-> FALSE]
  /\ armed' = TRUE /\ left' = Timeout["AwaitingConnect"] - lag
  /\ UNCHANGED <<phase, version, accepted, connAttempt, evidenceVars, outcomeVars,
                 playerVars>>

\* The replacement attempt drops every connection fact of the old one and gets
\* a deadline of its own (set even when the connect timeout is 0).
ApplyRepublish(c, lag) ==
  /\ c.kind = "trying"
  /\ Republishes(c)
  /\ attempt' = attempt + 1
  /\ trying' = [p \in Players |-> p = "a"]
  /\ conn' = [p \in Players |-> {}]
  /\ ready' = [p \in Players |-> FALSE]
  /\ version' = version + 1
  /\ armed' = TRUE
  /\ left' = Timeout["AwaitingConnect"] - lag
  /\ UNCHANGED <<phase, accepted, connAttempt, evidenceVars, outcomeVars, playerVars>>

ApplyConnect(c, lag) ==
  /\ c.kind = "connect"
  /\ conn' = [conn EXCEPT ![c.by] = @ \cup c.reached]
  /\ connAttempt' = [connAttempt EXCEPT ![c.by] = c.attempt]
  /\ IF \A p \in Players : conn'[p] = Sides THEN TransitionPhase("AwaitingReady", lag)
                                            ELSE UNCHANGED phaseVars
  /\ UNCHANGED <<attempt, accepted, trying, ready, evidenceVars, outcomeVars, playerVars>>

ApplyReady(c, lag) ==
  /\ c.kind = "ready"
  /\ ready' = [ready EXCEPT ![c.by] = TRUE]
  /\ IF ready[Other(c.by)]
     THEN /\ TransitionPhase("Playing", lag)
          /\ status' = "Playing"
     ELSE UNCHANGED <<phaseVars, status>>
  /\ UNCHANGED <<attempt, accepted, trying, conn, connAttempt, evidenceVars,
                 reason, result, mmrWrites, playerVars>>

ApplyReport(c, lag) ==
  /\ c.kind = "report"
  /\ ResolveEvidence([report EXCEPT ![c.by] = c.claim], vote, lag)

\* A vote names the player who abandoned.
ApplyAbandon(c, lag) ==
  /\ c.kind = "abandon"
  /\ ResolveEvidence(report,
       [vote EXCEPT ![c.by] = IF c.target = "self" THEN c.by ELSE Other(c.by)], lag)

Apply(c, lag) ==
  /\ Applicable(c)
  /\ \/ ApplyAccept(c, lag)
     \/ ApplyDecline(c)
     \/ ApplyTrying(c, lag)
     \/ ApplyRepublish(c, lag)
     \/ ApplyConnect(c, lag)
     \/ ApplyReady(c, lag)
     \/ ApplyReport(c, lag)
     \/ ApplyAbandon(c, lag)

Reject(c) ==
  /\ ~Applicable(c)
  /\ UNCHANGED matchVars

DrainOneMatchCommand(lag) ==
  /\ inbox # <<>>
  /\ Apply(Head(inbox), lag) \/ Reject(Head(inbox))
  /\ inbox' = Tail(inbox)
  /\ UNCHANGED wfVars

-----------------------------------------------------------------------------
(* Expiry. *)

\* Whom an expired barrier puts back in the queue.
Responders ==
  {p \in Players : \/ phase = "AwaitingAccepted" /\ accepted[p]
                   \/ phase = "AwaitingTrying" /\ trying[p]
                   \/ phase = "AwaitingConnect"
                   \/ phase = "AwaitingReady" /\ ready[p]}

TimeoutReason ==
  IF phase = "AwaitingAccepted" THEN "accept_timeout"
  ELSE IF phase = "AwaitingTrying" THEN "trying_timeout"
  ELSE IF phase = "AwaitingConnect" THEN "connect_timeout"
  ELSE "ready_timeout"

\* Mutant of ExpiryDue: a matching version is taken for a passed deadline.
ExpiryDueByVersion(expected, lag) ==
  /\ phase # "Terminal"
  /\ version = expected

\* The phase is still the one the workflow saw, and its deadline has passed.
ExpiryDue(expected, lag) ==
  /\ phase # "Terminal"
  /\ version = expected
  /\ armed
  /\ left + lag <= 0

\* The second transaction of expire(); the first ones drained the inbox.
ExpirePhase(expected, lag) ==
  /\ IF ~ExpiryDue(expected, lag) THEN UNCHANGED <<phaseVars, outcomeVars, playerVars>>
     ELSE IF phase \in Evidential THEN FinalizeUmvc3(1, "disputed")
     ELSE TerminalUnrated(TimeoutReason, Responders)
  /\ UNCHANGED <<attempt, barrierVars, evidenceVars, inbox>>

-----------------------------------------------------------------------------
(* UMVC3MatchWorkflow.  wfPc is the activity it runs or the select it waits  *)
(* in; wfVersion and wfTimer are the match state it last loaded: the timer   *)
(* is "none" without a deadline and "due" when no time remained.             *)

\* start_umvc3_match after pairing, or the ticker's reconciliation.
WfStart ==
  /\ wfPc = "unstarted"
  /\ wfPc' = "drain"
  /\ UNCHANGED <<matchVars, inbox, wfVersion, wfTimer, abandoned>>

\* drain_match returns when nothing is pending; the state is then read anew.
WfDrained ==
  /\ wfPc = "drain"
  /\ inbox = <<>>
  /\ wfPc' = "load"
  /\ UNCHANGED <<matchVars, inbox, wfVersion, wfTimer, abandoned>>

WfLoad ==
  /\ wfPc = "load"
  /\ wfPc' = IF phase = "Terminal" THEN "done" ELSE "wait"
  /\ wfVersion' = version
  /\ wfTimer' = IF ~armed THEN "none" ELSE IF left <= 0 THEN "due" ELSE "running"
  /\ UNCHANGED <<matchVars, inbox, abandoned>>

\* The two-second poll wins the race unless the timer was due at once.
WfPoll ==
  /\ wfPc = "wait"
  /\ wfTimer # "due"
  /\ wfPc' = "drain"
  /\ UNCHANGED <<matchVars, inbox, wfVersion, wfTimer, abandoned>>

\* The timer runs on Temporal's clock: it may fire before the database's deadline.
WfTimerFires ==
  /\ wfPc = "wait"
  /\ wfTimer # "none"
  /\ wfPc' = "expire"
  /\ UNCHANGED <<matchVars, inbox, wfVersion, wfTimer, abandoned>>

WfExpireDrained ==
  /\ wfPc = "expire"
  /\ inbox = <<>>
  /\ wfPc' = "drained"
  /\ UNCHANGED <<matchVars, inbox, wfVersion, wfTimer, abandoned>>

\* Mutant of WfExpirePhase: the workflow returns after its first expiry attempt.
WfExpireOnce(lag) ==
  /\ wfPc = "drained"
  /\ ExpirePhase(wfVersion, lag)
  /\ wfPc' = "done"
  /\ UNCHANGED <<wfVersion, wfTimer, abandoned>>

WfExpirePhase(lag) ==
  /\ wfPc = "drained"
  /\ ExpirePhase(wfVersion, lag)
  /\ wfPc' = "load"
  /\ UNCHANGED <<wfVersion, wfTimer, abandoned>>

\* The attempt exceeds its five seconds or its process dies: the activity is
\* retried from its start, and the old attempt may still be running.
WfExpireRetried ==
  /\ wfPc = "drained"
  /\ wfPc' = "expire"
  /\ abandoned' \in {abandoned, {wfVersion}}
  /\ UNCHANGED <<matchVars, inbox, wfVersion, wfTimer>>

LateExpire(lag) ==
  \E v \in abandoned :
    /\ ExpirePhase(v, lag)
    /\ abandoned' = abandoned \ {v}
    /\ UNCHANGED <<wfPc, wfVersion, wfTimer>>

\* One tick; a deadline more than MaxLag past is past for every transaction.
Tick ==
  /\ armed
  /\ left >= -MaxLag
  /\ left' = left - 1
  /\ UNCHANGED <<phase, version, armed, attempt, barrierVars, evidenceVars,
                 outcomeVars, playerVars, inbox, wfVars>>

-----------------------------------------------------------------------------
(* The specification. *)

\* What pair_next_match_with_accept_timeout commits.
Init ==
  /\ phase = "AwaitingAccepted" /\ version = 0 /\ attempt = 1
  /\ armed = TRUE
  /\ \E lag \in 0..MaxLag : left = Timeout["AwaitingAccepted"] - lag
  /\ accepted = [p \in Players |-> FALSE]
  /\ trying = [p \in Players |-> FALSE]
  /\ conn = [p \in Players |-> {}]
  /\ ready = [p \in Players |-> FALSE]
  /\ report = [p \in Players |-> NoReport]
  /\ vote = [p \in Players |-> "none"]
  /\ status = "PendingAccept" /\ reason = "none" /\ result = "none"
  /\ active = [p \in Players |-> TRUE]
  /\ requeued = [p \in Players |-> FALSE]
  /\ inbox = <<>>
  /\ wfPc = "unstarted" /\ wfVersion = 0 /\ wfTimer = "none"
  /\ abandoned = {}
  /\ connAttempt = [p \in Players |-> 0] /\ mmrWrites = 0

Admit == \E lag \in 0..MaxLag : \E c \in Requests : AdmitMatchCommand(c, lag)
Drain == \E lag \in 0..MaxLag : DrainOneMatchCommand(lag)

\* The workflow's own progress; a retry is not progress.
WfAdvance ==
  \/ WfStart
  \/ WfDrained
  \/ WfLoad
  \/ WfPoll
  \/ WfTimerFires
  \/ WfExpireDrained
WfExpire == \E lag \in 0..MaxLag : WfExpirePhase(lag)

\* The match is over, every command is answered and the workflow is gone.
Settled ==
  /\ phase = "Terminal"
  /\ inbox = <<>>
  /\ wfPc \in {"unstarted", "done"}
  /\ UNCHANGED vars

Next ==
  \/ Admit
  \/ Drain
  \/ WfAdvance
  \/ WfExpire
  \/ WfExpireRetried
  \/ \E lag \in 0..MaxLag : LateExpire(lag)
  \/ Tick
  \/ Settled

Spec == Init /\ [][Next]_vars

\* The ticker drains every two seconds and reconciles workflows, Temporal runs a
\* started workflow and retries an activity until an attempt completes, and time
\* passes.  Nothing is assumed of the players.
Fairness ==
  /\ WF_vars(Drain)
  /\ WF_vars(WfAdvance)
  /\ SF_vars(WfExpire)
  /\ WF_vars(Tick)

FairSpec == Spec /\ Fairness

-----------------------------------------------------------------------------
(* Properties. *)

Verdicts == Players \cup {"draw", "disputed"}
TimeoutReasons == {"accept_timeout", "trying_timeout", "connect_timeout", "ready_timeout"}

\* Every variable holds a value its column or register can hold.
TypeOK ==
  /\ phase \in Phases /\ version \in Nat /\ attempt \in Nat
  /\ armed \in BOOLEAN /\ left \in Int
  /\ accepted \in [Players -> BOOLEAN]
  /\ trying \in [Players -> BOOLEAN]
  /\ conn \in [Players -> SUBSET Sides]
  /\ ready \in [Players -> BOOLEAN]
  /\ report \in [Players -> Reports \cup {NoReport}]
  /\ vote \in [Players -> Votes]
  /\ status \in {"PendingAccept", "Playing", "Resolved"}
  /\ reason \in TimeoutReasons \cup {"none", "declined", "resolved", "disputed"}
  /\ result \in Verdicts \cup {"none"}
  /\ active \in [Players -> BOOLEAN]
  /\ requeued \in [Players -> BOOLEAN]
  /\ inbox \in Seq(Commands)
  /\ wfPc \in {"unstarted", "drain", "load", "wait", "expire", "drained", "done"}
  /\ wfVersion \in Nat
  /\ wfTimer \in {"none", "running", "due"}
  /\ abandoned \in SUBSET Nat
  /\ connAttempt \in [Players -> Nat]
  /\ mmrWrites \in Nat

\* A live match owns both its players and an ended one neither, whatever command
\* or timeout ended it: no player is left owned by a match nobody will end, and
\* the finalizer's ownership check (commands.rs:1123, matches.rs:441) never fails.
OwnedWhileLive ==
  /\ phase # "Terminal" <=> status # "Resolved"
  /\ \A p \in Players :
       /\ active[p] <=> phase # "Terminal"
       /\ requeued[p] => phase = "Terminal"

\* A rated result rests on both players: the loser himself reported the loss or
\* conceded by a vote against himself, and a draw is what both reported
\* (the ratified rule of commands.rs:1083-1090).
Conceded(p) == report[p].outcome = "loss" \/ vote[p] = p
RatedLossIsConceded ==
  /\ result \in Players => Conceded(Other(result))
  /\ result = "draw" => \A p \in Players : report[p].outcome = "draw"

\* Ratings are written once by a rated result and never otherwise, and a
\* result exists exactly when the match ended by evidence or its lack.
RatedAtMostOnce ==
  /\ mmrWrites = IF result \in Players \cup {"draw"} THEN 1 ELSE 0
  /\ result # "none" <=> reason \in {"resolved", "disputed"}

\* A connection fact that counts towards the barrier was reported for the
\* attempt the match is on: a replaced lobby never starts a game.
ConnectionsAreOfThisAttempt ==
  \A p \in Players : conn[p] # {} => connAttempt[p] = attempt

\* While reports are awaited the evidence stored so far supports no verdict
\* (and none is stored before): whatever arrives next, a decision is never late.
NoVerdictLeftUndecided ==
  /\ phase = "AwaitingReport" => Verdict(report, vote) = "none"
  /\ phase \notin {"AwaitingReport", "Terminal"} =>
       \A p \in Players : report[p] = NoReport /\ vote[p] = "none"

\* No live match is left to itself: its workflow has not returned, and where the
\* phase has a timeout, through whatever transition or replaced lobby it was
\* reached, a deadline is set for the workflow to find.
WatchedWhileLive ==
  phase # "Terminal" => wfPc # "done" /\ (Timeout[phase] # 0 => armed)

\* Once a match has ended no command, timer or abandoned attempt changes it or
\* its players again (this match's hold on them, their result, the ratings).
TerminalIsFinal == [][phase = "Terminal" => UNCHANGED matchVars]_vars

\* A deadline is only ever moved away together with a new phase_version, so a
\* timer armed for the old one is recognised as stale (umvc3.rs:37-38).
DeadlineIsFenced == [][left' > left \/ phase' # phase => version' > version]_vars

\* A phase ends by timeout only when its own deadline has passed, however late,
\* early or often the workflow's timer fires.
TimedOut == phase # "Terminal" /\ reason' \in TimeoutReasons
ExpiresOnlyAfterDeadline ==
  [][TimedOut \/ (result = "none" /\ result' = "disputed" /\ UNCHANGED evidenceVars)
       => armed /\ left <= 0]_vars

\* commands.rs:1384-1387: "every command durably admitted before the deadline
\* wins": an expiring phase leaves no admitted command behind.
AdmittedBeforeDeadlineWins == [][TimedOut => inbox = <<>>]_vars

\* Every match ends, every admitted command is answered, and the workflow goes,
\* with both players free (under Fairness and positive timeouts).
MatchSettles ==
  <>[](/\ phase = "Terminal"
       /\ inbox = <<>>
       /\ wfPc \in {"unstarted", "done"}
       /\ \A p \in Players : ~active[p])

=============================================================================
