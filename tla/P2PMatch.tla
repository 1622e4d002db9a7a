------------------------------- MODULE P2PMatch -------------------------------
(***************************************************************************)
(* One match of a mode refereed by the server, from its pairing to its end:*)
(* P2PMatchWorkflow, the activities it awaits, the matches row they write, *)
(* and the states of its two players.                                      *)
(*                                                                         *)
(* The workflow decides, from signals and timers; activities write, one    *)
(* statement after the other, and an activity that fails or does not       *)
(* answer in time is started again, without limit, until one attempt       *)
(* completes.  The attempt that was given up may still be running.         *)
(*                                                                         *)
(* The gateway passes on the signals of any user, and reports that name    *)
(* anyone: of those who do not play, only the counts and the names the     *)
(* workflow looks at matter.  A signal that comes after the wait that      *)
(* reads it is left out: it sets a field nobody reads any more.            *)
(***************************************************************************)
EXTENDS Integers, FiniteSets

CONSTANTS
  A, B,       \* player_a and player_b
  Strangers,  \* other users, who may signal the match or be named in a report
  MaxStray,   \* how much of what the workflow holds is theirs or names them
  Online,     \* the players who have a session on this server
  Faults,     \* what may go wrong, each at most once in a behaviour
  MaxFaults   \* how many of them in one behaviour

Players == {A, B}
Users == Players \cup Strangers
FaultKinds == {"overrun", "crash", "failure"}

ASSUME PlayersAssumption == A # B
ASSUME StrangersAssumption == Strangers \cap Players = {} /\ MaxStray \in Nat
ASSUME OnlineAssumption  == Online \subseteq Players
ASSUME FaultsAssumption  == Faults \subseteq FaultKinds

NoOne == "nobody"       \* no winner
DoubleLoss == "Forfeit" \* the outcome of a match both forfeit
ASSUME NoPlayerAssumption == NoOne \notin Users /\ DoubleLoss \notin Users

Waits == {"await_accept", "await_start", "await_report"}
Activities == {"verify", "accept_a", "accept_b", "mark_accepts", "handle_decline",
               "connect_a", "connect_b", "resolve_start_forfeit",
               "finish_match", "resolve_dispute"}
Stages == {"unstarted", "lost", "done"} \cup Waits \cup Activities

VARIABLES
  status,     \* matches.status
  accepted,   \* accepted_a, accepted_b
  connected,  \* connected_a, connected_b
  result,     \* match_results.outcome: a winner, a double loss, or no row
  rated,      \* how often the players' ratings have been changed
  state,      \* player_state.state
  stage,      \* where the workflow is
  accepts, declined, started, whoWon,   \* its fields
  verdict,    \* the winner it has decided on
  attempt,    \* of the activity: the one awaited and one given up, if running
  toNotify,   \* players pair_matches has yet to tell their sessions of the match
  inbox,      \* signals of the match the players' sessions have not handled yet
  struck      \* the faults that have happened

rowVars      == <<status, accepted, connected, result, rated>>
fieldVars    == <<accepts, declined, started, whoWon, verdict>>
workflowVars == <<stage, fieldVars>>
sessionVars  == <<toNotify, inbox>>
vars == <<rowVars, state, workflowVars, attempt, sessionVars, struck>>

Statuses == {"PendingAccept", "InProgress", "Reporting", "Resolved", "Disputed"}
Steps == {"read", "mark", "promote", "record", "dispute", "reopen", "resolve",
          "free_a", "free_b", "tell_a", "tell_b"}
Idle == [of |-> "none", step |-> "none", first |-> FALSE]
Attempts == {Idle} \cup [of : Activities, step : Steps, first : BOOLEAN]
Slots == {"awaited", "given_up"}

\* The player an activity is about.
Actor(activity) == IF activity \in {"accept_a", "connect_a"} THEN A ELSE B

-----------------------------------------------------------------------------
(* Attempts of an activity. *)

FirstStep(activity) ==
  IF activity = "mark_accepts" THEN "mark"
  ELSE IF activity = "resolve_start_forfeit" THEN "reopen" ELSE "read"

\* What the workflow does when an activity has completed; the others end it.
Follows ==
  [verify |-> "await_accept", accept_a |-> "accept_b", accept_b |-> "mark_accepts",
   mark_accepts |-> "await_start", connect_a |-> "connect_b", connect_b |-> "await_report"]

After(activity) == IF activity \in DOMAIN Follows THEN Follows[activity] ELSE "done"

At(c, activities, step) == attempt[c].of \in activities /\ attempt[c].step = step

GoOn(c, step) ==
  /\ attempt' = [attempt EXCEPT ![c].step = step]
  /\ UNCHANGED workflowVars

\* The answer of an attempt that was given up is ignored.
Complete(c) ==
  /\ attempt' = [attempt EXCEPT ![c] = Idle]
  /\ stage' = IF c = "awaited" THEN After(stage) ELSE stage
  /\ UNCHANGED fieldVars

Fail(c) ==
  /\ attempt' = [attempt EXCEPT ![c] = Idle]
  /\ UNCHANGED workflowVars

BeginAttempt ==
  /\ stage \in Activities
  /\ attempt["awaited"] = Idle
  /\ attempt' = [attempt EXCEPT !["awaited"] =
                   [of |-> stage, step |-> FirstStep(stage), first |-> FALSE]]
  /\ UNCHANGED <<rowVars, state, workflowVars, sessionVars, struck>>

-----------------------------------------------------------------------------
(* accept_match, once for each player. *)

Accepting == {"accept_a", "accept_b"}

RecordOrComplete(c) ==
  IF attempt[c].first THEN GoOn(c, "record") ELSE Complete(c)

ReadToAccept(c) ==
  /\ At(c, Accepting, "read")
  /\ \/ /\ status = "PendingAccept"
        /\ attempt' = [attempt EXCEPT ![c].step = "mark",
                                      ![c].first = Actor(attempt[c].of) \notin accepted]
        /\ UNCHANGED workflowVars
     \/ /\ status # "PendingAccept"
        /\ Fail(c)
  /\ UNCHANGED <<rowVars, state>>

MarkAccepted(c) ==
  /\ At(c, Accepting, "mark")
  /\ accepted' = accepted \cup {Actor(attempt[c].of)}
  /\ IF accepted' = Players THEN GoOn(c, "promote") ELSE RecordOrComplete(c)
  /\ UNCHANGED <<status, connected, result, rated, state>>

PromoteAccepted(c) ==
  /\ At(c, Accepting, "promote")
  /\ status' = "InProgress"
  /\ RecordOrComplete(c)
  /\ UNCHANGED <<accepted, connected, result, rated, state>>

RecordAccepted(c) ==
  /\ At(c, Accepting, "record")
  /\ Complete(c)
  /\ UNCHANGED <<rowVars, state>>

AcceptMatch(c) ==
  ReadToAccept(c) \/ MarkAccepted(c) \/ PromoteAccepted(c) \/ RecordAccepted(c)

(* mark_accepts *)

MarkAccepts(c) ==
  \/ /\ At(c, {"mark_accepts"}, "mark")
     /\ accepted' = Players
     /\ GoOn(c, "promote")
     /\ UNCHANGED <<status, connected, result, rated, state>>
  \/ /\ At(c, {"mark_accepts"}, "promote")
     /\ status' = "InProgress"
     /\ Complete(c)
     /\ UNCHANGED <<accepted, connected, result, rated, state>>

(* handle_decline *)

\* Mutant of HandleDecline: the decline is recorded and the match left as it is.
HandleDeclineRecordOnly(c) ==
  \/ /\ At(c, {"handle_decline"}, "read")
     /\ GoOn(c, "record")
     /\ UNCHANGED <<rowVars, state>>
  \/ /\ At(c, {"handle_decline"}, "record")
     /\ Complete(c)
     /\ UNCHANGED <<rowVars, state>>

HandleDecline(c) ==
  \/ /\ At(c, {"handle_decline"}, "read")
     /\ GoOn(c, IF status = "PendingAccept" THEN "dispute" ELSE "record")
     /\ UNCHANGED <<rowVars, state>>
  \/ /\ At(c, {"handle_decline"}, "dispute")
     /\ status' = "Disputed"
     /\ GoOn(c, "record")
     /\ UNCHANGED <<accepted, connected, result, rated, state>>
  \/ /\ At(c, {"handle_decline"}, "record")
     /\ Complete(c)
     /\ UNCHANGED <<rowVars, state>>

(* mark_connected, once for each player. *)

Connecting == {"connect_a", "connect_b"}

ReadToConnect(c) ==
  /\ At(c, Connecting, "read")
  /\ \/ status = "InProgress" /\ GoOn(c, "mark")
     \/ status # "InProgress" /\ Fail(c)
  /\ UNCHANGED <<rowVars, state>>

MarkConnected(c) ==
  /\ At(c, Connecting, "mark")
  /\ connected' = connected \cup {Actor(attempt[c].of)}
  /\ IF connected' = Players THEN GoOn(c, "promote") ELSE Complete(c)
  /\ UNCHANGED <<status, accepted, result, rated, state>>

PromoteConnected(c) ==
  /\ At(c, Connecting, "promote")
  /\ status' = "Reporting"
  /\ Complete(c)
  /\ UNCHANGED <<accepted, connected, result, rated, state>>

ConnectPlayer(c) == ReadToConnect(c) \/ MarkConnected(c) \/ PromoteConnected(c)

(* resolve_start_forfeit and finish_match, and what they share: resolve_pong and *)
(* resolve_forfeit, which rate the match and then free its players.              *)

Rating == {"resolve_start_forfeit", "finish_match"}

ReopenForForfeit(c) ==
  /\ At(c, {"resolve_start_forfeit"}, "reopen")
  /\ status' = "Reporting"
  /\ GoOn(c, "read")
  /\ UNCHANGED <<accepted, connected, result, rated, state>>

\* Any other winner is refused, and refused again by every attempt.
Ratable == verdict \in Players \cup {DoubleLoss}

ReadToRate(c) ==
  /\ At(c, Rating, "read")
  /\ \/ /\ status = "Reporting" /\ Ratable
        /\ GoOn(c, "resolve")
     \/ /\ ~(status = "Reporting" /\ Ratable)
        /\ Fail(c)
  /\ UNCHANGED <<rowVars, state>>

\* Mutant of ResolveMatch: the row of an earlier attempt is written over.
ResolveMatchOver(c) ==
  /\ At(c, Rating, "resolve")
  /\ result' = verdict
  /\ rated' = rated + 1
  /\ status' = "Resolved"
  /\ GoOn(c, "free_a")
  /\ UNCHANGED <<accepted, connected, state>>

\* One transaction; match_results has one row for a match.
ResolveMatch(c) ==
  /\ At(c, Rating, "resolve")
  /\ \/ /\ result = NoOne
        /\ result' = verdict
        /\ rated' = rated + 1
        /\ status' = "Resolved"
        /\ GoOn(c, "free_a")
     \/ /\ result # NoOne
        /\ Fail(c)
        /\ UNCHANGED <<result, rated, status>>
  /\ UNCHANGED <<accepted, connected, state>>

\* Mutant of FreePlayers: only the first player is freed.
FreePlayersFirst(c) ==
  /\ At(c, Rating, "free_a")
  /\ state' = [state EXCEPT ![A] = "InMenus"]
  /\ IF attempt[c].of = "finish_match" THEN GoOn(c, "tell_a") ELSE Complete(c)
  /\ UNCHANGED rowVars

FreePlayers(c) ==
  /\ \/ /\ At(c, Rating, "free_a")
        /\ state' = [state EXCEPT ![A] = "InMenus"]
        /\ GoOn(c, "free_b")
     \/ /\ At(c, Rating, "free_b")
        /\ state' = [state EXCEPT ![B] = "InMenus"]
        /\ IF attempt[c].of = "finish_match" THEN GoOn(c, "tell_a") ELSE Complete(c)
  /\ UNCHANGED rowVars

RateMatch(c) ==
  ReopenForForfeit(c) \/ ReadToRate(c) \/ ResolveMatch(c) \/ FreePlayers(c)

\* A player who is not connected has no session to tell.
SignalSessionComplete(c) ==
  /\ \E p \in Players :
       /\ At(c, {"finish_match"}, IF p = A THEN "tell_a" ELSE "tell_b")
       /\ \/ p \in Online /\ inbox' = [inbox EXCEPT ![p] = @ \cup {"complete"}]
          \/ inbox' = inbox
       /\ IF p = A THEN GoOn(c, "tell_b") ELSE Complete(c)
  /\ UNCHANGED <<rowVars, state, toNotify, struck>>

(* resolve_dispute; reporting_complete refuses a player who is not Reporting. *)

ReportingComplete(p) ==
  state' = [state EXCEPT ![p] = IF @ = "Reporting" THEN "InMenus" ELSE @]

ResolveDispute(c) ==
  \/ /\ At(c, {"resolve_dispute"}, "read")
     /\ IF status # "Resolved" THEN GoOn(c, "dispute") ELSE Complete(c)
     /\ UNCHANGED <<rowVars, state>>
  \/ /\ At(c, {"resolve_dispute"}, "dispute")
     /\ status' = "Disputed"
     /\ GoOn(c, "free_a")
     /\ UNCHANGED <<accepted, connected, result, rated, state>>
  \/ /\ At(c, {"resolve_dispute"}, "free_a")
     /\ ReportingComplete(A)
     /\ GoOn(c, "free_b")
     /\ UNCHANGED rowVars
  \/ /\ At(c, {"resolve_dispute"}, "free_b")
     /\ ReportingComplete(B)
     /\ Complete(c)
     /\ UNCHANGED rowVars

VerifyMatch(c) ==
  /\ At(c, {"verify"}, "read")
  /\ Complete(c)
  /\ UNCHANGED <<rowVars, state>>

RunAttempt(c) ==
  \/ /\ \/ VerifyMatch(c) \/ AcceptMatch(c) \/ MarkAccepts(c) \/ HandleDecline(c)
        \/ ConnectPlayer(c) \/ RateMatch(c) \/ ResolveDispute(c)
     /\ UNCHANGED <<sessionVars, struck>>
  \/ SignalSessionComplete(c)

-----------------------------------------------------------------------------
(* The workflow: a wait ends by its timer or by its condition, whichever the *)
(* workflow sees first.  A signal may come with the timer: the timer wins.   *)

DecideNothing == UNCHANGED <<accepts, declined, started, whoWon, verdict>>

\* pair_matches starts it when the match is committed.
StartP2PMatch ==
  /\ stage = "unstarted"
  /\ stage' = "verify"
  /\ DecideNothing

AcceptTimeout ==
  /\ stage = "await_accept"
  /\ stage' = "handle_decline"
  /\ DecideNothing

\* Both have accepted, and no third user.
AcceptOver ==
  /\ stage = "await_accept"
  /\ \/ declined /\ stage' = "handle_decline"
     \/ ~declined /\ accepts = Players /\ stage' = "accept_a"
  /\ DecideNothing

\* Mutant of ForfeitWinner: whoever is first in the list of those who started.
ForfeitWinnerFirst ==
  IF started # {} THEN CHOOSE u \in Users : u \in started ELSE DoubleLoss

\* One has started: he wins, whoever he is.  Otherwise both lose.
ForfeitWinner ==
  IF \E u \in Users : started = {u} THEN CHOOSE u \in Users : started = {u}
  ELSE DoubleLoss

StartTimeout ==
  /\ stage = "await_start"
  /\ stage' = "resolve_start_forfeit"
  /\ verdict' = ForfeitWinner
  /\ UNCHANGED <<accepts, declined, started, whoWon>>

StartOver ==
  /\ stage = "await_start"
  /\ Players \subseteq started
  /\ stage' = "connect_a"
  /\ DecideNothing

Reporters == {u \in Users : whoWon[u] # NoOne}

\* Mutant of ReportTimeout: the timer stops at the first report.
ReportTimeoutSilent ==
  /\ stage = "await_report"
  /\ Reporters = {}
  /\ stage' = "resolve_dispute"
  /\ DecideNothing

ReportTimeout ==
  /\ stage = "await_report"
  /\ stage' = "resolve_dispute"
  /\ DecideNothing

\* Two reports, of anyone; those of the players are compared, one missing or both.
ReportOver ==
  /\ stage = "await_report"
  /\ Cardinality(Reporters) = 2
  /\ \/ /\ whoWon[A] = whoWon[B]
        /\ stage' = "finish_match"
        /\ verdict' = whoWon[A]
     \/ /\ whoWon[A] # whoWon[B]
        /\ stage' = "resolve_dispute"
        /\ UNCHANGED verdict
  /\ UNCHANGED <<accepts, declined, started, whoWon>>

WorkflowStep ==
  /\ \/ StartP2PMatch \/ AcceptTimeout \/ AcceptOver \/ StartTimeout \/ StartOver
     \/ ReportTimeout \/ ReportOver
  /\ UNCHANGED <<rowVars, state, attempt, sessionVars, struck>>

-----------------------------------------------------------------------------
(* Signals of any client, and of the rock-paper-scissors referee. *)

UntilAccepted == {"verify", "await_accept"}
UntilStarted  == UntilAccepted \cup {"accept_a", "accept_b", "mark_accepts", "await_start"}
UntilReported == UntilStarted \cup {"connect_a", "connect_b", "await_report"}

MatchChoice(p) ==
  /\ stage \in UntilAccepted
  /\ \/ accepts' = accepts \cup {p} /\ UNCHANGED declined
     \/ declined' = TRUE /\ UNCHANGED accepts
  /\ UNCHANGED <<stage, started, whoWon, verdict>>

SignalStart(p) ==
  /\ stage \in UntilStarted
  /\ started' = started \cup {p}
  /\ UNCHANGED <<stage, accepts, declined, whoWon, verdict>>

\* A report replaces the one the player has made before.
SignalWhoWon(p, winner) ==
  /\ stage \in UntilReported
  /\ whoWon' = [whoWon EXCEPT ![p] = winner]
  /\ UNCHANGED <<stage, accepts, declined, started, verdict>>

\* What strangers have signalled, and the strangers the players have named.
Stray ==
  Cardinality(accepts \ Players) + Cardinality(started \ Players)
    + Cardinality(Reporters \ Players) + Cardinality({whoWon[p] : p \in Players} \cap Strangers)

\* Neither the sender nor the winner he names need be of the match.
Signal ==
  /\ \E u \in Users :
       MatchChoice(u) \/ SignalStart(u) \/ \E w \in Users : SignalWhoWon(u, w)
  /\ Stray' <= MaxStray
  /\ UNCHANGED <<rowVars, state, attempt, sessionVars, struck>>

-----------------------------------------------------------------------------
(* The players' sessions. *)

NotifyMatchFound(p) ==
  /\ p \in toNotify /\ stage # "unstarted"
  /\ toNotify' = toNotify \ {p}
  /\ \/ p \in Online /\ inbox' = [inbox EXCEPT ![p] = @ \cup {"found"}]
     \/ inbox' = inbox
  /\ UNCHANGED <<rowVars, state, workflowVars, attempt, struck>>

\* Each signal is handled by an activity of its own, in any order.
HandleSignal(p, signal) ==
  /\ signal \in inbox[p]
  /\ inbox' = [inbox EXCEPT ![p] = @ \ {signal}]
  /\ state' = [state EXCEPT ![p] = IF signal = "found" THEN "InMatch" ELSE "InMenus"]
  /\ UNCHANGED <<rowVars, workflowVars, attempt, toNotify, struck>>

\* The socket of a player whose session has not learnt of the match is closed.
Disconnect(p) ==
  /\ state[p] = "Queueing" /\ p \in Online
  /\ state' = [state EXCEPT ![p] = "InMenus"]
  /\ UNCHANGED <<rowVars, workflowVars, attempt, sessionVars, struck>>

Session(p) ==
  \/ NotifyMatchFound(p)
  \/ \E signal \in {"found", "complete"} : HandleSignal(p, signal)

-----------------------------------------------------------------------------
(* What may go wrong. *)

Strike(fault) ==
  /\ fault \in Faults \ struck
  /\ Cardinality(struck) < MaxFaults
  /\ struck' = struck \cup {fault}

\* No answer within five seconds: the attempt goes on, but another is started.
Overrun ==
  /\ Strike("overrun")
  /\ attempt["awaited"] # Idle
  /\ attempt' = [attempt EXCEPT !["given_up"] = attempt["awaited"], !["awaited"] = Idle]
  /\ UNCHANGED <<rowVars, state, workflowVars, sessionVars>>

\* The server dies with the attempts it runs, and with pair_matches.
Crash ==
  /\ Strike("crash")
  /\ attempt' = [c \in Slots |-> Idle]
  /\ toNotify' = {}
  /\ stage' = IF stage = "unstarted" THEN "lost" ELSE stage
  /\ UNCHANGED <<rowVars, state, fieldVars, inbox>>

\* The statements whose error is ignored, and what follows them; "none" ends the
\* attempt, as completed.
IgnoredErrors ==
  { <<"mark_accepts", "mark", "promote">>,     <<"mark_accepts", "promote", "none">>,
    <<"handle_decline", "read", "record">>,    <<"handle_decline", "dispute", "record">>,
    <<"handle_decline", "record", "none">>,    <<"resolve_start_forfeit", "reopen", "read">>,
    <<"finish_match", "read", "none">>,        <<"resolve_dispute", "read", "none">>,
    <<"resolve_dispute", "dispute", "free_a">>, <<"resolve_dispute", "free_a", "free_b">>,
    <<"resolve_dispute", "free_b", "none">> }

StatementFails(c) ==
  /\ Strike("failure")
  /\ \E e \in IgnoredErrors :
       /\ At(c, {e[1]}, e[2])
       /\ IF e[3] = "none" THEN Complete(c) ELSE GoOn(c, e[3])
  /\ UNCHANGED <<rowVars, state, sessionVars>>

-----------------------------------------------------------------------------
Init ==
  /\ status = "PendingAccept" /\ accepted = {} /\ connected = {}
  /\ result = NoOne /\ rated = 0
  /\ state = [p \in Players |-> "Queueing"]
  /\ stage = "unstarted"
  /\ accepts = {} /\ declined = FALSE /\ started = {}
  /\ whoWon = [u \in Users |-> NoOne]
  /\ verdict = NoOne
  /\ attempt = [c \in Slots |-> Idle]
  /\ toNotify = Online
  /\ inbox = [p \in Players |-> {}]
  /\ struck = {}

\* The match is over, or nothing will ever move it again.
Over ==
  /\ stage \in {"lost", "done"}
  /\ toNotify = {} /\ attempt = [c \in Slots |-> Idle]
  /\ \A p \in Online : inbox[p] = {} /\ state[p] # "Queueing"
  /\ UNCHANGED vars

Next ==
  \/ WorkflowStep
  \/ BeginAttempt
  \/ \E c \in Slots : RunAttempt(c)
  \/ Signal
  \/ \E p \in Online : Session(p) \/ Disconnect(p)
  \/ Overrun
  \/ Crash
  \/ \E c \in Slots : StatementFails(c)
  \/ Over

Spec == Init /\ [][Next]_vars

\* A worker runs what the workflow awaits, timers fire, sessions handle signals.
Fairness ==
  /\ WF_vars(WorkflowStep)
  /\ WF_vars(BeginAttempt)
  /\ \A c \in Slots : WF_vars(RunAttempt(c))
  /\ \A p \in Online : WF_vars(Session(p))

FairSpec == Spec /\ Fairness

-----------------------------------------------------------------------------
(* Properties. *)

\* The type of every variable.
TypeOK ==
  /\ status \in Statuses
  /\ accepted \subseteq Players /\ connected \subseteq Players
  /\ result \in Players \cup {DoubleLoss, NoOne} /\ rated \in Nat
  /\ state \in [Players -> {"Queueing", "InMatch", "Reporting", "InMenus"}]
  /\ stage \in Stages
  /\ accepts \subseteq Users /\ declined \in BOOLEAN
  /\ started \subseteq Users
  /\ whoWon \in [Users -> Users \cup {NoOne}]
  /\ verdict \in Users \cup {DoubleLoss, NoOne}
  /\ attempt \in [Slots -> Attempts]
  /\ toNotify \subseteq Players
  /\ inbox \in [Players -> SUBSET {"found", "complete"}]
  /\ struck \subseteq Faults

\* A match is rated only after both accepted it and no one else did, and its winner is
\* one of the two: the one both reported, having both started, or the only user who
\* started.  It is not a double loss if one user alone started; a stranger counts, so
\* with his start a match only one player started is one.
RatedAsPlayed ==
  result # NoOne =>
    /\ accepts = Players /\ ~declined /\ accepted = Players
    /\ \/ result \in Players /\ started = {result}
       \/ /\ result \in Players
          /\ Players \subseteq started /\ \A p \in Players : whoWon[p] = result
       \/ result = DoubleLoss /\ \A u \in Users : started # {u}

\* Whatever is tried again, overlaps or dies, ratings are changed once, by the
\* transaction that writes the result, and the result is never another.
RatedForGood ==
  [][ /\ result # NoOne => result' = result
      /\ rated' # rated => rated = 0 /\ result = NoOne /\ result' = verdict ]_vars

\* A workflow that has ended leaves a match that has ended, if no statement failed
\* unseen: no crash and no retry makes it end early.
EndedWhenDone ==
  (stage = "done" /\ struck \subseteq {"crash"}) => status \in {"Resolved", "Disputed"}

\* Without faults the workflow of a paired match ends, whatever its players and others
\* signal, unless it has decided on a winner who does not play, or on none: then the
\* activity that rates is refused for ever.
EndsWithoutFaults ==
  (stage = "unstarted") ~> (stage = "done" \/ struck # {} \/ (stage \in Rating /\ ~Ratable))

\* A player whose session had learnt of the match when a winner who plays, or a double
\* loss, was decided is back in the menus after it, without faults.
FreedAfterRating ==
  \A p \in Players :
    (Ratable /\ result = NoOne /\ p \notin toNotify /\ "found" \notin inbox[p])
      ~> (state[p] = "InMenus" \/ struck # {})

=============================================================================
