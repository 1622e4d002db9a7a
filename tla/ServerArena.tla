----------------------------- MODULE ServerArena -----------------------------
(***************************************************************************)
(* One match of a mode played on a game server: the two players accept it  *)
(* in handlers of their connections, the ticker asks the creator for a     *)
(* server and disputes what lasts too long, and the game server reports    *)
(* the result to a callback.  No workflow owns such a match: every step is *)
(* a statement of its own, and what was read before it may be stale.       *)
(*                                                                         *)
(* The audit rows of match_events and the messages to the players are left *)
(* out; nothing of the match reads them.                                   *)
(***************************************************************************)
EXTENDS Integers

CONSTANTS
  PlayerA, PlayerB,
  Sockets,    \* one player's connections; each handles a message at a time
  Callbacks,  \* the requests to the result callback
  MaxFaults   \* bound: crashes of the server, and requests cut short

ASSUME PlayersAssumption == PlayerA # PlayerB
ASSUME FaultsAssumption == MaxFaults \in Nat

Players == {PlayerA, PlayerB}
Statuses == {"PendingAccept", "InProgress", "Playing", "Resolved", "Disputed"}
Terminal == {"Resolved", "Disputed"}

\* A connection that was replaced finishes the message it is at.
Connections == Players \X Sockets

VARIABLES
  status,    \* matches.status
  accepted,  \* the players whose accepted_a, accepted_b is set
  server,    \* server_address is set
  allocDue,  \* the allocation timeout has passed since accepted_at
  resultDue, \* the result timeout has passed since started_at
  rated,     \* how many times the ratings were written
  pstate,    \* player_state.state of each player
  accepting, \* where the AcceptMatch handler of each connection is
  callback,  \* where the game_result handler of each request is
  tick,      \* where the ticker is
  listDue,   \* the timeout has passed for the row as the ticker listed it
  asked,     \* the creator has been asked for a server
  faults     \* how many faults there have been

matchVars  == <<status, accepted, server, allocDue, resultDue, rated>>
tickVars   == <<tick, listDue, asked>>
vars == <<matchVars, pstate, accepting, callback, tickVars, faults>>

AcceptStages   == {"idle", "seen", "marked", "both"}
CallbackStages == {"new", "seen", "rated", "freed", "done"}
TickStages     == {"idle", "before", "listed", "asked", "reading", "after",
                   "expire", "dispute", "free", "freed"}

\* Where the ticker reads an answer of the creator, about this match or about those
\* it asks for before and after it: only the wait for the answer's head is bounded.
Reading == {"before", "reading", "after"}

\* The ticker pairs the two and inserts their match; it does not tell their
\* sessions, and their state stays Queueing.
Init ==
  /\ status = "PendingAccept" /\ accepted = {} /\ server = FALSE
  /\ allocDue = FALSE /\ resultDue = FALSE /\ rated = 0
  /\ pstate = [p \in Players |-> "Queueing"]
  /\ accepting = [c \in Connections |-> "idle"]
  /\ callback = [c \in Callbacks |-> "new"]
  /\ tick = "idle" /\ listDue = FALSE /\ asked = FALSE
  /\ faults = 0

SetInMenus(p) == pstate' = [pstate EXCEPT ![p] = "InMenus"]

\* Either timeout passes; a row the ticker has listed grows older with it.
Elapse ==
  /\ \/ /\ accepted # {} /\ ~allocDue
        /\ allocDue' = TRUE /\ listDue' = (tick \in {"before", "listed"} \/ listDue)
        /\ UNCHANGED resultDue
     \/ /\ server /\ ~resultDue
        /\ resultDue' = TRUE /\ UNCHANGED <<allocDue, listDue>>
  /\ UNCHANGED <<status, accepted, server, rated, pstate, accepting, callback, tick, asked,
                 faults>>

-----------------------------------------------------------------------------
(* accept_match: a connection's handler, statement by statement. *)

Accepting(c, from, to) ==
  /\ accepting[c] = from
  /\ accepting' = [accepting EXCEPT ![c] = to]
  /\ UNCHANGED <<server, resultDue, rated, pstate, callback, tickVars, faults>>

\* A match in another status is refused.
AcceptRead(c) ==
  /\ status = "PendingAccept"
  /\ Accepting(c, "idle", "seen")
  /\ UNCHANGED <<status, accepted, allocDue>>

\* accepted_at is now, whoever accepted before.
MarkAccepted(c) ==
  /\ accepted' = accepted \cup {c[1]} /\ allocDue' = FALSE
  /\ Accepting(c, "seen", "marked")
  /\ UNCHANGED status

\* Mutant of AcceptCount: one flag is enough.
AcceptCountAny(c) ==
  /\ Accepting(c, "marked", IF accepted # {} THEN "both" ELSE "idle")
  /\ UNCHANGED <<status, accepted, allocDue>>

AcceptCount(c) ==
  /\ Accepting(c, "marked", IF accepted = Players THEN "both" ELSE "idle")
  /\ UNCHANGED <<status, accepted, allocDue>>

\* update_match_status, whatever the status is by now.
AcceptStart(c) ==
  /\ Accepting(c, "both", "idle")
  /\ status' = "InProgress"
  /\ UNCHANGED <<accepted, allocDue>>

AcceptGoesOn(c) == MarkAccepted(c) \/ AcceptCount(c) \/ AcceptStart(c)
NoAcceptAtWork == \A c \in Connections : accepting[c] = "idle"

-----------------------------------------------------------------------------
(* game_result: the callback the game server posts to. *)

Answering(c, from, to) ==
  /\ callback[c] = from
  /\ callback' = [callback EXCEPT ![c] = to]
  /\ UNCHANGED <<accepted, server, allocDue, resultDue, accepting, tickVars, faults>>

\* The URL is known once the creator was asked, whatever became of the answer.
ResultRead(c) ==
  /\ asked
  /\ Answering(c, "new", IF status = "Playing" THEN "seen" ELSE "done")
  /\ UNCHANGED <<status, rated, pstate>>

\* Mutant of ResolveMatch: the result row is inserted ON CONFLICT DO NOTHING.
ResolveMatchAgain(c) ==
  /\ Answering(c, "seen", "rated")
  /\ rated' = rated + 1 /\ status' = "Resolved"
  /\ UNCHANGED pstate

\* One transaction; the row of match_results has the token as its key, and a
\* second one rolls everything back.
ResolveMatch(c) ==
  /\ Answering(c, "seen", IF rated = 0 THEN "rated" ELSE "done")
  /\ rated' = 1
  /\ status' = IF rated = 0 THEN "Resolved" ELSE status
  /\ UNCHANGED pstate

\* Mutant of ResultFree: the second player is forgotten.
ResultFreeOne(c) ==
  /\ \/ Answering(c, "rated", "freed") /\ SetInMenus(PlayerA)
     \/ Answering(c, "freed", "done") /\ UNCHANGED pstate
  /\ UNCHANGED <<status, rated>>

ResultFree(c) ==
  /\ \/ Answering(c, "rated", "freed") /\ SetInMenus(PlayerA)
     \/ Answering(c, "freed", "done") /\ SetInMenus(PlayerB)
  /\ UNCHANGED <<status, rated>>

\* The caller hangs up and the handler is dropped at an await.
ResultDropped(c) ==
  /\ callback[c] \notin {"new", "done"} /\ faults < MaxFaults
  /\ callback' = [callback EXCEPT ![c] = "done"] /\ faults' = faults + 1
  /\ UNCHANGED <<matchVars, pstate, accepting, tickVars>>

GameResult(c) == ResolveMatch(c) \/ ResultFree(c)

-----------------------------------------------------------------------------
(* The ticker: allocation, then expiry. *)

Ticking(from, to) ==
  /\ tick = from /\ tick' = to
  /\ UNCHANGED <<accepted, allocDue, rated, accepting, callback, faults>>

\* Matches in progress that have no server yet.
TickList ==
  /\ LET found == status = "InProgress" /\ ~server
     IN Ticking("idle", IF found THEN "before" ELSE "after") /\ listDue' = (found /\ allocDue)
  /\ UNCHANGED <<status, server, resultDue, asked, pstate>>

\* The other matches listed are through with.
TickOthers ==
  /\ Ticking("before", "listed") \/ Ticking("after", "expire")
  /\ UNCHANGED <<status, server, resultDue, listDue, asked, pstate>>

\* The players' state is left as it is.
TickTimeout ==
  /\ listDue /\ Ticking("listed", "after") /\ status' = "Disputed"
  /\ UNCHANGED <<server, resultDue, listDue, asked, pstate>>

\* Mutant of TickAllocate: the age is not looked at.
TickAllocateForever ==
  /\ Ticking("listed", "asked") /\ asked' = TRUE
  /\ UNCHANGED <<status, server, resultDue, listDue, pstate>>

TickAllocate ==
  /\ ~listDue /\ Ticking("listed", "asked") /\ asked' = TRUE
  /\ UNCHANGED <<status, server, resultDue, listDue, pstate>>

\* Within five seconds the head of the answer is there, or it is a refusal or
\* none: then the next tick tries again.
TickAnswered ==
  /\ Ticking("asked", "reading") \/ Ticking("asked", "after")
  /\ UNCHANGED <<status, server, resultDue, listDue, asked, pstate>>

\* The answer's body cannot be read, or the write fails: again, the next tick.
TickRefused ==
  /\ Ticking("reading", "after")
  /\ UNCHANGED <<status, server, resultDue, listDue, asked, pstate>>

MarkServerReady ==
  /\ Ticking("reading", "after")
  /\ status' = "Playing" /\ server' = TRUE /\ resultDue' = FALSE
  /\ UNCHANGED <<listDue, asked, pstate>>

\* expire_playing_matches lists the matches still playing ...
TickLook ==
  /\ Ticking("expire", IF status = "Playing" /\ resultDue THEN "dispute" ELSE "idle")
  /\ UNCHANGED <<status, server, resultDue, listDue, asked, pstate>>

\* ... and disputes a match, whatever its status is by now.
TickDispute ==
  /\ Ticking("dispute", "free") /\ status' = "Disputed"
  /\ UNCHANGED <<server, resultDue, listDue, asked, pstate>>

TickFree ==
  /\ \/ Ticking("free", "freed") /\ SetInMenus(PlayerA)
     \/ Ticking("freed", "idle") /\ SetInMenus(PlayerB)
  /\ UNCHANGED <<status, server, resultDue, listDue, asked>>

Tick == TickList \/ TickTimeout \/ TickAllocate \/ TickAnswered
        \/ TickLook \/ TickDispute \/ TickFree

\* An answer has been read to its end, which nothing but the creator brings about.
AnswerRead == TickOthers \/ TickRefused \/ MarkServerReady

\* The server dies with everything at work in it, and starts again.
Crash ==
  /\ faults < MaxFaults /\ faults' = faults + 1
  /\ accepting' = [c \in Connections |-> "idle"]
  /\ callback' = [c \in Callbacks |-> IF callback[c] = "new" THEN "new" ELSE "done"]
  /\ tick' = "idle" /\ listDue' = FALSE
  /\ UNCHANGED <<matchVars, pstate, asked>>

-----------------------------------------------------------------------------
Next ==
  \/ \E c \in Connections : AcceptRead(c) \/ AcceptGoesOn(c)
  \/ \E c \in Callbacks : ResultRead(c) \/ GameResult(c) \/ ResultDropped(c)
  \/ Tick \/ AnswerRead \/ Elapse \/ Crash

Spec == Init /\ [][Next]_vars

\* The ticker and the handlers go on and time passes.  Nobody has to accept, no
\* server need ever answer or end its answer, and no game server has to report.
Fairness ==
  /\ WF_vars(Tick) /\ WF_vars(Elapse)
  /\ \A c \in Connections : WF_vars(AcceptGoesOn(c))
  /\ \A c \in Callbacks : WF_vars(GameResult(c))

FairSpec == Spec /\ Fairness

-----------------------------------------------------------------------------
(* Properties. *)

\* Every variable keeps to its domain, and rated to the values a count can have.
TypeOK ==
  /\ status \in Statuses /\ accepted \subseteq Players
  /\ {server, allocDue, resultDue, listDue, asked} \subseteq BOOLEAN
  /\ rated \in Nat /\ faults \in 0 .. MaxFaults
  /\ pstate \in [Players -> {"Queueing", "InMenus"}]
  /\ accepting \in [Connections -> AcceptStages]
  /\ callback \in [Callbacks -> CallbackStages]
  /\ tick \in TickStages

\* A match leaves PendingAccept, and gets a server, only when both have
\* accepted: accept_match sets one flag and reads both in separate statements.
StartsWhenBothAccepted == status # "PendingAccept" \/ server => accepted = Players

\* The ratings are written at most once and only for a match that got a server,
\* though requests that read Playing together, or before the expiry, all try.
RatedOnce == rated <= 1 /\ (rated = 1 => server /\ accepted = Players)

\* A match that has ended stays ended, though the ticker writes Playing when the
\* creator has answered, however late, without a look at the status, and callbacks and the expiry
\* write theirs in any order: only an accept still at work can reopen it.
EndedStaysEnded == [][(status \in Terminal /\ NoAcceptAtWork) => status' \in Terminal]_vars

\* A match both have accepted ends, whatever the game server does and the creator
\* answers, refuses or leaves unanswered, unless it begins an answer, for this
\* match or another, and never ends it: the read is under no time-out, and the
\* ticker's one loop stands still with it.  An accept still at work may set the
\* match InProgress again under a server: the ticker never looks at such a row.
AcceptedMatchEnds ==
  []<>(tick \notin Reading) =>
    (((status = "Playing" \/ (status = "InProgress" /\ ~server)) /\ NoAcceptAtWork)
      ~> status \in Terminal)

\* When a match that got a server has ended, both players are freed, unless a
\* fault cuts the steps after the verdict short.
FreedAfterEnd ==
  (status \in Terminal /\ server)
    ~> (faults > 0 \/ \A p \in Players : pstate[p] = "InMenus")

==============================================================================
