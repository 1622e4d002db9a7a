----------------------------- MODULE UserSession -----------------------------
(***************************************************************************)
(* One player of a mode queued for without a lease: the connections he     *)
(* opens one after the other or at once, the session workflow of each,     *)
(* the player's row in the queue, his state, and the ticker's sweep.       *)
(*                                                                         *)
(* A session's signals are handled in order, but a handler waits for its   *)
(* activities, and others run meanwhile.  An activity is tried until an    *)
(* attempt's answer arrives.  A session that ends drops its handlers where *)
(* they are.                                                               *)
(*                                                                         *)
(* Players meet only in pairing, which is here what it does to this one.   *)
(***************************************************************************)
EXTENDS Integers, SequencesExt

CONSTANTS
  Connections,  \* one WebSocket each; its session has the same name
  MaxHandlers,  \* bound: handlers at work at a time
  MaxRequests,  \* bound: requests to queue or to cancel
  MaxMatches    \* bound: matches of the player at a time

ASSUME BoundsAssumption == {MaxHandlers, MaxRequests, MaxMatches} \subseteq Nat

NoConnection == "none"
ASSUME NoConnectionAssumption == NoConnection \notin Connections

VARIABLES
  row,      \* the player has a row in matchmaking_queue
  pstate,   \* player_state.state
  fresh,    \* player_state.last_heartbeat is less than 30 s old
  socket,   \* where handle_socket of each connection is
  current,  \* the connection in the player's entry of state.connections
  run,      \* the run of each session
  queued,   \* each session's copy: the field queued is set
  left,     \* each session's field disconnected
  handlers, \* the handlers at work, the oldest first
  sweep,    \* where the ticker's sweep is
  matches,  \* matches of the player that have not ended
  due,      \* signals the end of a pairing or of a match has yet to send
  requests, \* how many requests have been made
  asked     \* history: the last request, if nothing else has happened since

playerVars  == <<row, pstate, fresh>>
gatewayVars == <<socket, current>>
sessionVars == <<run, queued, left>>
matchVars   == <<matches, due>>
requestVars == <<requests, asked>>
vars == <<playerVars, gatewayVars, sessionVars, handlers, sweep, matchVars, requestVars>>

Signals == {"queue", "unqueue", "match_found", "match_complete", "disconnect",
            "queue_expired"}
SocketStages == {"new", "started", "open", "counting", "reading", "resetting",
                 "removing", "gone"}

\* The activity a handler waits for, or the answer it goes on with.  enter_queue
\* is two statements; sync_session is called by the run and by unqueue.
Activities == {"set_queueing", "enter_queue", "heartbeat", "leave_queue", "set_in_menus",
               "set_in_match", "set_complete", "sync_run", "sync_unqueue"}
Answers == {"entered", "left", "in_match", "run_row", "run_none", "unqueue_row",
            "unqueue_none"}
Handlers == [of : Connections, at : Activities \cup Answers]
At == 1 .. MaxHandlers

-----------------------------------------------------------------------------
(* Handlers and their activities. *)

\* Whatever the player has asked for last, something else has happened since.
Disturb == asked' = "nothing" /\ UNCHANGED requests

Begin(s, activity) ==
  /\ Len(handlers) < MaxHandlers
  /\ handlers' = Append(handlers, [of |-> s, at |-> activity])

GoOn(i, stage) == handlers' = [handlers EXCEPT ![i].at = stage]
Finish(i) == handlers' = RemoveAt(handlers, i)

\* What a statement does to the player's rows.
Write(op) ==
  /\ row' = IF op = "enter_queue" THEN TRUE ELSE IF op = "leave_queue" THEN FALSE ELSE row
  /\ fresh' = IF op = "heartbeat" THEN TRUE ELSE fresh
  /\ pstate' = IF op = "set_queueing" THEN "Queueing"
               ELSE IF op = "set_in_match" THEN "InMatch"
               ELSE IF op \in {"set_in_menus", "set_complete"} THEN "InMenus" ELSE pstate

\* What a handler does next; an answer its session does not look at is passed over.
Answer(at) ==
  IF at = "set_queueing" THEN "enter_queue"
  ELSE IF at = "enter_queue" THEN "heartbeat"
  ELSE IF at = "heartbeat" THEN "entered"
  ELSE IF at = "leave_queue" THEN "left"
  ELSE IF at = "set_in_match" THEN "in_match"
  ELSE IF at = "sync_run" THEN IF row THEN "run_row" ELSE "run_none"
  ELSE IF row THEN "unqueue_row" ELSE "unqueue_none"

\* Nothing waits for the last write of a handler, or for one whose session has
\* ended; enter_queue's second statement is part of the same attempt.
RunActivity(i) ==
  /\ i <= Len(handlers)
  /\ LET h == handlers[i] IN
       /\ h.at \in Activities
       /\ Write(h.at)
       /\ IF \/ h.at \in {"set_in_menus", "set_complete"}
             \/ run[h.of] # "running" /\ h.at # "enter_queue"
          THEN Finish(i)
          ELSE GoOn(i, Answer(h.at))
  /\ UNCHANGED <<gatewayVars, sessionVars, sweep, matchVars, requestVars>>

\* The answer is lost; the activity will be tried again.
LoseAnswer(i) ==
  /\ i <= Len(handlers)
  /\ LET h == handlers[i] IN
       /\ h.at \in Activities \ {"enter_queue"}
       /\ Write(h.at)
       /\ IF h.at = "heartbeat" THEN GoOn(i, "enter_queue") ELSE UNCHANGED handlers
  /\ Disturb
  /\ UNCHANGED <<gatewayVars, sessionVars, sweep, matchVars>>

\* The handler goes on with the answer, to its next activity or to its end.
Resume(i) ==
  /\ i <= Len(handlers)
  /\ LET s == handlers[i].of
         at == handlers[i].at
     IN \/ /\ at = "entered"
           /\ Finish(i)
           /\ queued' = [queued EXCEPT ![s] = TRUE]
        \/ /\ at \in {"run_row", "run_none"}
           /\ Finish(i)
           /\ queued' = [queued EXCEPT ![s] = at = "run_row"]
        \/ /\ at = "unqueue_none"
           /\ Finish(i)
           /\ UNCHANGED queued
        \/ /\ at = "unqueue_row"
           /\ GoOn(i, "leave_queue")
           /\ queued' = [queued EXCEPT ![s] = FALSE]
        \/ /\ at = "left"
           /\ IF queued[s] THEN Finish(i) ELSE GoOn(i, "set_in_menus")
           /\ UNCHANGED queued
        \/ /\ at = "in_match"
           /\ Finish(i)
           /\ queued' = [queued EXCEPT ![s] = FALSE]
  /\ UNCHANGED <<playerVars, gatewayVars, run, left, sweep, matchVars, requestVars>>

\* An activity of a session that has ended need not be done.
Drop(i) ==
  /\ i <= Len(handlers) /\ run[handlers[i].of] # "running"
  /\ Finish(i)
  /\ UNCHANGED <<playerVars, gatewayVars, sessionVars, sweep, matchVars, requestVars>>

-----------------------------------------------------------------------------
(* Signals: each handler up to the first activity it waits for. *)

Queue(s) ==
  /\ IF queued[s] THEN UNCHANGED handlers ELSE Begin(s, "set_queueing")
  /\ UNCHANGED <<queued, left>>

\* Mutant of Unqueue: a session without a copy has nothing to leave.
UnqueueByCopy(s) ==
  /\ IF queued[s] THEN Begin(s, "leave_queue") ELSE UNCHANGED handlers
  /\ queued' = [queued EXCEPT ![s] = FALSE]
  /\ UNCHANGED left

\* The copy is cleared first; without one the row itself is asked for.
Unqueue(s) ==
  /\ Begin(s, IF queued[s] THEN "leave_queue" ELSE "sync_unqueue")
  /\ queued' = [queued EXCEPT ![s] = FALSE]
  /\ UNCHANGED left

MatchFound(s) == Begin(s, "set_in_match") /\ UNCHANGED <<queued, left>>
MatchComplete(s) == Begin(s, "set_complete") /\ UNCHANGED <<queued, left>>

SetDisconnected(s) ==
  /\ left' = [left EXCEPT ![s] = TRUE]
  /\ UNCHANGED <<queued, handlers>>

QueueExpired(s) ==
  /\ queued' = [queued EXCEPT ![s] = FALSE]
  /\ UNCHANGED <<left, handlers>>

Handle(s, signal) ==
  /\ s \in Connections /\ run[s] = "running"
  /\ \/ signal = "queue" /\ Queue(s)
     \/ signal = "unqueue" /\ Unqueue(s)
     \/ signal = "match_found" /\ MatchFound(s)
     \/ signal = "match_complete" /\ MatchComplete(s)
     \/ signal = "disconnect" /\ SetDisconnected(s)
     \/ signal = "queue_expired" /\ QueueExpired(s)

\* A signal is lost when its session has ended or Temporal cannot be reached.
Lose == UNCHANGED <<queued, left, handlers>>
Send(s, signal) == Handle(s, signal) \/ Lose

-----------------------------------------------------------------------------
(* The run of a session. *)

Busy(s, stages) == \E h \in ToSet(handlers) : h.of = s /\ h.at \in stages
Synced(s) == ~Busy(s, {"sync_run", "run_row", "run_none"})

\* What the ended session was waiting for may still be done.
EndRun(s) ==
  /\ run[s] = "running" /\ Synced(s)
  /\ run' = [run EXCEPT ![s] = "ended"]
  /\ queued' = [queued EXCEPT ![s] = FALSE]
  /\ left' = [left EXCEPT ![s] = FALSE]
  /\ UNCHANGED <<playerVars, gatewayVars, handlers, sweep, matchVars, requestVars>>

EndOfConnection(s) == left[s] /\ EndRun(s)

\* Mutant of Expire: only the disconnect signal ends a session.
ExpireNever(s) == EndOfConnection(s)

\* SESSION_TTL; connections of a day or more are left out.
Expire(s) == socket[s] = "gone" /\ EndRun(s)

-----------------------------------------------------------------------------
(* The gateway: handle_socket from its registration to its end. *)

MoveTo(s, stage) == socket' = [socket EXCEPT ![s] = stage]

\* The session is started, if Temporal can be reached, before the connection
\* is registered; its run first asks for the player's row.
Connect(s) ==
  /\ socket[s] = "new"
  /\ MoveTo(s, "started")
  /\ \/ Begin(s, "sync_run") /\ run' = [run EXCEPT ![s] = "running"]
     \/ UNCHANGED <<handlers, run>>
  /\ UNCHANGED <<playerVars, current, queued, left, sweep, matchVars, requestVars>>

Register(s) ==
  /\ socket[s] = "started"
  /\ MoveTo(s, "open")
  /\ current' = s
  /\ UNCHANGED <<playerVars, sessionVars, handlers, sweep, matchVars, requestVars>>

\* Nothing is at work that may act on the player, handlers at stages left aside.
QuietBut(stages) ==
  /\ \A h \in ToSet(handlers) : h.at \in stages
  /\ \A s \in Connections : socket[s] \in {"new", "started", "open", "gone"}
  /\ sweep = "idle" /\ matches = 0 /\ due = {}
Quiet == QuietBut({"sync_run", "run_row", "run_none"})

\* What is recorded of a request: itself when nothing disturbs it.  One to queue
\* must find the session without a copy, and nothing that may still give it one.
Recorded(s, request) ==
  IF request = "unqueue" THEN IF Quiet THEN "unqueue" ELSE "nothing"
  ELSE IF queued[s] THEN "nothing"
  ELSE IF QuietBut({}) THEN "queue" ELSE "nothing"

\* BeginMatchmaking, CancelMatchmaking
Request(s, request) ==
  /\ socket[s] = "open"
  /\ requests < MaxRequests
  /\ requests' = requests + 1
  /\ \/ /\ Handle(s, request)
        /\ asked' = Recorded(s, request)
     \/ /\ Lose
        /\ asked' = "nothing"
  /\ UNCHANGED <<playerVars, gatewayVars, run, sweep, matchVars>>

Heartbeat(s) ==
  /\ socket[s] = "open"
  /\ fresh' = TRUE
  /\ UNCHANGED <<row, pstate, gatewayVars, sessionVars, handlers, sweep, matchVars, requestVars>>

\* Mutant of Close: the signal goes to the player's present connection.
CloseCurrent(s) ==
  /\ socket[s] = "open"
  /\ MoveTo(s, IF current = s THEN "counting" ELSE "gone")
  /\ Send(current, "disconnect")
  /\ Disturb
  /\ UNCHANGED <<playerVars, current, run, sweep, matchVars>>

\* The loop ends, the entry is compared with the socket's generation, and the
\* session is told; the end of a replaced connection is over with that.
Close(s) ==
  /\ socket[s] = "open"
  /\ MoveTo(s, IF current = s THEN "counting" ELSE "gone")
  /\ Send(s, "disconnect")
  /\ Disturb
  /\ UNCHANGED <<playerVars, current, run, sweep, matchVars>>

\* Mutant of LeaveMenus: a socket whose player is still queued ends at once.
LeaveMenusEarly(s) ==
  /\ \/ socket[s] = "counting" /\ MoveTo(s, IF row THEN "gone" ELSE "reading") /\ UNCHANGED pstate
     \/ socket[s] = "reading" /\ UNCHANGED pstate
        /\ MoveTo(s, IF pstate = "InMatch" THEN "removing" ELSE "resetting")
     \/ socket[s] = "resetting" /\ pstate' = "InMenus" /\ MoveTo(s, "removing")
  /\ UNCHANGED <<row, fresh, current, sessionVars, handlers, sweep, matchVars, requestVars>>

\* The queue and the state are read, and the player reset, one after the other.
LeaveMenus(s) ==
  /\ \/ /\ socket[s] = "counting"
        /\ MoveTo(s, IF row THEN "removing" ELSE "reading")
        /\ UNCHANGED pstate
     \/ /\ socket[s] = "reading"
        /\ MoveTo(s, IF pstate = "InMatch" THEN "removing" ELSE "resetting")
        /\ UNCHANGED pstate
     \/ /\ socket[s] = "resetting"
        /\ pstate' = "InMenus"
        /\ MoveTo(s, "removing")
  /\ UNCHANGED <<row, fresh, current, sessionVars, handlers, sweep, matchVars, requestVars>>

\* The player's entry is removed, whosever it is by now.
RemoveEntry(s) ==
  /\ socket[s] = "removing"
  /\ current' = NoConnection
  /\ MoveTo(s, "gone")
  /\ UNCHANGED <<playerVars, sessionVars, handlers, sweep, matchVars, requestVars>>

\* The server dies and starts again: no socket is left to say that it has ended.
Crash ==
  /\ \E s \in Connections : socket[s] \notin {"new", "gone"}
  /\ socket' = [s \in Connections |-> IF socket[s] = "new" THEN "new" ELSE "gone"]
  /\ current' = NoConnection
  /\ sweep' = "idle" /\ due' = {}
  /\ handlers' = [i \in DOMAIN handlers |->
                   IF handlers[i].at = "heartbeat"
                   THEN [handlers[i] EXCEPT !.at = "enter_queue"] ELSE handlers[i]]
  /\ Disturb
  /\ UNCHANGED <<playerVars, sessionVars, matches>>

-----------------------------------------------------------------------------
(* The ticker's sweep, and matches. *)

\* No heartbeat for 30 s.
Silence ==
  /\ fresh /\ fresh' = FALSE
  /\ UNCHANGED <<row, pstate, gatewayVars, sessionVars, handlers, sweep, matchVars, requestVars>>

\* Mutant of SweepDelete: only players who are queueing are swept.
SweepDeleteQueueing ==
  /\ sweep = "idle" /\ row /\ ~fresh /\ pstate = "Queueing"
  /\ row' = FALSE
  /\ sweep' = "reset"
  /\ Disturb
  /\ UNCHANGED <<pstate, fresh, gatewayVars, sessionVars, handlers, matchVars>>

SweepDelete ==
  /\ sweep = "idle" /\ row /\ ~fresh
  /\ row' = FALSE
  /\ sweep' = "reset"
  /\ Disturb
  /\ UNCHANGED <<pstate, fresh, gatewayVars, sessionVars, handlers, matchVars>>

SweepReset ==
  /\ sweep = "reset"
  /\ pstate' = "InMenus"
  /\ sweep' = "notify"
  /\ UNCHANGED <<row, fresh, gatewayVars, sessionVars, handlers, matchVars, requestVars>>

\* signal_queue_expired: to the session of the player's present entry.
SweepNotify ==
  /\ sweep = "notify"
  /\ Send(current, "queue_expired")
  /\ sweep' = "idle"
  /\ UNCHANGED <<playerVars, gatewayVars, run, matchVars, requestVars>>

\* The transaction that pairs looks at the state and takes the row.
Pair ==
  /\ row /\ pstate = "Queueing"
  /\ matches < MaxMatches
  /\ row' = FALSE
  /\ matches' = matches + 1
  /\ due' = due \cup {"match_found"}
  /\ Disturb
  /\ UNCHANGED <<pstate, fresh, gatewayVars, sessionVars, handlers, sweep>>

\* A result frees the player and is told to his session; a dispute is neither.
EndMatch ==
  /\ matches > 0
  /\ matches' = matches - 1
  /\ \/ pstate' = "InMenus" /\ due' = due \cup {"match_complete"}
     \/ UNCHANGED <<pstate, due>>
  /\ UNCHANGED <<row, fresh, gatewayVars, sessionVars, handlers, sweep, requestVars>>

\* notify_match_found, signal_session_complete
Notify(signal) ==
  /\ signal \in due
  /\ due' = due \ {signal}
  /\ Send(current, signal)
  /\ UNCHANGED <<playerVars, gatewayVars, run, sweep, matches, requestVars>>

-----------------------------------------------------------------------------
Init ==
  /\ row \in BOOLEAN /\ fresh = FALSE
  /\ pstate = IF row THEN "Queueing" ELSE "InMenus"
  /\ socket = [s \in Connections |-> "new"]
  /\ current = NoConnection
  /\ run = [s \in Connections |-> "none"]
  /\ queued = [s \in Connections |-> FALSE]
  /\ left = [s \in Connections |-> FALSE]
  /\ handlers = <<>>
  /\ sweep = "idle"
  /\ matches = 0 /\ due = {}
  /\ requests = 0 /\ asked = "nothing"

Client(s) ==
  Connect(s) \/ Register(s) \/ Heartbeat(s) \/ Request(s, "queue") \/ Request(s, "unqueue")

EndSocket(s) == Close(s) \/ LeaveMenus(s) \/ RemoveEntry(s)

Next ==
  \/ \E s \in Connections :
       Client(s) \/ EndSocket(s) \/ EndOfConnection(s) \/ Expire(s)
  \/ \E i \in At : RunActivity(i) \/ LoseAnswer(i) \/ Resume(i) \/ Drop(i)
  \/ \E signal \in Signals : Notify(signal)
  \/ Crash \/ Silence \/ SweepDelete \/ SweepReset \/ SweepNotify \/ Pair \/ EndMatch

Spec == Init /\ [][Next]_vars

\* An attempt whose answer is not lost.
Complete(i) == RunActivity(i) /\ handlers[i].at # "enter_queue"

\* Workers run activities, whose answers are not lost for ever, timers fire and
\* the ticker ticks.
Fairness ==
  /\ \A i \in At : /\ WF_vars(RunActivity(i)) /\ SF_vars(Complete(i))
                  /\ WF_vars(Resume(i)) /\ WF_vars(Drop(i))
  /\ \A s \in Connections : /\ WF_vars(LeaveMenus(s)) /\ WF_vars(RemoveEntry(s))
                           /\ WF_vars(EndOfConnection(s)) /\ WF_vars(Expire(s))
  /\ WF_vars(Silence) /\ WF_vars(SweepDelete) /\ WF_vars(SweepReset) /\ WF_vars(SweepNotify)

FairSpec == Spec /\ Fairness

-----------------------------------------------------------------------------
TypeOK ==
  /\ row \in BOOLEAN /\ fresh \in BOOLEAN
  /\ pstate \in {"InMenus", "Queueing", "InMatch"}
  /\ socket \in [Connections -> SocketStages]
  /\ current \in Connections \cup {NoConnection}
  /\ run \in [Connections -> {"none", "running", "ended"}]
  /\ queued \in [Connections -> BOOLEAN]
  /\ left \in [Connections -> BOOLEAN]
  /\ handlers \in Seq(Handlers) /\ Len(handlers) <= MaxHandlers
  /\ sweep \in {"idle", "reset", "notify"}
  /\ matches \in Nat /\ requests \in Nat
  /\ due \subseteq {"match_found", "match_complete"}
  /\ asked \in {"nothing", "queue", "unqueue"}

\* A connection that ends, replaced ones included, ends its own session and no
\* other: no session is ended by a disconnect signal while its socket is open.
EndsItsOwnSession ==
  \A s \in Connections : socket[s] \in {"started", "open"} => ~left[s] /\ run[s] # "ended"

\* The player's entry never outlives the socket it names, whatever the socket
\* still finds out about the player before it removes the entry.
EntryIsAlive == current # NoConnection => socket[current] # "gone"

\* A request on an open connection that nothing disturbs is honoured, also the
\* first one of a session that took the player over while he was queued.
HonouredWhenUndisturbed ==
  Quiet =>
    /\ asked = "queue" => row /\ pstate = "Queueing"
    /\ asked = "unqueue" => ~row

\* Every session ends once its connection has, also if the disconnect signal
\* was lost or the server died before it could be sent.
SessionsEnd ==
  \A s \in Connections :
    socket[s] \notin {"new", "started", "open"} ~> run[s] # "running"

\* A player who is in the queue without a connection comes back or leaves it.
Absent == \A s \in Connections : socket[s] \in {"new", "gone"}
GoneLeavesQueue == row /\ Absent ~> ~row \/ ~Absent

=============================================================================
