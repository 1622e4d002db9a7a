----------------------------- MODULE RankedQueue -----------------------------
(***************************************************************************)
(* The ranked queue: how players of the native mode enter it, are paired,  *)
(* and come back to it.                                                    *)
(*                                                                         *)
(* The actors are                                                          *)
(*   - the players' requests, admitted into one command stream per player  *)
(*     (Admit) and applied in its order (Drain...);                        *)
(*   - the pairing activity of the Temporal schedule, which reads          *)
(*     candidates without a lock and then claims two of them (Pair...);    *)
(*   - the matches, of which only start and end show here (Accept to       *)
(*     Finalize; RankedMatch has the rest);                                *)
(*   - the ticker's sweep, which deletes lapsed rows in one statement and  *)
(*     resets their owners one by one afterwards (Sweep...);               *)
(*   - the websocket gateway, which on the loss of a socket reads the row, *)
(*     then the state, then resets the player (Gw...);                     *)
(*   - the players' session workflows, which are told of a pairing and set *)
(*     the state of their player some time later (MatchFound).             *)
(* Each transaction is one action, where it commits.  Its NOW() is when it *)
(* began, up to MaxLag ticks before, for it may have waited for its locks. *)
(* The search band and the pair cooldown only make a claim roll back; they *)
(* are the freedom not to pair.                                            *)
(***************************************************************************)
EXTENDS Integers, Sequences

CONSTANTS
  Players,      \* the users
  Lease,        \* ticks a queue row lives without a heartbeat
  MaxLag,       \* how many ticks before its commit a transaction may begin
  MaxCommands   \* bound: how many requests the players send in all

ASSUME LeaseAssumption == Lease \in Nat \ {0}
ASSUME MaxLagAssumption == MaxLag \in Nat

\* What the leases are counted down to; NoRow is below all of them.
LongLapsed == -MaxLag
NoRow   == LongLapsed - 1
NoMatch == <<>>
Matches == {m \in Players \X Players : m[1] # m[2]}
Of(m)   == {m[1], m[2]}

UserCommands == {"queue", "cancel", "heartbeat"}

VARIABLES
  pstate, active,   \* player_state: state, active_match_token
  lease,            \* matchmaking_queue: ticks left of the lease or, negative,
                    \* since it lapsed; NoRow if there is no row
  stream,           \* pending user commands, in user_sequence order
  hint,             \* players a running pairing attempt has read as candidates
  live, playing,    \* matches not yet ended; those past their barriers
  accepted,         \* players who accepted the match they are in
  swept,            \* rows the sweep deleted, owners it has yet to reset
  found,            \* players whose session has yet to process match_found
  gw,               \* the socket of each player
  sent              \* how many requests were made

matchVars == <<live, playing, accepted>>
vars == <<pstate, active, lease, stream, hint, matchVars, swept, found, gw, sent>>

Queued(p) == lease[p] # NoRow
Accepted(m) == Of(m) \subseteq accepted
LiveStates == {"MatchAccepted", "InMatch"}
PStates == LiveStates \cup {"InMenus", "Queueing"}

Set(f, S, v) == [p \in Players |-> IF p \in S THEN v ELSE f[p]]

\* By the NOW() of a transaction that began lag ticks ago, a new lease ends
\* that much sooner and an old one has that much longer to run.
Lags == 0..MaxLag
NewLease(lag) == Lease - lag
Running(p, lag) == Queued(p) /\ lease[p] > -lag

-----------------------------------------------------------------------------
(* The user command stream. *)

\* Queueing is refused to a player in a match; the other commands always pass.
Admit(p, cmd) ==
  /\ sent < MaxCommands
  /\ sent' = sent + 1
  /\ cmd = "queue" => active[p] = NoMatch /\ pstate[p] \in {"InMenus", "Queueing"}
  /\ stream' = [stream EXCEPT ![p] = Append(@, cmd)]
  /\ UNCHANGED <<pstate, active, lease, hint, matchVars, swept, found, gw>>

\* Mutant of ApplyQueue: the check made at admission is trusted.
ApplyQueueUnchecked(p) ==
  /\ Head(stream[p]) = "queue"
  /\ \E lag \in Lags : lease' = [lease EXCEPT ![p] = NewLease(lag)]
  /\ pstate' = [pstate EXCEPT ![p] = "Queueing"]

\* A player who was paired since the command was admitted is rejected.
ApplyQueue(p) ==
  /\ Head(stream[p]) = "queue"
  /\ IF active[p] # NoMatch THEN UNCHANGED <<lease, pstate>>
     ELSE /\ \E lag \in Lags : lease' = [lease EXCEPT ![p] = NewLease(lag)]
          /\ pstate' = [pstate EXCEPT ![p] = "Queueing"]

ApplyCancel(p) ==
  /\ Head(stream[p]) = "cancel"
  /\ lease' = [lease EXCEPT ![p] = NoRow]
  /\ pstate' = IF active[p] = NoMatch THEN [pstate EXCEPT ![p] = "InMenus"] ELSE pstate

\* A heartbeat renews the lease of the row that is there, lapsed or not.
ApplyHeartbeat(p) ==
  /\ Head(stream[p]) = "heartbeat"
  /\ IF Queued(p) THEN \E lag \in Lags : lease' = [lease EXCEPT ![p] = NewLease(lag)]
                  ELSE UNCHANGED lease
  /\ UNCHANGED pstate

DrainOneUserCommand(p) ==
  /\ stream[p] # <<>>
  /\ ApplyQueue(p) \/ ApplyCancel(p) \/ ApplyHeartbeat(p)
  /\ stream' = [stream EXCEPT ![p] = Tail(@)]
  /\ UNCHANGED <<active, hint, matchVars, swept, found, gw, sent>>

-----------------------------------------------------------------------------
(* Pairing. *)

\* The candidates are read without a lock: from here on they are only a hint.
\* Attempts may overlap, so the hints of several of them add up.
PairRead ==
  /\ hint' = hint \cup {p \in Players : lease[p] > 0}
  /\ UNCHANGED <<pstate, active, lease, stream, matchVars, swept, found, gw, sent>>

\* Both sessions are signalled after the commit, where there is a connection.
Pair(m) ==
  /\ live' = live \cup {m}
  /\ \E told \in SUBSET Of(m) : found' = found \cup told
  /\ accepted' = accepted \ Of(m)
  /\ pstate' = Set(pstate, Of(m), "MatchAccepted")
  /\ active' = Set(active, Of(m), m)
  /\ lease' = Set(lease, Of(m), NoRow)
  /\ UNCHANGED <<stream, hint, playing, swept, gw, sent>>

\* Mutant of PairClaim: the candidate read is taken for the truth about the rows.
PairClaimByHint(m) ==
  /\ Of(m) \subseteq hint
  /\ \A p \in Of(m) : pstate[p] = "Queueing" /\ active[p] = NoMatch
  /\ Pair(m)

\* Mutant of PairClaim: the candidate read is taken for the truth about all.
PairClaimUnchecked(m) ==
  /\ Of(m) \subseteq hint
  /\ Pair(m)

\* State, ownership, row and lease of both are looked at again under their locks,
\* the leases as of NOW(): one that lapsed while the claim waited still counts.
PairClaim(m) ==
  /\ Of(m) \subseteq hint
  /\ \A p \in Of(m) : pstate[p] = "Queueing" /\ active[p] = NoMatch
  /\ \E lag \in Lags : \A p \in Of(m) : Running(p, lag)
  /\ Pair(m)

\* The attempts have returned.
PairDone ==
  /\ hint # {}
  /\ hint' = {}
  /\ UNCHANGED <<pstate, active, lease, stream, matchVars, swept, found, gw, sent>>

-----------------------------------------------------------------------------
(* Matches, as far as the queue can tell. *)

\* Accept, while the first barrier of the match is up.
Accept(p) ==
  /\ sent < MaxCommands
  /\ sent' = sent + 1
  /\ active[p] \in live /\ ~Accepted(active[p])
  /\ accepted' = accepted \cup {p}
  /\ UNCHANGED <<pstate, active, lease, stream, hint, live, playing, swept, found, gw>>

\* The barriers after the first (trying, connect, ready) have been passed.
StartPlaying(m) ==
  /\ m \in live \ playing
  /\ Accepted(m)
  /\ playing' = playing \cup {m}
  /\ pstate' = Set(pstate, Of(m), "InMatch")
  /\ UNCHANGED <<active, lease, stream, hint, live, accepted, swept, found, gw, sent>>

\* The end of match m, with the players of back put back in the queue.
End(m, back) ==
  /\ live' = live \ {m}
  /\ playing' = playing \ {m}
  /\ accepted' = accepted \ Of(m)
  /\ \E lag \in Lags : lease' = Set(lease, back, NewLease(lag))
  /\ pstate' = [p \in Players |->
                  IF active[p] # m THEN pstate[p]
                  ELSE IF p \in back THEN "Queueing" ELSE "InMenus"]
  /\ active' = [p \in Players |-> IF active[p] = m THEN NoMatch ELSE active[p]]
  /\ UNCHANGED <<stream, hint, swept, found, gw>>

\* One of the two declines at the first barrier, and the other is put back.
Decline(p) ==
  /\ sent < MaxCommands
  /\ sent' = sent + 1
  /\ active[p] \in live /\ ~Accepted(active[p])
  /\ End(active[p], Of(active[p]) \ {p})

\* Mutant of ExpireBarrier: the players who did not answer are put back as well.
ExpireRequeuesAll(m) ==
  /\ m \in live \ playing
  /\ End(m, Of(m))
  /\ UNCHANGED sent

\* A barrier times out.  The first puts back who accepted; which of the players
\* the later ones put back depends on answers not kept here.
ExpireBarrier(m) ==
  /\ m \in live \ playing
  /\ \E back \in SUBSET Of(m) :
       /\ ~Accepted(m) => back = accepted \cap Of(m)
       /\ End(m, back)
  /\ UNCHANGED sent

\* The result of a played match, or its timeout.  Nobody is put back, and a
\* match that has lost one of its players cannot be finalized.
Finalize(m) ==
  /\ m \in playing
  /\ \A p \in Of(m) : active[p] = m
  /\ End(m, {})
  /\ UNCHANGED sent

\* UserSessionWorkflow.match_found: an activity, run at least once, at any time.
MatchFound(p) ==
  /\ p \in found
  /\ found' \in {found, found \ {p}}
  /\ pstate' = [pstate EXCEPT ![p] = "InMatch"]
  /\ UNCHANGED <<active, lease, stream, hint, matchVars, swept, gw, sent>>

-----------------------------------------------------------------------------
(* The ticker's sweep. *)

Lapsed(lag) == {p \in Players : Queued(p) /\ ~Running(p, lag) /\ active[p] = NoMatch}

SweepDelete ==
  /\ swept = {}
  /\ \E lag \in Lags :
       /\ Lapsed(lag) # {}
       /\ lease' = Set(lease, Lapsed(lag), NoRow)
       /\ swept' = Lapsed(lag)
  /\ UNCHANGED <<pstate, active, stream, hint, matchVars, found, gw, sent>>

\* player_manager.handle_disconnect of one owner, whatever happened since.
SweepReset(p) ==
  /\ p \in swept
  /\ swept' = swept \ {p}
  /\ pstate' = [pstate EXCEPT ![p] = "InMenus"]
  /\ UNCHANGED <<active, lease, stream, hint, matchVars, found, gw, sent>>

-----------------------------------------------------------------------------
(* The gateway. *)

GwConnect(p) ==
  /\ gw[p] = "closed"
  /\ gw' = [gw EXCEPT ![p] = "open"]
  /\ UNCHANGED <<pstate, active, lease, stream, hint, matchVars, swept, found, sent>>

\* The socket is lost, and whether the player is queued is read.
GwReadRow(p) ==
  /\ gw[p] = "open"
  /\ gw' = [gw EXCEPT ![p] = IF Queued(p) THEN "closed" ELSE "unqueued"]
  /\ UNCHANGED <<pstate, active, lease, stream, hint, matchVars, swept, found, sent>>

GwReadState(p) ==
  /\ gw[p] = "unqueued"
  /\ gw' = [gw EXCEPT ![p] = IF pstate[p] \in LiveStates THEN "closed" ELSE "idle"]
  /\ UNCHANGED <<pstate, active, lease, stream, hint, matchVars, swept, found, sent>>

GwReset(p) ==
  /\ gw[p] = "idle"
  /\ gw' = [gw EXCEPT ![p] = "closed"]
  /\ pstate' = [pstate EXCEPT ![p] = "InMenus"]
  /\ UNCHANGED <<active, lease, stream, hint, matchVars, swept, found, sent>>

-----------------------------------------------------------------------------
(* The specification. *)

Tick ==
  /\ \E p \in Players : lease[p] > LongLapsed
  /\ lease' = [p \in Players |-> IF lease[p] > LongLapsed THEN lease[p] - 1 ELSE lease[p]]
  /\ UNCHANGED <<pstate, active, stream, hint, matchVars, swept, found, gw, sent>>

Init ==
  /\ pstate = [p \in Players |-> "InMenus"]
  /\ active = [p \in Players |-> NoMatch]
  /\ lease = [p \in Players |-> NoRow]
  /\ stream = [p \in Players |-> <<>>]
  /\ hint = {}
  /\ live = {} /\ playing = {} /\ accepted = {}
  /\ swept = {} /\ found = {}
  /\ gw = [p \in Players |-> "open"]
  /\ sent = 0

PlayerStep(p) ==
  \/ \E cmd \in UserCommands : Admit(p, cmd)
  \/ DrainOneUserCommand(p)
  \/ Accept(p)
  \/ Decline(p)
  \/ MatchFound(p)
  \/ SweepReset(p)
  \/ GwConnect(p)
  \/ GwReadRow(p)
  \/ GwReadState(p)
  \/ GwReset(p)

MatchStep(m) ==
  \/ PairClaim(m)
  \/ StartPlaying(m)
  \/ ExpireBarrier(m)
  \/ Finalize(m)

Next ==
  \/ \E p \in Players : PlayerStep(p)
  \/ \E m \in Matches : MatchStep(m)
  \/ PairRead
  \/ PairDone
  \/ SweepDelete
  \/ Tick

Spec == Init /\ [][Next]_vars

\* The ticker drains and sweeps every two seconds, every match ends (what
\* RankedMatch shows as MatchSettles), and time passes.
Fairness ==
  /\ \A p \in Players : WF_vars(DrainOneUserCommand(p)) /\ WF_vars(SweepReset(p))
  /\ \A m \in Matches : WF_vars(ExpireBarrier(m)) /\ WF_vars(Finalize(m))
  /\ WF_vars(SweepDelete)
  /\ WF_vars(Tick)

FairSpec == Spec /\ Fairness

-----------------------------------------------------------------------------
(* Properties. *)

\* Every variable holds a value its column or the process can hold.
TypeOK ==
  /\ pstate \in [Players -> PStates]
  /\ active \in [Players -> Matches \cup {NoMatch}]
  /\ lease \in [Players -> NoRow..Lease]
  /\ stream \in [Players -> Seq(UserCommands)]
  /\ hint \subseteq Players
  /\ live \subseteq Matches /\ playing \subseteq live
  /\ accepted \subseteq Players
  /\ swept \subseteq Players /\ found \subseteq Players
  /\ gw \in [Players -> {"open", "unqueued", "idle", "closed"}]
  /\ sent \in Nat

\* A player is in at most one match, and active_match_token names it: however
\* stale the candidates a pairing attempt read, no one is paired twice.
OneMatchEach ==
  /\ \A m \in live : \A p \in Of(m) : active[p] = m
  /\ \A p \in Players : active[p] # NoMatch => active[p] \in live /\ p \in Of(active[p])

\* No player waits in the queue while a match owns him, although queueing was
\* checked at admission and drained later, and matches put players back.
NotQueuedWhileOwned == \A p \in Players : active[p] # NoMatch => ~Queued(p)

\* A match is made only of players whose rows are in the queue when it is made
\* (not when they were read), with a lease that ran when the transaction that
\* makes it began: it has not lapsed for longer than that takes.
PairsOnlyWaiting ==
  [][\A m \in live' \ live : \A p \in Of(m) : Running(p, MaxLag)]_vars

\* The queue is a lobby in the sense of Lobby: whatever was read before, admitted
\* before or signalled late, players are seated out of the queue and both at
\* once, return to it only from an ended match, and lose their place only by
\* leaving, by being paired or by letting it lapse; once a place has lapsed for
\* longer than a transaction takes, nobody is seated from it.
Places ==
  [p \in Players |-> IF ~Queued(p) THEN "none"
                     ELSE IF Running(p, 0) THEN "kept"
                     ELSE IF Running(p, MaxLag) THEN "lapsed" ELSE "lost"]
Company == [p \in Players |-> IF active[p] = NoMatch THEN {} ELSE Of(active[p])]

AsLobby == INSTANCE Lobby WITH place <- Places, table <- Company
KeepsLobby == AsLobby!Spec

\* Players who have gone silent are in the end neither queued nor in a match.
SilentPlayersLeave == <>[](\A p \in Players : ~Queued(p) /\ active[p] = NoMatch)

=============================================================================
