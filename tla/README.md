# A TLA+ model of the steam-lobby match service

steam-lobby is a lobby, matchmaking and result server for fighting games
(Rust: `lobby-core`, `lobby-server`, `lobby-client`; a web client under `web/`).
This directory holds TLA+ modules translated from its source, the TLC runs that
check them on small instances, and theorems proved with TLAPS.

## The system

| part | where | state it keeps | operations |
| --- | --- | --- | --- |
| ranked command stream | `lobby-server/src/commands.rs`, `ranked_routes.rs` | `command_inbox` (per match and per user, in sequence), receipts | dispatch, replay, admit, drain, events, snapshot |
| UMVC3 ranked match | `commands.rs`, `db/matches.rs` | `matches`, `umvc3_matches`, `match_reports`, `match_results`, `ratings` | apply each command, resolve evidence, finalize, expire |
| UMVC3MatchWorkflow | `temporal/umvc3.rs`, `ticker.rs` | a Temporal execution per match | start/reconcile, drain, poll, timer, expire, retry |
| queue and pairing | `db/queue.rs`, `lobby-core/src/queue.rs` | `matchmaking_queue` rows with a lease, `player_state` | queue, cancel, heartbeat, stale sweep, pair |
| user session workflow | `temporal/workflows.rs:97-276` | phase, queued entry, of one connected user | connect, queue, unqueue, match_found, match_complete, disconnect |
| P2P match workflow | `temporal/workflows.rs:310-516`, `temporal/activities.rs` | accept flags, reports, phase timers | accept, decline, connect, report, forfeit, dispute |
| server-arena matches | `match_lifecycle.rs`, `match_expiry.rs`, `gameserver.rs` | `matches` status, join tokens | accept, allocate, play, result, expire |
| pairing schedules | `temporal/schedule.rs`, `temporal/workflows.rs` | a Temporal schedule per mode | ensure running, pair, pause when idle |
| websocket gateway | `ws.rs`, `state.rs` | live connections, in-memory routing | register, route commands, disconnect |
| pong referee, rock-paper-scissors | `pong.rs`, `rps.rs`, `lobby-core/src/pong.rs` | one in-memory game per match | spawn, input, tick, end |
| sessions and identity | `routes.rs`, `db/sessions.rs`, `db/players.rs`, `steam_auth.rs`, `auth_providers.rs` | sessions, refresh tokens, link intents | login, refresh, link, revoke |
| rate limiter | `rate_limit.rs` | instants of recent calls, per key | check |
| rating arithmetic | `lobby-core/src/mmr.rs` | none | update |
| clients | `lobby-client`, `web/` | connection, cursor | commands, long poll |

They meet in PostgreSQL.  Every transaction that changes a ranked match locks the
`matches` row and then the `umvc3_matches` row; pairing and the end of a match
also lock `player_state` and then `matchmaking_queue`.  Temporal workflows act on
the database only through activities, which run at least once.  The websocket
gateway signals workflows and is told of changes by in-process notifications,
which may be lost: the two-second ticker is the fallback for all of them.


## What is hard about it

* **Two clocks and stale timers.**  Deadlines live in PostgreSQL, timers in Temporal.
  A timer is armed from a state that was loaded earlier; a phase may have advanced,
  been given a new deadline by a replaced lobby, or ended since.  `NOW()` is the
  start of a transaction, not the moment its row locks were granted.
* **At-least-once activities.**  An expiry attempt that takes too long is retried
  while the first may still commit.
* **Admission and application are apart.**  A command is checked when it is stored
  and applied by a later drain, of the ticker or of the workflow, in another state.
* **Unlocked reads.**  Pairing reads candidates without a lock; the sweep and the
  gateway act on what an earlier statement returned.
* **Ends that release.**  A match ends in many ways (decline, four barriers' timeouts,
  evidence, expired game); each must free both players and put the right ones back.
* **Evidence in any order.**  Reports and votes of two players who may lie, repeat,
  contradict themselves or stay away.
* **A stream with gaps or reordering.**  Overlapping transactions number events of
  the same recipient; a cursor that passes a number whose event is not yet
  visible never sees it.
* **Lost wake-ups.**  In-process notifications are best effort.
* **Handlers that overlap.**  A session's signals are handled in order, but a handler
  waits for its activities while others run; a connection replaced by a newer one
  finishes its message and its own disconnect.
* **Read, decide, write.**  Server matches and account links are changed by handlers whose
  statements are transactions of their own, or read what they have not locked.

## What makes each part correct

| part | properties |
| --- | --- |
| ranked match | a live match owns its players and an ended one frees them; rated once and only as both agree; facts of a replaced lobby do not count; timers are fenced; an end is final; every match ends |
| queue and pairing | one match per player; not queued while owned; pairs only players whose lease ran when the claim began; silent players leave |
| event stream | numbers without gaps; no client skips an event; events arrive without notification; writers do not deadlock |
| command admission | one row per command id; a repeated request gets the first receipt; another payload is refused; streams are applied in order; what is admitted is processed |
| user session | a connection ends its own session only; an undisturbed request is honoured; sessions end; a player who is gone leaves the queue |
| P2P match | rated as users started or reported it, for a winner who plays, and at most once; the row is over when the workflow is; the workflow ends unless it decides on a winner who does not play; players of a match that can be rated are freed |
| server arena | nothing starts on one acceptance; rated once; an accepted match ends if the creator ends its answers; a match that had a server frees its players |
| sessions and identities | an identity has one owner; a proof is spent once; a confirmation that says yes has linked; a logout of all ends every session there was when it began |

## Modules

| module | extends or instantiates | what it is |
| --- | --- | --- |
| `MatchOutcome` | | abstract: what a ranked match promises its players |
| `RankedMatch` | | one UMVC3 match with its command stream and its workflow |
| `RankedMatchOutcome` | `RankedMatch`, instance of `MatchOutcome` | the refinement mapping |
| `Lobby` | | abstract: what the queue promises, a waiting room and tables for two |
| `RankedQueue` | instance of `Lobby` | queue, pairing, sweep, gateway of a leased mode |
| `EventLog` | | abstract: what the event stream promises a recipient |
| `RankedEvents` | instance of `EventLog` | event stream and its readers |
| `CommandLedger` | | abstract: what `dispatch` promises of command ids |
| `CommandInbox` | instance of `CommandLedger` | admission, deduplication and drains over several streams |
| `P2PMatch` | | one match of a mode refereed by the server: workflow, activities, players |
| `UserSession` | | the connections, session workflows, queue row and state of one player |
| `ServerArena` | | one match played on a game server, without a workflow |
| `AccountLinks` | | logins, sessions, logouts and Discord links of accounts |
| `...Proofs` | the module they are named after | theorems: `RankedMatch` (with its refinement of `MatchOutcome`), `RankedQueue`, `RankedEvents`, `P2PMatch`, `UserSession`, `CommandInbox`, `ServerArena`, `AccountLinks` |
| `MC...` | the module they are named after | instances for TLC |

`RankedQueue` knows of a match only that it starts and ends; what it assumes of that,
that every match ends and that its barriers time out, is what `RankedMatch` shows as
`MatchSettles`.  `RankedMatch` in turn starts where pairing commits (`Pair` of
`RankedQueue`), and records in `requeued` whom its end puts back; `RankedQueue` takes
this up as the set `back` of `End`.  Both take from `CommandInbox` that a stream is
processed in order and once: there policy refuses, applies or rejects a command as it
likes, here the policy is spelled out.  `P2PMatch` has of a session only what it does to a
match; `UserSession` has of matches only that they begin and end, and when they signal.

### RankedMatch: state and actions

One action is one transaction, because every transaction that changes the match
holds the `matches` and `umvc3_matches` rows from its first read to its commit.

| in the module | in the code |
| --- | --- |
| `phase`, `version`, `attempt`, `armed`/`left` | `umvc3_matches.phase`, `phase_version`, `attempt_id`, `phase_deadline` |
| `accepted`, `trying`, `conn`, `ready` | the barrier columns of both tables |
| `report`, `vote` | `match_reports` rows, `abandon_vote_a/b` |
| `status`, `reason`, `result`, `mmrWrites` | `matches.status`, `terminal_reason`, the `match_results` row, the rating updates |
| `active`, `requeued` | `player_state.active_match_token`, the rows `finalize`/`terminal_unrated` insert in `matchmaking_queue` |
| `inbox` | pending rows of `command_inbox` in `match_sequence` order |
| `wfPc`, `wfVersion`, `wfTimer` | where `UMVC3MatchWorkflow::run` is, the state its last activity returned |
| `abandoned` | expiry attempts Temporal has given up on and that may still commit |
| `AdmitMatchCommand` | `admit_match_command` |
| `DrainOneMatchCommand` with `Apply...` / `Reject` | `drain_one_match_command`, `apply_match_command` |
| `ResolveEvidence`, `Verdict`, `FinalizeUmvc3` | `resolve_evidence`, `finalize_umvc3_in_tx` |
| `ExpirePhase` | the second transaction of `expire` |
| `WfStart` ... `WfExpirePhase`, `LateExpire` | the workflow, its retries, a late attempt |

Time is the distance `left` to the deadline; `lag` says how long ago a
transaction that commits now began, so that it reads `left + lag`.

### RankedQueue: state and actions

| in the module | in the code |
| --- | --- |
| `pstate`, `active` | `player_state.state`, `active_match_token` |
| `lease` | the `matchmaking_queue` row: absent, or how long its lease still runs or (negative) ago ran out |
| `lag`, `Running`, `NewLease`, `Lapsed` | the lease as seen, given or swept by the `NOW()` of a transaction that began `lag` ticks before its commit |
| `stream`, `Admit`, `DrainOneUserCommand` | `command_inbox` by `user_sequence`; `admit_user_command`, `drain_one_user_command` |
| `hint`, `PairRead`, `PairClaim`, `PairDone` | `pair_next_match_with_accept_timeout`: unlocked candidates, locked claim |
| `live`, `playing`, `accepted`, `Accept` ... `Finalize` | matches, as far as the queue sees them |
| `swept`, `SweepDelete`, `SweepReset` | `remove_stale_queue_entries`, then `handle_disconnect` of each owner in the ticker |
| `gw`, `Gw...` | the end of `handle_socket`: three statements |
| `found`, `MatchFound` | `UserSessionWorkflow::match_found` and its activity |

The code's search band and pair cooldown only keep a claim from happening, so they
are the freedom not to pair.  Candidate lists of overlapping attempts add up in one
set `hint`, which is weaker than each attempt's own list.

A claim compares the leases with `NOW()`, the start of its transaction, after it has waited for
the locks of `player_state` and of the rows: a lease that lapsed in between is still paired.  So
the lease is counted on below zero, down to `MaxLag` ticks, and every transaction that compares
or sets one picks the lag of its clock.

`AsLobby` maps this to `Lobby`: a place is kept while its lease runs, lapsed while a transaction
at work may still see it run, lost after that, and the table of a player is the pair of the match
that owns him.  `PairClaim` is its `Pair` (out of places not lost), `Tick` its `Age`, the end of a match its `Rise`, `SweepDelete` its `Sweep`,
queue and heartbeat its `Enter`, cancel its `Leave`; reads, resets and signals are stutters.

### RankedEvents: state and actions

| in the module | in the code |
| --- | --- |
| `counter`, `pending`, `holder` | `event_recipient_counters.next_sequence - 1` as committed and as the holder of the row lock sees it |
| `recipients`, `made`, `published` | events of open transactions, committed `match_events` |
| `Begin`, `LockCounter`, `EmitRecipientEvent`, `Commit`, `Rollback` | `emit_recipient_events` within any transaction that calls it; pairing and finalization number theirs the same way |
| `poll`, `page`, `late`, `AskEvents` ... `PollTimesOut` | `api_events`: query, empty page, wait, 25 s |
| `NotifyWaiters` | `event_notify.notify_waiters()` of the ticker, which wakes only who waits now |
| `snap`, `OpenSnapshot`, `TakeSnapshot` | `get_ranked_snapshot`: REPEATABLE READ, cursor first |
| `cursor`, `knows` | the native client: not in the repository, it follows `next_cursor` and has one request open at a time |

`Log` maps the committed numbers and what a client knows to `EventLog`: `Commit` is its
`Publish`, `Receive` and `TakeSnapshot` are its `Follow`, and all else is a stutter.

### P2PMatch: state and actions

The workflow's steps are atomic, as Temporal runs them; an activity is not.  Each of
its statements is an action, and between two of them the server may die or Temporal
may give the attempt up, start another, and let the first go on.

| in the module | in the code |
| --- | --- |
| `stage`, `accepts`, `declined`, `started`, `whoWon` | where `P2PMatchWorkflow::run` is and its fields; `verdict` is the winner it passes to the activity |
| `Users`, `Strangers` | who may signal: the gateway passes on what any user sends, and reports that name anyone; `MaxStray` bounds what the workflow holds of strangers (`Stray`) |
| `Ratable` | `resolve_pong` refuses a winner who does not play, and `finish_match` none at all |
| `status`, `accepted`, `connected`, `result` | `matches`, `match_results` rows |
| `rated` | how often `resolve_match` has changed the ratings |
| `attempt["awaited"]`, `attempt["given_up"]` | attempts of an activity: the statement each is at, and what `accept_match` remembers of the row (`first`) |
| `BeginAttempt`, `Complete`, `Fail`, `Overrun` | Temporal: start, answer, error, start-to-close time-out (external) |
| `ReadToAccept` ... `RecordAccepted`, `MarkAccepts` | `accept_match` for each player, then `mark_accepts` |
| `HandleDecline`, `ConnectPlayer`, `ResolveDispute` | `handle_decline`, `mark_connected`, `resolve_dispute` |
| `ReopenForForfeit`, `ReadToRate`, `ResolveMatch`, `FreePlayers`, `SignalSessionComplete` | `resolve_start_forfeit`, `finish_match`, and `resolve_pong`, `resolve_agreed`, `resolve_forfeit` of `MatchManager` |
| `IgnoredErrors`, `StatementFails` | statements whose error the activity drops |
| `AcceptTimeout` ... `ReportOver`, `MatchChoice`, `SignalStart`, `SignalWhoWon` | branches and signals of the workflow |
| `state`, `toNotify`, `inbox`, `Session`, `Disconnect` | `player_state`, and the match signals of the two user sessions; `Online` are the players who have one on this server |

An error that is not ignored fails the attempt, which is an attempt lost like one that
overruns.  `RankedQueue` has the pairing of this module's `Init` for ranked modes; the
other modes pair by the same transaction.

### UserSession: state and actions

| in the module | in the code |
| --- | --- |
| `row`, `pstate`, `fresh` | the player's `matchmaking_queue` row, `player_state.state`, and whether `last_heartbeat` is recent |
| `socket`, `current` | where `handle_socket` of each connection is; the player's entry in `state.connections` |
| `run`, `queued`, `left` | a `UserSessionWorkflow`, its fields `queued` and `disconnected` |
| `handlers` | signal handlers at work, each at the activity it awaits or at that activity's answer |
| `Queue`, `Unqueue`, `MatchFound`, `MatchComplete`, `SetDisconnected`, `QueueExpired` | the signals, up to their first await; `Resume` is what follows it |
| `RunActivity`, `LoseAnswer` | an attempt of an activity; its answer lost, so that it runs again |
| `Connect`, `Register`, `Request`, `Heartbeat`, `Close`, `LeaveMenus`, `RemoveEntry` | `handle_socket` from its start to its end |
| `Silence`, `SweepDeleteQueueing`, `SweepDelete`, `SweepReset`, `SweepNotify` | the heartbeat's age, and the ticker's sweep statement by statement |
| `Pair`, `EndMatch`, `Notify` | what pairing and a match's end do to this player, and their signals, which may be lost |
| `asked` | history: the last request, if nothing else has happened since |

### CommandInbox: state and actions

| in the module | in the code |
| --- | --- |
| `inbox`, `next` | `command_inbox` rows; `next_command_sequence` and `next_sequence` |
| `keyLock`, `ownerLock` | the advisory lock of a command id; the row locks of a match or of a user |
| `caller`: `Dispatch`, `LookUp`, `LockDedupeKey`, `LockOwner`, `ReplayInTx`, `Refuse`, `Insert`, `Commit`, `Reply` | `dispatch` from the first replay to the answer, statement by statement |
| `drainer`: `Discover`, `DrainMatch`, `Claim`, `Process`, `Empty` | `drain_pending` of the ticker, `drain_match` of a workflow |
| `LoseCall`, `Fail` | a request or a drain lost, with its transaction |
| `told` | history: the answers given |

`Ledger` maps the committed rows to `CommandLedger`: `Commit` is its `Admit`, `Process`
its `Process`, `Reply` its `Tell`, and all else a stutter.

### ServerArena: state and actions

| in the module | in the code |
| --- | --- |
| `status`, `accepted`, `server`, `allocDue`, `resultDue` | the `matches` row, and whether its two time-outs have passed |
| `rated` | how often `resolve_match` has written ratings |
| `accepting`: `AcceptRead`, `MarkAccepted`, `AcceptCount`, `AcceptStart` | `accept_match`, in a handler of each connection |
| `callback`: `ResultRead`, `ResolveMatch`, `ResultFree`, `ResultDropped` | the result callback of the game server |
| `tick`: `TickList` ... `TickFree` | allocation, its time-out and the expiry of the ticker, on the row as it was listed (`listDue`) |
| `TickAnswered`, `AnswerRead` (`TickRefused`, `MarkServerReady`, `TickOthers`) | `GameserverClient::allocate`: `send()`, under five seconds, then `resp.json()`, under none; the same for the matches listed before and after this one |
| `Crash`, `ResultDropped` | the server dies; a result request is cut short |

### AccountLinks: state and actions

| in the module | in the code |
| --- | --- |
| `registered`, `version` | account rows of Steam, `users.token_version` |
| `session`, `login` | `browser_sessions` and `native_sessions` with their token; `oauth_login_states` |
| `proof`, `handoff`, `intent`, `links` | `provider_sessions`, `oauth_handoffs`, `link_intents`, account rows of Discord |
| `BeginLogin` ... `IssueToken` | logins by Steam, ticket and Discord |
| `CheckVersion`, `CheckSession` | revalidation of a token, in two reads |
| `Logout`, `RevokeAllSessions` | logout of a session; of all, in the three statements of its transaction (`RevokeBrowserSessions`, `RevokeNativeSessions`, `RaiseVersion`), each of which sees what was committed when it began |
| `CheckIntent`, `CreateIntent`, `CreateHandoff`, `PeekHandoff`, `CompleteHandoff` | a proof made in the browser, or by a native client through a handoff |
| `LockIntent` ... `CommitLink`, `RevokeLink` | `confirm_discord_link` statement by statement; its opposite |
| `loggedOut` | history: sessions there were when their user began a logout of all that has committed |

## Runs

| run | question | instance |
| --- | --- | --- |
| `ranked_safety` | ownership, replaced lobbies, ratings, undecided verdicts, fencing, expiry under lag | two report contents, two attempts, one command pending, lag 0 or 1 |
| `ranked_liveness` | does every match end; does it implement `MatchOutcome` | one report content, no lag |
| `ranked_admitted` (violated) | does a command admitted in time always win over expiry | no reports, no lag |
| `queue` | one match each, not queued while owned, silent players leave; does it implement `Lobby` | two players, four requests, leases of two ticks, lag 0 or 1 |
| `events` | gaps, skipped events, delivery, lock order; does it implement `EventLog` | two recipients, one with a client, two transactions, pages of one, two events each |
| `p2p_safety` | ratings, ends | one match, two strangers; two of an overrun, a crash and an unseen error; no sessions |
| `p2p_liveness` | does the workflow end, are the players of a rated match freed | one match, one stranger, a session of one player, no faults |
| `session_safety` | whose session a connection ends, which socket an entry names, what a request comes to | two connections, two handlers, one request |
| `session_liveness` | do sessions end, does a player who is gone leave the queue | one connection, two handlers, one request, one match; lost signals and answers, a crash |
| `inbox` | duplicates, order, progress; does it implement `CommandLedger` | two ids, two calls, three payloads over a match's and a user's stream, ticker and one workflow |
| `arena` | acceptance, ratings, ends | one connection of each player, two callbacks, two faults |
| `links` | owners, proofs, confirmations, logouts | two users, one identity, two requests, two of each row, one handoff, one logout of all for each user |

**Bounds.**  A phase of one tick can be met early, on the deadline instant and past
it, which are the cases the comparisons tell apart; a longer phase adds waiting.
Two attempts are one replacement, and the facts of a third meet the second as those of
the second meet the first.  One pending command is overtaken by the other player's
commands and by expiry between its admission and its application; the order of several is
`CommandInbox`.  Report contents matter only by being equal or not: two values.
In `queue` two overlapping pairing attempts compete for the same two players; four
requests allow queueing, a cancel or a heartbeat and an answer to the match; a lease of two ticks
and a lag of one give every order of a lapse and of the start and commit of what looks at it; that a third
player changes nothing is the theorems' part, which hold for any number.
With two open transactions a number can be taken before and shown after another.  With
pages of one and two events a client must ask again and one request finds nothing.
A match has two players and an activity of it two attempts that may be at work, the one
awaited and one given up: with one overrun there is never a third.  Each fault at most once
lets it meet every statement of every activity, and two in a behaviour (`MaxFaults`) let it
meet each other one.  Strangers are told apart by being one or two: one is enough for a third
acceptance, a third start, a lone start, a third report and a report that names no player, two for
two reports of which neither is a player's (`MaxStray` 2).  No safety property reads what a session
writes, so `p2p_safety` has none; the two sessions share nothing, so `p2p_liveness` has one, and
its other player none.
Two connections are one replacement; two handlers are one that overtakes another that
waits.  Matches are left to `session_liveness`, because a match sets the player's state
whatever he has asked for, and disturbs the request `session_safety` asks about.
Two calls under two ids are a repetition, a conflict, or two commands of one stream or of
two.  Two callbacks are a result and its repetition.  Two requests at work are every pair of
operations that can meet in `links`; the third payload or row of a kind would only be
one that waits.

Sessions, logins, proofs, intents, users and requests are interchangeable in `links`, the two
strangers in `p2p_safety`; neither has a liveness property, and symmetry is used there, nowhere
else.
`CHECK_DEADLOCK FALSE` is set where requests are bounded and the system may come to rest
when they are used up: `queue`, `session_safety`, `session_liveness`, `inbox`, `arena`,
`links`.  `P2PMatch` says itself (`Over`) when a match may rest: ended or lost, nothing
running, nothing undelivered.

**Fairness.**  Nothing is assumed of players, of rollbacks or of notifications.

* `RankedMatch`: the ticker drains every two seconds and reconciles workflows every ten
  (`WF(Drain)`, `WF(WfAdvance)` with `WfStart`); Temporal retries the expiry activity
  until an attempt completes, so an attempt that can be abandoned again and again does
  in the end succeed (`SF(WfExpire)`); time passes.  Timeouts are positive in this run:
  the configuration allows 0 only for the accept and report timeouts, and 0 means "no
  deadline".
* `RankedQueue`: the ticker drains, sweeps and resets; barriers time out and games finish
  (shown in `RankedMatch`); pairing is owed nothing.
* `RankedEvents`: a row lock that is released again and again is in the end granted
  (PostgreSQL queues waiters, `SF(LockCounter)`), transactions commit, a request waits no
  longer than its 25 seconds, and a client that loses answers repeats its request (`SF`).
* `P2PMatch`: timers fire and conditions are seen (`WF(WorkflowStep)`), a worker starts and
  runs the attempts the workflow awaits, each by its own thread (`WF(BeginAttempt)`,
  `WF(RunAttempt(c))`), sessions handle their signals (`WF(Session(p))`); nothing of
  choices, starts, reports and disconnects, whoever sends them.
* `UserSession`: Temporal tries an activity until an answer arrives, so an answer is not lost
  for ever (`WF(RunActivity)`, `SF(Complete)`), and goes on with its handler
  (`WF(Resume)`, `WF(Drop)`); a socket that is closing finishes (`WF(LeaveMenus)`,
  `WF(RemoveEntry)`); a session sees its flag and its own time-out (`WF(EndOfConnection)`,
  `WF(Expire)`); heartbeats grow old and the ticker sweeps.  Nothing of signals.
* `CommandInbox`: a request goes on until it is lost or answered (`WF(Admission)`); an advisory
  lock or a row lock that is released again and again is in the end granted (`SF`); the
  ticker's loop comes round (`WF(Discover)`, `SF(Claim)`), and an error of the database does
  not last for ever (`SF(Process)` of the ticker).  Nothing of workflows but that a
  transaction ends.
* `ServerArena`: the ticker goes on, time-outs pass, and a handler that has changed the row
  goes on unless the server dies or its request is cut short.  Nothing of players, of the creator
  or of the game server: the ticker's wait for the body of an answer (`Reading`) ends under no
  fairness, and `AcceptedMatchEnds` says itself that it is owed only where it does end.

The ticker is one loop.  What `RankedMatch`, `RankedQueue`, `UserSession` and `CommandInbox` assume
of it, that it comes round, therefore rests on the creator too: `ServerArena` shows where.

**The disagreement found** is a run TLC violates, quoted in `PROJECT.json`: `expire` drains
in transactions before the one that expires, so a command admitted between them, in time, is
rejected (`ranked_admitted`).

Behaviours the models have and no run forbids:

* The sweep's reset and the gateway's reset act on what they read earlier and may set a player
  who has just queued to `InMenus`, so that pairing passes over his row until he queues again.
* `match_found` sets a ranked player to `InMatch` from any state, also after the match was
  declined, though `player.rs:123` reads as if it were checked.
* A signal to queue that is handled while an unqueue waits for its cleanup is undone by that
  cleanup.
* A start signal that reaches the P2P workflow together with its timer is counted by the timer's
  branch, so that two players who both started lose both.
* The gateway looks neither at who signals a P2P match nor at whom a report names (`ws.rs:718-757`,
  `890-912`, `workflows.rs:486-509`).  A stranger's start makes a double loss of a match that one
  player started alone, though `activities.rs:246` says that the starter wins; his accept keeps the
  two players' from counting, his decline ends the match, and a third report keeps two from being
  compared, until the timer.  A stranger who alone starts, two players who report the same stranger,
  and two strangers who report alone, decide on a winner `match_lifecycle.rs:302` or
  `activities.rs:211` refuses on every try: the workflow never ends and its players are not freed.
  `RatedAsPlayed` counts the starts of any user, and `EndsWithoutFaults` and `FreedAfterRating`
  leave out such decisions.
* A P2P activity that has moved the row on refuses to run again, so one crash at the wrong
  moment makes its workflow retry for ever; an error of a statement that is ignored ends
  a workflow whose match row is still open; and a crash between pairing and the start of the
  workflow leaves the match for ever.
* `resolve_dispute` frees only players who are `Reporting`, a state no player of such a match
  ever has: they stay `InMatch` until their session or connection ends.
* A creator that begins an answer and never ends it stops the ticker, for `allocate` reads the
  body under no time-out, though `gameserver.rs:8-10` promises a retry every two seconds bounded by
  the allocation time-out: no server match is disputed any more, and nothing else of the ticker runs.
* A server match nobody accepts stays `PendingAccept`; players of one whose allocation times
  out stay `Queueing`; and an accept still at work may set one that has a server back to
  `InProgress`, where neither the callback nor the ticker looks at it again.
* A session that is inserted while `revoke_all_sessions` is at work is not among those it revokes;
  if its token is issued after the commit (`routes.rs:190-202`) it carries the new version and
  passes revalidation.  `LoggedOutForGood` therefore speaks of the sessions there were when the
  logout began.
* A Discord session made by a login that had already found its account outlives the
  revocation of that account.

## Theorems

All are about the specifications as TLC checks them, for every value of their
constants.  Assumed: `TimeoutAssumption` (timeouts are naturals, zero allowed),
`MaxLagAssumption` (lags are naturals), `LeaseAssumption` (a lease is positive), `UsersAssumption`
(recipients are ordered and finitely many), `PageSizeAssumption`, `WritersAssumption`,
`PlayersAssumption`, `StrangersAssumption`, `OnlineAssumption`
and `NoPlayerAssumption` (two players, any set of strangers without them, sessions of players, a
natural bound, and nobody called like "no winner" or "double loss"),
`OwnersAssumption` (every payload has a stream, and streams are ordered), `MaxCallsAssumption`,
`FaultsAssumption` and `LogoutsAssumption` (bounds are naturals), and `NoneAssumption` (names
of nobody and of nothing are nobody's), and `BoundsAssumption` and `NoConnectionAssumption` of
`UserSession` (bounds are naturals, no connection is called like none).  Type correctness is
proved of every module, and not run where it is proved.

*RankedMatch.*  `MatchSteps` first reduces a step of the whole system to what it may do
to the match: apply one command, expire, tick, or nothing.  Over these
`OwnedWhileLive` is inductive as it stands.  The rating properties are not: that a
result rests on what the loser conceded is kept only because `NoResultYet` holds
(a live match has none) and evidence and result freeze together; the inductive
invariant is `Rated`, and the evidence rule enters by `VerdictConceded`, a lemma on
`Verdict` for any two reports and votes.  `TerminalIsFinal` needs `DisarmedAtEnd`: an
ended match has no deadline that a tick could move.  `ExpiresOnlyAfterDeadline` and
`DeadlineIsFenced` are proved of each action.  `WatchedCorrect` is the safety side of
`MatchSettles`: while a match is live its workflow has not returned, and a phase with a
time-out has a deadline.  It needs that a workflow finishes only on a match that has ended
(`DoneAtEnd`) and that every phase entered sets its own deadline (`DeadlineSet`).

*Refinement.*  `PromiseCorrect` maps `RankedMatch` to `MatchOutcome`: a report or a vote
is a `Testify`, an expired game a `Lapse`, a decline or expired barrier a `CallOff`,
all else a stutter.  It uses `Rated` and `NoVerdictLeftUndecided` (before play there is
no evidence, so a barrier that expires has nothing to lose), and `VerdictAgreed`: when a
verdict names a winner, he claims the win and the other grants it.

*RankedQueue.*  The invariant is `QueueInv`: `TypeOK`, `OneMatchEach` and
`NotQueuedWhileOwned` at once.  A match's end puts players back in the queue, which
keeps the third only because the second says whom it owned; a queue command keeps the
third only because it looks at ownership again when it is applied.  `KeepsLobbyCorrect` maps
the module to `Lobby` and needs all three: a heartbeat enters no one anew, and the sweep
takes every lapsed entry, only because owned players have no row; the end of one match
empties its seats only because nobody sits in two.  `RunningLonger` (what runs by one clock runs
by an older one) is why no place is taken that has lapsed for longer than `MaxLag`, by any claim;
that a lease merely lapsed may still be paired is part of the promise (`PairsOnlyWaiting`).

*RankedEvents.*  `EventsInv`: the numbers an open transaction has taken follow the
committed counter without a gap and no one else has any (`Numbered`), which needs
that rows are held only by open transactions (`HoldersOpen`); and whatever a reader holds
is a beginning of what is committed (`Behind`).  `FirstOfInterval` says that a page after a
cursor is the interval that follows it, by the cardinality of intervals.  `KeepsLogCorrect`
maps every step of writers and readers to `EventLog`; `SnapshotAhead` (the cursor of an open
snapshot is never behind its client's) is what makes a replacement an advance.
`SomeoneGoesOnCorrect` proves that transactions never all wait for each other, whatever sets of
recipients they write to: rows are locked in one order (`InOrder`), so the holder of the
last row anyone waits for (it exists because users are finitely many) waits for nothing.

*P2PMatch.*  `RatedAsPlayed` and `RatedForGood` are not inductive: the transaction that
rates belongs to an attempt, perhaps one given up long ago, and writes what the
workflow decided before it began.  The invariant says what the workflow has seen at
each stage (`StageInv`), that its fields no longer change once it has decided (`Decided`), that
every attempt that rates was started after that and writes only a winner who plays or a double loss
(`AttemptInv`), and that an attempt that accepts has written its flag before it goes on: this, and the order of
the two accepting stages, is why both flags are set before play.  `AttemptStepInv` and
`CompleteInv` state it once for all activities.  These theorems hold under every fault the
model has, in particular any overlap of attempts, and for any number of strangers who signal.  `EndedCorrect` (`EndedWhenDone`) is about
crashes alone, as the property says: then no attempt runs but the awaited one and no error is
passed over, so the row's status is the one the workflow's stage asks for (`StatusInv`).

*UserSession.*  `OwnSession`: a session is told that its connection has ended only once it has.
`OnItsWay` says what the handlers of a request have written at each of their stages while
nobody else is at work on the player; by `OwnSession` nothing but a later step of the
environment disturbs them.

*CommandInbox.*  `InboxInv`: whoever is past a lock holds it (`Holds`), the rows of a stream have
different numbers below the next one (`Numbered`), receipts are distinct and below the calls
made (`Receipted`), and an answer about to be given is that of its row (`Answered`).  A
commit meets no other row of its id because its caller has looked under the advisory lock,
which is `Holds`.  `KeepsLedgerCorrect` maps the rest to `CommandLedger` by it.  `LocksCorrect`
says that every lock held is held by a caller at work under it, so nobody waits for a
caller that is done; it is about the inbox's own locks.

*ServerArena.*  `ArenaInv` adds `Witnesses`: what each handler, the ticker and each callback has
read is still true of what does not go back, the acceptances and the server.  By it
`StaysEndedCorrect` shows that nothing but an accept still at work revives an ended match.

*AccountLinks.*  `LinksInv`: two confirmations never hold the same proof (`Apart`), because the
intent's lock takes the proof's row; the owner a confirmation has found, and the link it has
made, are still there (`Seen`); a proof whose intent is committed is spent (`Spent`); and the
links together with the rows inserted and not committed yet are one-to-one, because an insert
waits for those it would clash with.  `LogoutInv`: a session its user has logged out of is never
live again (`Gone`), a revalidation that began after the logout concerns such a session (`Late`),
and what was there when a logout began is there still and, once both its updates are done, among
what they have hit (`Revoking`): a session is not inserted twice and does not change its kind.

**Only model-checked:** liveness (`MatchSettles`, `SilentPlayersLeave`, `EventsArrive`,
`TransactionsEnd`, `EndsWithoutFaults`, `FreedAfterRating`, `SessionsEnd`, `GoneLeavesQueue`,
`CommandsAreProcessed`, `AcceptedMatchEnds`, `FreedAfterEnd`), which the prover cannot do
under fairness, and the violated property.  **Only proved:** the type invariants and
`TerminalIsFinal`, `WatchedWhileLive` (`RankedMatch`), `PairsOnlyWaiting` (`RankedQueue`; the
run's `KeepsLobby` implies it), `SomeoneGoesOn` (`RankedEvents`), `LocksAreAtWork`
(`CommandInbox`) and `EndedStaysEnded` (`ServerArena`).

## What is left out

* The text of reports, lobby ids, payloads and events; ratings arithmetic (floating
  point); logging and metrics.
* In `RankedMatch`, `player_state.state`, which `RankedQueue` has, and
  the events it emits, which `RankedEvents` has.
* Leases are in ticks; that a requeued player's lease is a fixed 45 s in one place and
  configured in another makes no difference to any property.
* In `RankedQueue` only the native mode is queued for; the same player queueing for another
  mode through the legacy `BeginMatchmaking` is not mixed in.
* In `P2PMatch`: signals that come after the wait that reads them, which set fields nobody
  reads any more; who declined and the rows of `match_events`, which only an audit reads; hashes,
  and the games of the referees, whose reports are signals anyone may send.
* In `UserSession`: the workflow's phase, which only queries of clients read; other players,
  who meet this one in pairing alone.
* In `CommandInbox`: parsing and the texts of errors; what a command does.
* In `ServerArena`: audit rows, messages to players, the join tokens and the address.
* In `AccountLinks`: what a client must know to make a request (cookies, nonces, the
  signatures of tokens), and the providers.

## Not modelled

* **Pairing schedules.**  A pause or a resume decides only when pairing is tried; the modules
  let pairing run at any time and owe it nothing, so no property depends on them.
* **Pong and rock-paper-scissors referees.**  One task each, which owns its game: the first is a
  floating-point simulation, the second reads choices from one channel.  What they
  decide reaches the match as reports, which `P2PMatch` lets anyone send at any time.
* **Rate limiter.**  Pruned, counted and extended in one call under one mutex.
* **Ratings.**  Floating-point arithmetic; that they are written once is in three modules.
* **TURN credentials, demos, health and readiness.**  Stateless reads and pure I/O.
* **Server assembly and configuration.**  Wiring; durations are constants of the models.
* **Clients.**  The environment: any request in any order.
* Of the gateway: the authentication of a socket, and the relay of WebRTC offers, game input
  and rollback health, which keep no state.  Of the player state machine: read-check-set
  transitions that no path of the modules uses.  Of identities: tokens for guests and tests,
  which are development routes.
