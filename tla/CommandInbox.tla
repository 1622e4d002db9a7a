---------------------------- MODULE CommandInbox -----------------------------
(***************************************************************************)
(* The durable inbox of ranked commands: callers of one session that admit *)
(* commands, repeat them and race each other, and drainers that claim one  *)
(* stream after another and process its commands in order.                 *)
(*                                                                         *)
(* A transaction is its locks, its reads and its commit, one after the     *)
(* other; it may be lost at any of them, with the server or the database.  *)
(* What a command does is in RankedMatch and RankedQueue: here policy      *)
(* refuses, applies or rejects one as it likes.                            *)
(***************************************************************************)
EXTENDS Integers, FiniteSets

Nobody == "nobody"

CONSTANTS
  Keys,        \* command ids of the session
  Payloads,    \* payloads, up to their hash
  Owner,       \* the stream of each payload: its match, or the user
  Owners,      \* streams, in the order drain_pending looks at them
  Matches,     \* those that are matches
  Callers,     \* requests at work at a time
  Ticker,      \* the ticker's drain_pending
  Workflows,   \* drain_match activities
  MaxCalls     \* bound: calls of dispatch

ASSUME OwnersAssumption ==
  /\ Owners \subseteq Nat /\ Matches \subseteq Owners
  /\ Owner \in [Payloads -> Owners]
ASSUME MaxCallsAssumption == MaxCalls \in Nat
ASSUME NoneAssumption ==
  /\ "none" \notin Payloads \cup Callers
  /\ Nobody \notin Callers \cup Workflows \cup {Ticker}
  /\ Ticker \notin Workflows /\ Callers \cap (Workflows \cup {Ticker}) = {}

VARIABLES
  inbox,     \* command_inbox: the committed row of each command id
  next,      \* next_command_sequence, next_sequence of each stream
  keyLock,   \* holder of the advisory lock of each command id
  ownerLock, \* holder of the row locks of each stream
  caller,    \* where each call of dispatch is, and what it asks and answers
  drainer,   \* where each drainer is, and the stream it is at
  told,      \* history: the answers callers have been given
  calls      \* how many calls have been made

vars == <<inbox, next, keyLock, ownerLock, caller, drainer, told, calls>>

Drainers == {Ticker} \cup Workflows
NoRow == [payload |-> "none", receipt |-> 0, status |-> "none", seq |-> 0]
Rows == [payload : Payloads, receipt : 1 .. MaxCalls,
         status : {"pending", "applied", "rejected"}, seq : Nat \ {0}]

\* keying, owning: waiting for the dedupe key, for the stream.
CallStages == {"fresh", "keying", "owning", "deciding", "committing", "answering"}
Calls == [at : CallStages, key : Keys, payload : Payloads, receipt : 1 .. MaxCalls,
          seq : Nat, answer : 0 .. MaxCalls]
NoCall == [at |-> "idle", key |-> "none", payload |-> "none", receipt |-> 0, seq |-> 0,
           answer |-> 0]

Conflict == 0
\* Mutant of Replay: the payload is not compared.
ReplayByKey(k, p) == inbox[k].receipt

\* replay_receipt and replay_receipt_in_tx on a row that is there.
Replay(k, p) == IF inbox[k].payload = p THEN inbox[k].receipt ELSE Conflict

StreamOf(k) == Owner[inbox[k].payload]
Pending(o) == {k \in Keys : inbox[k].status = "pending" /\ StreamOf(k) = o}

-----------------------------------------------------------------------------
(* dispatch *)

Moved(c, at) == [caller EXCEPT ![c].at = at]
Answering(c, answer) == [caller EXCEPT ![c].at = "answering", ![c].answer = answer]
Released(lock, who) == [l \in DOMAIN lock |-> IF lock[l] = who THEN Nobody ELSE lock[l]]
EndTx(who) ==
  /\ keyLock' = Released(keyLock, who)
  /\ ownerLock' = Released(ownerLock, who)

\* A caller asks, or repeats itself; its receipt is drawn when it is needed.
Dispatch(c, k, p) ==
  /\ caller[c] = NoCall /\ calls < MaxCalls
  /\ calls' = calls + 1
  /\ caller' = [caller EXCEPT ![c] =
       [at |-> "fresh", key |-> k, payload |-> p, receipt |-> calls + 1, seq |-> 0,
        answer |-> 0]]
  /\ UNCHANGED <<inbox, next, keyLock, ownerLock, drainer, told>>

\* The first look, outside of the transaction.
LookUp(c) ==
  /\ caller[c].at = "fresh"
  /\ LET k == caller[c].key IN
       caller' = IF inbox[k] # NoRow
                 THEN Answering(c, Replay(k, caller[c].payload)) ELSE Moved(c, "keying")
  /\ UNCHANGED <<inbox, next, keyLock, ownerLock, drainer, told, calls>>

\* Mutant of LockDedupeKey: callers do not wait for one another.
LockDedupeKeyNot(c) ==
  /\ caller[c].at = "keying"
  /\ caller' = Moved(c, "owning")
  /\ UNCHANGED <<inbox, next, keyLock, ownerLock, drainer, told, calls>>

LockDedupeKey(c) ==
  /\ caller[c].at = "keying"
  /\ keyLock[caller[c].key] = Nobody
  /\ keyLock' = [keyLock EXCEPT ![caller[c].key] = c]
  /\ caller' = Moved(c, "owning")
  /\ UNCHANGED <<inbox, next, ownerLock, drainer, told, calls>>

\* The match's two rows, or the user's counter.
LockOwner(c) ==
  /\ caller[c].at = "owning"
  /\ LET o == Owner[caller[c].payload] IN
       /\ ownerLock[o] = Nobody
       /\ ownerLock' = [ownerLock EXCEPT ![o] = c]
  /\ caller' = Moved(c, "deciding")
  /\ UNCHANGED <<inbox, next, keyLock, drainer, told, calls>>

\* The row is looked for again, under the locks.
ReplayInTx(c) ==
  /\ caller[c].at = "deciding"
  /\ LET k == caller[c].key IN
       /\ inbox[k] # NoRow
       /\ caller' = Answering(c, Replay(k, caller[c].payload))
  /\ EndTx(c)
  /\ UNCHANGED <<inbox, next, drainer, told, calls>>

\* Policy refuses a new command, before the transaction or in it: no row is left.
Refuse(c) ==
  /\ \/ caller[c].at = "keying"
     \/ caller[c].at = "deciding" /\ inbox[caller[c].key] = NoRow
  /\ caller' = [caller EXCEPT ![c] = NoCall]
  /\ EndTx(c)
  /\ UNCHANGED <<inbox, next, drainer, told, calls>>

Insert(c) ==
  /\ caller[c].at = "deciding" /\ inbox[caller[c].key] = NoRow
  /\ caller' = [Moved(c, "committing") EXCEPT ![c].seq = next[Owner[caller[c].payload]]]
  /\ UNCHANGED <<inbox, next, keyLock, ownerLock, drainer, told, calls>>

\* The primary key and the stream's numbers are unique: a row that would break
\* either fails with a database error.
Unique(c) ==
  LET k == caller[c].key IN
  /\ inbox[k] = NoRow
  /\ \A other \in Keys :
       inbox[other] # NoRow /\ StreamOf(other) = Owner[caller[c].payload] =>
         inbox[other].seq # caller[c].seq

Commit(c) ==
  /\ caller[c].at = "committing"
  /\ LET k == caller[c].key
         p == caller[c].payload
     IN /\ Unique(c)
        /\ inbox' = [inbox EXCEPT ![k] =
             [payload |-> p, receipt |-> caller[c].receipt, status |-> "pending",
              seq |-> caller[c].seq]]
        /\ next' = [next EXCEPT ![Owner[p]] = @ + 1]
  /\ caller' = Answering(c, caller[c].receipt)
  /\ EndTx(c)
  /\ UNCHANGED <<drainer, told, calls>>

Reply(c) ==
  /\ caller[c].at = "answering"
  /\ told' = told \cup {[key |-> caller[c].key, payload |-> caller[c].payload,
                         answer |-> caller[c].answer]}
  /\ caller' = [caller EXCEPT ![c] = NoCall]
  /\ UNCHANGED <<inbox, next, keyLock, ownerLock, drainer, calls>>

\* The connection or the transaction is lost, and with it the answer.
LoseCall(c) ==
  /\ caller[c] # NoCall
  /\ caller' = [caller EXCEPT ![c] = NoCall]
  /\ EndTx(c)
  /\ UNCHANGED <<inbox, next, drainer, told, calls>>

-----------------------------------------------------------------------------
(* drain_pending and drain_match *)

At(d, at, o) == drainer' = [drainer EXCEPT ![d] = [at |-> at, stream |-> o]]
NoStream == 0

\* Mutant of Discover: only matches are looked at.
DiscoverMatches ==
  /\ drainer[Ticker].at = "idle"
  /\ \E o \in Matches :
       /\ Pending(o) # {}
       /\ \A lower \in Matches : lower < o => Pending(lower) = {}
       /\ At(Ticker, "claiming", o)
  /\ UNCHANGED <<inbox, next, keyLock, ownerLock, caller, told, calls>>

\* The first stream with a pending command; no lock is taken to look.
Discover ==
  /\ drainer[Ticker].at = "idle"
  /\ \E o \in Owners :
       /\ Pending(o) # {}
       /\ \A lower \in Owners : lower < o => Pending(lower) = {}
       /\ At(Ticker, "claiming", o)
  /\ UNCHANGED <<inbox, next, keyLock, ownerLock, caller, told, calls>>

DrainMatch(d, o) ==
  /\ d \in Workflows /\ drainer[d].at = "idle"
  /\ At(d, "claiming", o)
  /\ UNCHANGED <<inbox, next, keyLock, ownerLock, caller, told, calls>>

Claim(d) ==
  /\ drainer[d].at = "claiming"
  /\ ownerLock[drainer[d].stream] = Nobody
  /\ ownerLock' = [ownerLock EXCEPT ![drainer[d].stream] = d]
  /\ At(d, "claimed", drainer[d].stream)
  /\ UNCHANGED <<inbox, next, keyLock, caller, told, calls>>

\* Mutant of IsHead: any pending command of the stream.
IsAnyPending(o, k) == k \in Pending(o)

IsHead(o, k) ==
  /\ k \in Pending(o)
  /\ \A other \in Pending(o) : inbox[k].seq <= inbox[other].seq

\* One command is processed, its outcome committed with its effects; then the
\* ticker looks for a stream again, and a workflow's drainer at its own.
Process(d) ==
  LET o == drainer[d].stream IN
  /\ drainer[d].at = "claimed"
  /\ \E k \in Keys, status \in {"applied", "rejected"} :
       /\ IsHead(o, k)
       /\ inbox' = [inbox EXCEPT ![k].status = status]
  /\ IF d = Ticker THEN At(d, "idle", NoStream) ELSE At(d, "claiming", o)
  /\ EndTx(d)
  /\ UNCHANGED <<next, caller, told, calls>>

Empty(d) ==
  /\ drainer[d].at = "claimed" /\ Pending(drainer[d].stream) = {}
  /\ At(d, "idle", NoStream)
  /\ EndTx(d)
  /\ UNCHANGED <<inbox, next, caller, told, calls>>

\* A database error, or the loss of the server, ends the drainer's pass.
Fail(d) ==
  /\ drainer[d].at = "claimed"
  /\ At(d, "idle", NoStream)
  /\ EndTx(d)
  /\ UNCHANGED <<inbox, next, caller, told, calls>>

-----------------------------------------------------------------------------
Init ==
  /\ inbox = [k \in Keys |-> NoRow]
  /\ next = [o \in Owners |-> 1]
  /\ keyLock = [k \in Keys |-> Nobody]
  /\ ownerLock = [o \in Owners |-> Nobody]
  /\ caller = [c \in Callers |-> NoCall]
  /\ drainer = [d \in Drainers |-> [at |-> "idle", stream |-> NoStream]]
  /\ told = {} /\ calls = 0

Admission(c) ==
  \/ LookUp(c) \/ LockDedupeKey(c) \/ LockOwner(c) \/ ReplayInTx(c) \/ Refuse(c)
  \/ Insert(c) \/ Commit(c) \/ Reply(c)

Next ==
  \/ \E c \in Callers :
       \/ \E k \in Keys, p \in Payloads : Dispatch(c, k, p)
       \/ Admission(c) \/ LoseCall(c)
  \/ Discover
  \/ \E d \in Drainers :
       \/ \E o \in Matches : DrainMatch(d, o)
       \/ Claim(d) \/ Process(d) \/ Empty(d) \/ Fail(d)

Spec == Init /\ [][Next]_vars

\* A transaction goes on, and locks are granted in the order they are asked for;
\* the ticker's passes go on and do not fail at the same command for ever.
Fairness ==
  /\ \A c \in Callers : /\ WF_vars(Admission(c))
                        /\ SF_vars(LockDedupeKey(c)) /\ SF_vars(LockOwner(c))
  /\ \A d \in Drainers : WF_vars(Empty(d)) /\ WF_vars(Process(d) \/ Fail(d))
  /\ WF_vars(Discover) /\ SF_vars(Claim(Ticker)) /\ SF_vars(Process(Ticker))

FairSpec == Spec /\ Fairness

-----------------------------------------------------------------------------
\* Every variable keeps to its domain.
TypeOK ==
  /\ inbox \in [Keys -> Rows \cup {NoRow}]
  /\ next \in [Owners -> Nat \ {0}]
  /\ keyLock \in [Keys -> Callers \cup {Nobody}]
  /\ ownerLock \in [Owners -> Callers \cup Drainers \cup {Nobody}]
  /\ caller \in [Callers -> Calls \cup {NoCall}]
  /\ drainer \in [Drainers -> [at : {"idle", "claiming", "claimed"},
                             stream : Owners \cup {NoStream}]]
  /\ told \subseteq [key : Keys, payload : Payloads, answer : 0 .. MaxCalls]
  /\ calls \in 0 .. MaxCalls

\* However callers race under one command id, none of them is turned away by
\* the table's constraints: each finds the row of the one who was first.
DuplicatesAreRecognised ==
  \A c \in Callers : caller[c].at = "committing" => Unique(c)

\* The commands of a stream are processed in the order they were admitted in:
\* none is before one that is still pending.
StreamsInOrder ==
  \A k, l \in Keys :
    /\ inbox[k] # NoRow /\ inbox[l] # NoRow /\ k # l /\ StreamOf(k) = StreamOf(l)
    /\ inbox[k].status = "pending"
    => inbox[l].status = "pending" \/ inbox[l].seq < inbox[k].seq

\* No lock outlives its transaction, whatever is refused, lost or fails, and
\* whoever has locked a stream waits for no other lock: he cannot be part of a
\* circle of calls and drainers that wait for each other.
LocksAreAtWork ==
  /\ \A k \in Keys, c \in Callers : keyLock[k] = c =>
       caller[c].at \in {"owning", "deciding", "committing"} /\ caller[c].key = k
  /\ \A o \in Owners, c \in Callers : ownerLock[o] = c =>
       caller[c].at \in {"deciding", "committing"} /\ Owner[caller[c].payload] = o
  /\ \A o \in Owners, d \in Drainers : ownerLock[o] = d =>
       drainer[d].at = "claimed" /\ drainer[d].stream = o

\* Every admitted command is processed, whichever drainers fail on the way.
CommandsAreProcessed ==
  \A k \in Keys : inbox[k].status = "pending" ~> inbox[k].status # "pending"

\* The inbox keeps what dispatch promises of the commands of a session.
Entry(k) ==
  [payload |-> inbox[k].payload, receipt |-> inbox[k].receipt, status |-> inbox[k].status]
Ledger == INSTANCE CommandLedger WITH
  ledger <- [k \in Keys |-> Entry(k)], Receipts <- 1 .. MaxCalls
KeepsLedger == Ledger!Spec

=============================================================================
