---------------------------- MODULE RankedEvents ----------------------------
(***************************************************************************)
(* The ranked event stream: numbered events of each recipient, and the     *)
(* clients that follow them by long poll and by snapshot.                  *)
(*                                                                         *)
(* A transaction that changes a match takes the counter rows of its        *)
(* recipients, numbers its events from them and inserts the events; all of *)
(* it is seen by others when it commits, and the rows are locked until     *)
(* then.  A reader asks for the events after its cursor.  It is woken by   *)
(* the ticker alone, although the workflow's activities and the pairing    *)
(* emit events too, and a wake-up between its query and its wait is lost.  *)
(*                                                                         *)
(* Every event stands for one change of the match: the state of a match    *)
(* that a snapshot shows is the set of events it is the result of.         *)
(***************************************************************************)
EXTENDS Integers, FiniteSets

CONSTANTS
  Users,      \* the recipients, ordered as their UUIDs
  Clients,    \* those of them who have a client that follows the stream
  Writers,    \* transactions that may be open at a time
  PageSize,   \* EVENTS_PAGE_SIZE
  MaxEvents   \* bound: how many events are numbered for a recipient

ASSUME UsersAssumption ==
  Users \subseteq Nat /\ IsFiniteSet(Users) /\ Clients \subseteq Users
ASSUME PageSizeAssumption == PageSize \in Nat \ {0}

NoOne == "nobody"
ASSUME WritersAssumption == NoOne \notin Writers

VARIABLES
  counter,     \* event_recipient_counters: the last number, as committed
  pending,     \* the same, as the transaction that holds the row sees it
  holder,      \* who has locked the row
  recipients,  \* of each open transaction; {} when there is none
  made,        \* numbers of the events each open transaction has inserted
  published,   \* match_events: the committed numbers of each recipient
  poll,        \* /api/events request of each recipient: where it is
  page,        \* what its query returned
  late,        \* its 25 seconds are over
  snap,        \* /api/ranked/state: cursor and events of the snapshot opened
  cursor,      \* the client's cursor
  knows        \* the changes the client has learnt of

dbVars     == <<counter, pending, holder, recipients, made, published>>
clientVars == <<poll, page, late, snap, cursor, knows>>
vars == <<dbVars, clientVars>>

Holds(w, u) == holder[u] = w
NumbersOf(w, u) == made[<<w, u>>]

-----------------------------------------------------------------------------
(* Transactions. *)

Begin(w, to) ==
  /\ recipients[w] = {}
  /\ recipients' = [recipients EXCEPT ![w] = to]
  /\ UNCHANGED <<counter, pending, holder, made, published, clientVars>>

\* Mutant of LockCounter: a number is taken from the row without locking it.
LockCounterShared(w, u) ==
  /\ u \in recipients[w] /\ ~Holds(w, u)
  /\ \A v \in recipients[w] : v < u => Holds(w, v)
  /\ holder' = [holder EXCEPT ![u] = w]
  /\ UNCHANGED <<counter, pending, recipients, made, published, clientVars>>

\* Mutant of LockCounter: the rows are taken in the order the events are listed.
LockCounterAnyOrder(w, u) ==
  /\ u \in recipients[w]
  /\ holder[u] = NoOne
  /\ holder' = [holder EXCEPT ![u] = w]
  /\ UNCHANGED <<counter, pending, recipients, made, published, clientVars>>

\* The rows are taken one by one, in the order of the recipients' UUIDs.
LockCounter(w, u) ==
  /\ u \in recipients[w]
  /\ holder[u] = NoOne
  /\ \A v \in recipients[w] : v < u => Holds(w, v)
  /\ holder' = [holder EXCEPT ![u] = w]
  /\ UNCHANGED <<counter, pending, recipients, made, published, clientVars>>

EmitRecipientEvent(w, u) ==
  /\ u \in recipients[w]
  /\ Holds(w, u)
  /\ pending[u] < MaxEvents
  /\ pending' = [pending EXCEPT ![u] = @ + 1]
  /\ made' = [made EXCEPT ![<<w, u>>] = @ \cup {pending[u] + 1}]
  /\ UNCHANGED <<counter, holder, recipients, published, clientVars>>

Release(w) ==
  /\ holder' = [u \in Users |-> IF Holds(w, u) THEN NoOne ELSE holder[u]]
  /\ recipients' = [recipients EXCEPT ![w] = {}]
  /\ made' = [x \in Writers \X Users |-> IF x[1] = w THEN {} ELSE made[x]]

\* Everything the transaction wrote is seen at once.
Commit(w) ==
  /\ recipients[w] # {}
  /\ \A u \in recipients[w] : Holds(w, u)
  /\ published' = [u \in Users |-> published[u] \cup NumbersOf(w, u)]
  /\ counter' = [u \in Users |-> IF Holds(w, u) THEN pending[u] ELSE counter[u]]
  /\ Release(w)
  /\ UNCHANGED <<pending, clientVars>>

\* A database error or the death of the server, before the commit.
Rollback(w) ==
  /\ recipients[w] # {}
  /\ pending' = [u \in Users |-> IF Holds(w, u) THEN counter[u] ELSE pending[u]]
  /\ Release(w)
  /\ UNCHANGED <<counter, published, clientVars>>

-----------------------------------------------------------------------------
(* Readers. *)

\* ORDER BY recipient_sequence ASC LIMIT
FirstOf(S) == {n \in S : Cardinality({k \in S : k < n}) < PageSize}
LastOf(S)  == CHOOSE n \in S : \A k \in S : k <= n

NoSnapshot == [cursor |-> 0, view |-> {}]

\* The request of recipient u is over and forgotten.
Over(u) ==
  /\ poll' = [poll EXCEPT ![u] = "idle"]
  /\ page' = [page EXCEPT ![u] = {}]
  /\ late' = [late EXCEPT ![u] = FALSE]
  /\ snap' = [snap EXCEPT ![u] = NoSnapshot]

AskEvents(u) ==
  /\ poll[u] = "idle"
  /\ poll' = [poll EXCEPT ![u] = "query"]
  /\ UNCHANGED <<page, late, snap, cursor, knows, dbVars>>

\* get_events; an empty page is an answer only when the time is up.
GetEvents(u) ==
  /\ poll[u] = "query"
  /\ LET found == FirstOf({n \in published[u] : n > cursor[u]})
     IN  /\ page' = [page EXCEPT ![u] = found]
         /\ poll' = [poll EXCEPT ![u] = IF found # {} \/ late[u] THEN "answer" ELSE "empty"]
  /\ UNCHANGED <<late, snap, cursor, knows, dbVars>>

Wait(u) ==
  /\ poll[u] = "empty"
  /\ poll' = [poll EXCEPT ![u] = "wait"]
  /\ UNCHANGED <<page, late, snap, cursor, knows, dbVars>>

\* The ticker wakes whoever is waiting at that moment.
NotifyWaiters ==
  /\ poll' = [u \in Users |-> IF poll[u] = "wait" THEN "query" ELSE poll[u]]
  /\ UNCHANGED <<page, late, snap, cursor, knows, dbVars>>

\* Mutant of PollTimesOut: a request waits until it is notified.
PollWaitsForNotify(u) ==
  /\ poll[u] = "wait"
  /\ UNCHANGED vars

\* The time is up, and the query is made once more.
PollTimesOut(u) ==
  /\ poll[u] = "wait"
  /\ poll' = [poll EXCEPT ![u] = "query"]
  /\ late' = [late EXCEPT ![u] = TRUE]
  /\ UNCHANGED <<page, snap, cursor, knows, dbVars>>

Receive(u) ==
  /\ poll[u] = "answer"
  /\ Over(u)
  /\ cursor' = [cursor EXCEPT ![u] = IF page[u] = {} THEN @ ELSE LastOf(page[u])]
  /\ knows' = [knows EXCEPT ![u] = @ \cup page[u]]
  /\ UNCHANGED dbVars

\* Mutant of LosePoll: a client whose request fails starts again from nothing.
LosePollForget(u) ==
  /\ poll[u] # "idle"
  /\ Over(u)
  /\ cursor' = [cursor EXCEPT ![u] = 0]
  /\ knows' = [knows EXCEPT ![u] = {}]
  /\ UNCHANGED dbVars

\* The answer, or the request, is lost.
LosePoll(u) ==
  /\ poll[u] # "idle"
  /\ Over(u)
  /\ UNCHANGED <<cursor, knows, dbVars>>

\* REPEATABLE READ: the first query fixes what the later ones see.
OpenSnapshot(u) ==
  /\ poll[u] = "idle"
  /\ poll' = [poll EXCEPT ![u] = "snapshot"]
  /\ snap' = [snap EXCEPT ![u] = [cursor |-> counter[u], view |-> published[u]]]
  /\ UNCHANGED <<page, late, cursor, knows, dbVars>>

\* Mutant of TakeSnapshot: every query of it sees what is committed by then.
TakeSnapshotCommitted(u) ==
  /\ poll[u] = "snapshot"
  /\ Over(u)
  /\ cursor' = [cursor EXCEPT ![u] = snap[u].cursor]
  /\ knows' = [knows EXCEPT ![u] = published[u]]
  /\ UNCHANGED dbVars

\* The rest of the snapshot is read, and the client starts again from it.
TakeSnapshot(u) ==
  /\ poll[u] = "snapshot"
  /\ Over(u)
  /\ cursor' = [cursor EXCEPT ![u] = snap[u].cursor]
  /\ knows' = [knows EXCEPT ![u] = snap[u].view]
  /\ UNCHANGED dbVars

-----------------------------------------------------------------------------
(* The specification. *)

Init ==
  /\ counter = [u \in Users |-> 0]
  /\ pending = counter
  /\ holder = [u \in Users |-> NoOne]
  /\ recipients = [w \in Writers |-> {}]
  /\ made = [x \in Writers \X Users |-> {}]
  /\ published = [u \in Users |-> {}]
  /\ poll = [u \in Users |-> "idle"]
  /\ page = [u \in Users |-> {}]
  /\ late = [u \in Users |-> FALSE]
  /\ snap = [u \in Users |-> NoSnapshot]
  /\ cursor = [u \in Users |-> 0]
  /\ knows = [u \in Users |-> {}]

\* The events of a transaction are for both players of a match, or for one.
WriterStep(w) ==
  \/ \E a, b \in Users : Begin(w, {a, b})
  \/ \E u \in Users : LockCounter(w, u) \/ EmitRecipientEvent(w, u)
  \/ Commit(w)
  \/ Rollback(w)

ReaderStep(u) ==
  \/ AskEvents(u)
  \/ GetEvents(u)
  \/ Wait(u)
  \/ PollTimesOut(u)
  \/ Receive(u)
  \/ LosePoll(u)
  \/ OpenSnapshot(u)
  \/ TakeSnapshot(u)

Next ==
  \/ \E w \in Writers : WriterStep(w)
  \/ \E u \in Clients : ReaderStep(u)
  \/ NotifyWaiters

Spec == Init /\ [][Next]_vars

\* Open transactions go on and get the rows they ask for; no rollback is owed
\* to a transaction that waits.
WriterFairness ==
  \A w \in Writers :
    /\ \A u \in Users : SF_vars(LockCounter(w, u))
    /\ WF_vars(Commit(w))

\* Requests are answered in time, and a client repeats its request and does not
\* lose every one.  Nothing is owed by the ticker that notifies.
ReaderFairness ==
  \A u \in Clients :
    /\ WF_vars(Wait(u)) /\ WF_vars(PollTimesOut(u)) /\ WF_vars(TakeSnapshot(u))
    /\ SF_vars(AskEvents(u)) /\ SF_vars(GetEvents(u)) /\ SF_vars(Receive(u))

FairSpec == Spec /\ WriterFairness /\ ReaderFairness

-----------------------------------------------------------------------------
(* Properties. *)

\* Every variable holds a value its column, request or client can hold.
TypeOK ==
  /\ counter \in [Users -> Nat] /\ pending \in [Users -> Nat]
  /\ holder \in [Users -> Writers \cup {NoOne}]
  /\ recipients \in [Writers -> SUBSET Users]
  /\ made \in [Writers \X Users -> SUBSET Nat]
  /\ published \in [Users -> SUBSET Nat]
  /\ poll \in [Users -> {"idle", "query", "empty", "wait", "answer", "snapshot"}]
  /\ page \in [Users -> SUBSET Nat]
  /\ late \in [Users -> BOOLEAN]
  /\ snap \in [Users -> [cursor : Nat, view : SUBSET Nat]]
  /\ cursor \in [Users -> Nat]
  /\ knows \in [Users -> SUBSET Nat]

\* The committed events of a recipient are numbered 1, 2, 3, ... without a gap,
\* whatever transactions overlap and whichever of them roll back.
Gapless == \A u \in Users : published[u] = 1..counter[u]

\* ranked_routes.rs:116: "so no event is ever skipped".  A client knows exactly
\* the changes up to its cursor, whether it learnt of them from pages, some of
\* them lost, or from a snapshot: none is missing and none will come again.
NothingSkipped == \A u \in Users : knows[u] = 1..cursor[u]

\* The stream is a log in the sense of EventLog: overlapping and failing
\* transactions only ever lengthen it at its end, and a client that mixes pages,
\* repeated requests and snapshots never has to take anything back.
Log == INSTANCE EventLog WITH log <- published, read <- knows
KeepsLog == Log!Spec

\* Transactions that share recipients never wait for each other in a circle: of
\* those that are open, one holds all the rows it needs or finds the next free.
NextRow(w, u) ==
  /\ u \in recipients[w] /\ ~Holds(w, u)
  /\ \A v \in recipients[w] : v < u => Holds(w, v)
SomeoneGoesOn ==
  (\E w \in Writers : recipients[w] # {}) =>
    \E w \in Writers :
      recipients[w] # {} /\ \A u \in Users : NextRow(w, u) => holder[u] = NoOne

\* An event is delivered in the end, although the wake-up for it may never come.
EventsArrive ==
  \A u \in Clients : \A n \in 1..MaxEvents : n \in published[u] ~> n \in knows[u]

\* No transaction waits for ever for the counters of its recipients.
TransactionsEnd == \A w \in Writers : recipients[w] # {} ~> recipients[w] = {}

=============================================================================
