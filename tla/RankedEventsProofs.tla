------------------------- MODULE RankedEventsProofs -------------------------
(***************************************************************************)
(* What holds of the event stream for any recipients, any transactions     *)
(* open at a time, any page size and any number of events.                 *)
(***************************************************************************)
EXTENDS RankedEvents, FiniteSetTheorems, WellFoundedInduction, TLAPS

-----------------------------------------------------------------------------
(* The inductive invariants. *)

\* A counter is locked only by a transaction that has it among its recipients.
HoldersOpen == \A u \in Users : \A w \in Writers : Holds(w, u) => u \in recipients[w]

\* An open transaction has taken the numbers that follow the committed counter,
\* all of them, and no other transaction has taken any.
Numbered ==
  \A u \in Users : \A w \in Writers :
    NumbersOf(w, u) = IF Holds(w, u) THEN counter[u] + 1 .. pending[u] ELSE {}

PendingAhead ==
  \A u \in Users : /\ counter[u] <= pending[u]
                   /\ holder[u] = NoOne => pending[u] = counter[u]

DbInv == TypeOK /\ HoldersOpen /\ Numbered /\ PendingAhead /\ Gapless

\* What a request has read, and what a client has learnt, is a beginning of what
\* is committed; a page goes on where the client's cursor stands.
Behind ==
  \A u \in Users :
    /\ cursor[u] <= counter[u]
    /\ \E l \in cursor[u]..counter[u] : page[u] = cursor[u] + 1 .. l
    /\ snap[u].cursor <= counter[u]
    /\ snap[u].view = 1 .. snap[u].cursor

EventsInv == DbInv /\ Behind /\ NothingSkipped

-----------------------------------------------------------------------------
(* Pages. *)

\* The page after a cursor is the interval that follows it.
LEMMA FirstOfInterval ==
  ASSUME NEW c \in Nat, NEW a \in Nat, a <= c
  PROVE  \E l \in a..c : FirstOf(a + 1 .. c) = a + 1 .. l
<1>. DEFINE S == a + 1 .. c
            l == IF a + PageSize <= c THEN a + PageSize ELSE c
<1>1. \A n \in S : Cardinality({k \in S : k < n}) = n - 1 - a
  <2>. SUFFICES ASSUME NEW n \in S PROVE Cardinality({k \in S : k < n}) = n - 1 - a
    OBVIOUS
  <2>1. {k \in S : k < n} = a + 1 .. n - 1
    OBVIOUS
  <2>2. Cardinality(a + 1 .. n - 1) = n - 1 - a
    <3>1. a + 1 \in Int /\ n - 1 \in Int
      OBVIOUS
    <3>2. Cardinality(a + 1 .. n - 1) = IF a + 1 > n - 1 THEN 0 ELSE (n - 1) - (a + 1) + 1
      BY <3>1, FS_Interval
    <3>. QED  BY <3>2
  <2>. QED  BY <2>1, <2>2
<1>2. l \in a..c
  BY PageSizeAssumption
<1>3. FirstOf(S) = {n \in S : n - 1 - a < PageSize}
  BY <1>1, Zenon DEF FirstOf
<1>4. {n \in S : n - 1 - a < PageSize} = a + 1 .. l
  BY PageSizeAssumption
<1>. QED  BY <1>2, <1>3, <1>4, Zenon

LEMMA LastOfInterval ==
  ASSUME NEW a \in Nat, NEW l \in Nat, a < l
  PROVE  LastOf(a + 1 .. l) = l
<1>1. l \in a + 1 .. l /\ \A k \in a + 1 .. l : k <= l
  OBVIOUS
<1>2. \A n \in a + 1 .. l : (\A k \in a + 1 .. l : k <= n) => n = l
  OBVIOUS
<1>. QED  BY <1>1, <1>2 DEF LastOf

-----------------------------------------------------------------------------
(* Transactions. *)

LEMMA InitInv == Init => EventsInv
<1>. SUFFICES ASSUME Init PROVE EventsInv
  OBVIOUS
<1>1. TypeOK
  BY DEF Init, TypeOK, NoSnapshot
<1>2. HoldersOpen /\ Numbered
  BY WritersAssumption DEF Init, HoldersOpen, Numbered, Holds, NumbersOf
<1>3. PendingAhead /\ Gapless
  BY DEF Init, PendingAhead, Gapless
<1>4. Behind
  <2>1. 0 \in 0 .. 0 /\ {} = 0 + 1 .. 0 /\ {} = 1 .. 0
    OBVIOUS
  <2>2. \A u \in Users :
          /\ cursor[u] = 0 /\ counter[u] = 0 /\ page[u] = {}
          /\ snap[u].cursor = 0 /\ snap[u].view = {}
    BY DEF Init, NoSnapshot
  <2>3. \A u \in Users : \E l \in cursor[u]..counter[u] : page[u] = cursor[u] + 1 .. l
    BY <2>1, <2>2, Zenon
  <2>4. \A u \in Users : snap[u].view = 1 .. snap[u].cursor
    BY <2>1, <2>2, Zenon
  <2>5. \A u \in Users : cursor[u] <= counter[u] /\ snap[u].cursor <= counter[u]
    BY <2>2
  <2>. QED  BY <2>3, <2>4, <2>5, Zenon DEF Behind
<1>5. NothingSkipped
  BY DEF Init, NothingSkipped
<1>. QED  BY <1>1, <1>2, <1>3, <1>4, <1>5 DEF EventsInv, DbInv

\* Readers see committed events only, so a transaction that is open changes
\* nothing of theirs.
LEMMA OpenInv ==
  ASSUME EventsInv, DbInv', UNCHANGED <<counter, clientVars>>
  PROVE  EventsInv'
BY DEF EventsInv, Behind, NothingSkipped, clientVars

LEMMA BeginInv ==
  ASSUME EventsInv, NEW w \in Writers, NEW to \in SUBSET Users, Begin(w, to)
  PROVE  EventsInv'
<1>. USE DEF EventsInv, DbInv
<1>1. TypeOK'
  BY DEF Begin, TypeOK, clientVars
<1>2. HoldersOpen'
  BY DEF Begin, HoldersOpen, Holds, TypeOK
<1>3. Numbered' /\ PendingAhead' /\ Gapless'
  BY DEF Begin, Numbered, PendingAhead, Gapless, Holds, NumbersOf
<1>. QED  BY <1>1, <1>2, <1>3, OpenInv DEF Begin

LEMMA LockInv ==
  ASSUME EventsInv, NEW w \in Writers, NEW u \in Users, LockCounter(w, u)
  PROVE  EventsInv'
<1>. USE DEF EventsInv, DbInv
<1>1. TypeOK'
  BY DEF LockCounter, TypeOK, clientVars
<1>2. HoldersOpen'
  BY DEF LockCounter, HoldersOpen, Holds, TypeOK
<1>3. Numbered'
  <2>1. pending[u] = counter[u] /\ counter[u] + 1 .. pending[u] = {}
    BY DEF LockCounter, PendingAhead, TypeOK
  <2>2. \A x \in Writers : NumbersOf(x, u) = {}
    BY WritersAssumption DEF LockCounter, Numbered, Holds
  <2>. QED  BY <2>1, <2>2 DEF LockCounter, Numbered, Holds, NumbersOf, TypeOK
<1>4. PendingAhead' /\ Gapless'
  BY WritersAssumption DEF LockCounter, PendingAhead, Gapless, TypeOK
<1>. QED  BY <1>1, <1>2, <1>3, <1>4, OpenInv DEF LockCounter

LEMMA EmitInv ==
  ASSUME EventsInv, NEW w \in Writers, NEW u \in Users, EmitRecipientEvent(w, u)
  PROVE  EventsInv'
<1>. USE DEF EventsInv, DbInv
<1>1. TypeOK'
  <2>1. pending' \in [Users -> Nat] /\ made' \in [Writers \X Users -> SUBSET Nat]
    BY DEF EmitRecipientEvent, TypeOK
  <2>. QED  BY <2>1 DEF EmitRecipientEvent, TypeOK, clientVars
<1>2. HoldersOpen'
  BY DEF EmitRecipientEvent, HoldersOpen, Holds
<1>3. Numbered'
  <2>1. NumbersOf(w, u)' = counter[u] + 1 .. pending'[u]
    <3>1. NumbersOf(w, u)' = (counter[u] + 1 .. pending[u]) \cup {pending[u] + 1}
      BY DEF EmitRecipientEvent, Numbered, NumbersOf, Holds, TypeOK
    <3>2. pending'[u] = pending[u] + 1
      BY DEF EmitRecipientEvent, TypeOK
    <3>3. /\ counter[u] \in Nat /\ pending[u] \in Nat
          /\ counter[u] <= pending[u]
      BY DEF PendingAhead, TypeOK
    <3>4. (counter[u] + 1 .. pending[u]) \cup {pending[u] + 1} = counter[u] + 1 .. pending[u] + 1
      BY <3>3
    <3>. QED  BY <3>1, <3>2, <3>4, Zenon
  <2>2. \A x \in Writers, v \in Users :
          <<x, v>> # <<w, u>> => NumbersOf(x, v)' = NumbersOf(x, v)
    BY DEF EmitRecipientEvent, NumbersOf, TypeOK
  <2>3. \A v \in Users : v # u => pending'[v] = pending[v]
    BY DEF EmitRecipientEvent, TypeOK
  <2>. QED  BY <2>1, <2>2, <2>3 DEF EmitRecipientEvent, Numbered, Holds
<1>4. PendingAhead' /\ Gapless'
  BY WritersAssumption DEF EmitRecipientEvent, PendingAhead, Gapless, Holds, TypeOK
<1>. QED  BY <1>1, <1>2, <1>3, <1>4, OpenInv DEF EmitRecipientEvent

\* The rows of a transaction that is over are free, and its numbers forgotten.
LEMMA ReleaseFree ==
  ASSUME EventsInv, NEW w \in Writers, Release(w)
  PROVE  /\ holder' \in [Users -> Writers \cup {NoOne}]
         /\ recipients' \in [Writers -> SUBSET Users]
         /\ made' \in [Writers \X Users -> SUBSET Nat]
         /\ HoldersOpen'
         /\ \A u \in Users : holder'[u] = IF Holds(w, u) THEN NoOne ELSE holder[u]
         /\ \A x \in Writers, u \in Users :
              NumbersOf(x, u)' = IF x = w THEN {} ELSE NumbersOf(x, u)
<1>. USE DEF EventsInv, DbInv
<1>1. \A u \in Users : holder'[u] = IF Holds(w, u) THEN NoOne ELSE holder[u]
  BY DEF Release
<1>2. \A x \in Writers, u \in Users : NumbersOf(x, u)' = IF x = w THEN {} ELSE NumbersOf(x, u)
  BY DEF Release, NumbersOf
<1>3. HoldersOpen'
  BY <1>1, WritersAssumption DEF Release, HoldersOpen, Holds, TypeOK
<1>4. made' \in [Writers \X Users -> SUBSET Nat]
  BY DEF Release, TypeOK
<1>. QED  BY <1>1, <1>2, <1>3, <1>4 DEF Release, TypeOK

LEMMA CommitInv ==
  ASSUME EventsInv, NEW w \in Writers, Commit(w)
  PROVE  EventsInv'
<1>. USE DEF EventsInv, DbInv
<1>. DEFINE after(u) == IF Holds(w, u) THEN pending[u] ELSE counter[u]
<1>1. Release(w) /\ UNCHANGED <<pending, clientVars>>
  BY DEF Commit
<1>2. \A u \in Users : counter'[u] = after(u) /\ counter[u] <= after(u) /\ after(u) \in Nat
  BY DEF Commit, PendingAhead, TypeOK
<1>3. \A u \in Users : published'[u] = 1 .. counter'[u]
  <2>. SUFFICES ASSUME NEW u \in Users PROVE published'[u] = 1 .. counter'[u]
    OBVIOUS
  <2>1. published'[u] = published[u] \cup NumbersOf(w, u)
    BY DEF Commit
  <2>2. NumbersOf(w, u) = counter[u] + 1 .. after(u)
    <3>1. NumbersOf(w, u) = IF Holds(w, u) THEN counter[u] + 1 .. pending[u] ELSE {}
      BY DEF Numbered
    <3>2. counter[u] + 1 .. counter[u] = {}
      BY DEF TypeOK
    <3>. QED  BY <3>1, <3>2, Zenon
  <2>3. published[u] = 1 .. counter[u]
    BY DEF Gapless
  <2>. QED  BY <2>1, <2>2, <2>3, <1>2 DEF TypeOK
<1>4. TypeOK'
  <2>1. published' \in [Users -> SUBSET Nat] /\ counter' \in [Users -> Nat]
    BY DEF Commit, TypeOK, NumbersOf
  <2>. QED  BY <1>1, <2>1, ReleaseFree DEF TypeOK, clientVars
<1>5. HoldersOpen'
  BY <1>1, ReleaseFree
<1>6. Numbered'
  <2>. SUFFICES ASSUME NEW u \in Users, NEW x \in Writers
                PROVE  NumbersOf(x, u)' = IF holder'[u] = x THEN counter'[u] + 1 .. pending'[u] ELSE {}
    BY DEF Numbered, Holds
  <2>1. holder'[u] = IF Holds(w, u) THEN NoOne ELSE holder[u]
    BY <1>1, ReleaseFree
  <2>2. NumbersOf(x, u)' = IF x = w THEN {} ELSE NumbersOf(x, u)
    BY <1>1, ReleaseFree
  <2>3. NumbersOf(x, u) = IF Holds(x, u) THEN counter[u] + 1 .. pending[u] ELSE {}
    BY DEF Numbered
  <2>. QED  BY <2>1, <2>2, <2>3, <1>1, <1>2, WritersAssumption DEF Holds
<1>7. PendingAhead'
  BY <1>1, <1>2, ReleaseFree DEF PendingAhead, Holds, TypeOK
<1>8. Behind'
  <2>. SUFFICES ASSUME NEW u \in Users
                PROVE  /\ cursor[u] <= counter'[u]
                       /\ \E l \in cursor[u]..counter'[u] : page[u] = cursor[u] + 1 .. l
                       /\ snap[u].cursor <= counter'[u]
                       /\ snap[u].view = 1 .. snap[u].cursor
    BY <1>1 DEF Behind, clientVars
  <2>1. counter[u] <= counter'[u] /\ counter'[u] \in Nat
    BY <1>2
  <2>2. snap[u].cursor \in Nat /\ cursor[u] \in Nat /\ counter[u] \in Nat
    BY DEF TypeOK
  <2>. QED  BY <2>1, <2>2 DEF Behind
<1>9. NothingSkipped'
  BY <1>1 DEF NothingSkipped, clientVars
<1>. QED  BY <1>3, <1>4, <1>5, <1>6, <1>7, <1>8, <1>9 DEF Gapless

LEMMA RollbackInv ==
  ASSUME EventsInv, NEW w \in Writers, Rollback(w)
  PROVE  EventsInv'
<1>. USE DEF EventsInv, DbInv
<1>1. Release(w) /\ UNCHANGED <<counter, published, clientVars>>
  BY DEF Rollback
<1>2. \A u \in Users : pending'[u] = IF Holds(w, u) THEN counter[u] ELSE pending[u]
  BY DEF Rollback
<1>3. TypeOK'
  <2>1. pending' \in [Users -> Nat]
    BY DEF Rollback, TypeOK
  <2>. QED  BY <1>1, <2>1, ReleaseFree DEF TypeOK, clientVars
<1>4. HoldersOpen'
  BY <1>1, ReleaseFree
<1>5. Numbered'
  <2>. SUFFICES ASSUME NEW u \in Users, NEW x \in Writers
                PROVE  NumbersOf(x, u)' = IF holder'[u] = x THEN counter[u] + 1 .. pending'[u] ELSE {}
    BY <1>1 DEF Numbered, Holds
  <2>1. holder'[u] = IF Holds(w, u) THEN NoOne ELSE holder[u]
    BY <1>1, ReleaseFree
  <2>2. NumbersOf(x, u)' = IF x = w THEN {} ELSE NumbersOf(x, u)
    BY <1>1, ReleaseFree
  <2>3. NumbersOf(x, u) = IF Holds(x, u) THEN counter[u] + 1 .. pending[u] ELSE {}
    BY DEF Numbered
  <2>. QED  BY <2>1, <2>2, <2>3, <1>2, WritersAssumption DEF Holds
<1>6. PendingAhead' /\ Gapless'
  BY <1>1, <1>2, ReleaseFree DEF PendingAhead, Gapless, Holds, TypeOK
<1>. QED  BY <1>1, <1>3, <1>4, <1>5, <1>6, OpenInv

-----------------------------------------------------------------------------
(* Readers. *)

\* A reader changes nothing of the database's.
LEMMA ReadInv ==
  ASSUME EventsInv, TypeOK', UNCHANGED dbVars, Behind', NothingSkipped'
  PROVE  EventsInv'
<1>1. HoldersOpen' /\ Numbered' /\ PendingAhead' /\ Gapless'
  BY DEF EventsInv, DbInv, dbVars, HoldersOpen, Numbered, PendingAhead, Gapless, Holds, NumbersOf
<1>. QED  BY <1>1 DEF EventsInv, DbInv

\* Steps that only move a request on.
LEMMA MoveInv ==
  ASSUME EventsInv, TypeOK', UNCHANGED <<page, snap, cursor, knows, dbVars>>
  PROVE  EventsInv'
<1>1. Behind' /\ NothingSkipped'
  BY DEF EventsInv, Behind, NothingSkipped, dbVars
<1>. QED  BY <1>1, ReadInv

LEMMA WaitInv ==
  ASSUME EventsInv, NEW u \in Users,
         \/ AskEvents(u) \/ Wait(u) \/ PollTimesOut(u) \/ NotifyWaiters
  PROVE  EventsInv'
<1>1. TypeOK'
  BY DEF AskEvents, Wait, PollTimesOut, NotifyWaiters, EventsInv, DbInv, TypeOK, dbVars
<1>. QED  BY <1>1, MoveInv DEF AskEvents, Wait, PollTimesOut, NotifyWaiters

LEMMA GetInv ==
  ASSUME EventsInv, NEW u \in Users, GetEvents(u)
  PROVE  EventsInv'
<1>. USE DEF EventsInv, DbInv
<1>. DEFINE after == {n \in published[u] : n > cursor[u]}
<1>1. cursor[u] \in Nat /\ counter[u] \in Nat /\ cursor[u] <= counter[u]
  BY DEF TypeOK, Behind
<1>2. after = cursor[u] + 1 .. counter[u]
  BY <1>1 DEF Gapless
<1>3. \E l \in cursor[u]..counter[u] : FirstOf(after) = cursor[u] + 1 .. l
  BY <1>1, <1>2, FirstOfInterval
<1>4. page' = [page EXCEPT ![u] = FirstOf(after)]
  BY DEF GetEvents
<1>5. FirstOf(after) \subseteq Nat
  BY <1>1, <1>2 DEF FirstOf
<1>6. TypeOK'
  <2>1. page' \in [Users -> SUBSET Nat]
    BY <1>4, <1>5 DEF TypeOK
  <2>2. poll' \in [Users -> {"idle", "query", "empty", "wait", "answer", "snapshot"}]
    <3>1. PICK s \in {"answer", "empty"} : poll' = [poll EXCEPT ![u] = s]
      BY DEF GetEvents
    <3>. QED  BY <3>1 DEF TypeOK
  <2>. QED  BY <2>1, <2>2 DEF GetEvents, TypeOK, dbVars
<1>7. Behind'
  <2>1. \A v \in Users : page'[v] = IF v = u THEN FirstOf(after) ELSE page[v]
    BY <1>4 DEF TypeOK
  <2>2. UNCHANGED <<cursor, counter, snap>>
    BY DEF GetEvents, dbVars
  <2>. QED  BY <1>3, <2>1, <2>2 DEF Behind
<1>8. NothingSkipped' /\ UNCHANGED dbVars
  BY DEF GetEvents, NothingSkipped
<1>. QED  BY <1>6, <1>7, <1>8, ReadInv

\* A request that is over leaves no page and no snapshot behind.
LEMMA OverLeaves ==
  ASSUME EventsInv, NEW u \in Users, Over(u)
  PROVE  /\ poll' \in [Users -> {"idle", "query", "empty", "wait", "answer", "snapshot"}]
         /\ page' \in [Users -> SUBSET Nat]
         /\ late' \in [Users -> BOOLEAN]
         /\ snap' \in [Users -> [cursor : Nat, view : SUBSET Nat]]
         /\ \A v \in Users : page'[v] = IF v = u THEN {} ELSE page[v]
         /\ \A v \in Users : snap'[v] = IF v = u THEN NoSnapshot ELSE snap[v]
<1>1. NoSnapshot \in [cursor : Nat, view : SUBSET Nat]
  BY DEF NoSnapshot
<1>. QED  BY <1>1 DEF Over, EventsInv, DbInv, TypeOK

\* A cursor that stays within what is committed, and a client that knows what is
\* before it, keep the invariant when the request is over.
LEMMA OverInv ==
  ASSUME EventsInv, NEW u \in Users, Over(u), UNCHANGED dbVars,
         NEW c \in Nat, c <= counter[u], NEW K \in SUBSET Nat, K = 1 .. c,
         cursor' = [cursor EXCEPT ![u] = c], knows' = [knows EXCEPT ![u] = K]
  PROVE  EventsInv'
<1>. USE DEF EventsInv, DbInv
<1>1. cursor' \in [Users -> Nat] /\ knows' \in [Users -> SUBSET Nat]
  BY DEF TypeOK
<1>2. \A v \in Users : /\ cursor'[v] = IF v = u THEN c ELSE cursor[v]
                       /\ knows'[v] = IF v = u THEN K ELSE knows[v]
  BY DEF TypeOK
<1>3. TypeOK'
  BY <1>1, OverLeaves DEF TypeOK, dbVars
<1>4. Behind'
  <2>. SUFFICES ASSUME NEW v \in Users
                PROVE  /\ cursor'[v] <= counter[v]
                       /\ \E l \in cursor'[v]..counter[v] : page'[v] = cursor'[v] + 1 .. l
                       /\ snap'[v].cursor <= counter[v]
                       /\ snap'[v].view = 1 .. snap'[v].cursor
    BY DEF Behind, dbVars
  <2>1. CASE v # u
    BY <2>1, <1>2, OverLeaves DEF Behind
  <2>2. CASE v = u
    <3>1. cursor'[v] = c /\ page'[v] = {} /\ snap'[v] = NoSnapshot
      BY <2>2, <1>2, OverLeaves
    <3>2. {} = c + 1 .. c /\ c \in c .. counter[v]
      BY <2>2 DEF TypeOK
    <3>3. counter[v] \in Nat
      BY DEF TypeOK
    <3>. QED  BY <2>2, <3>1, <3>2, <3>3 DEF NoSnapshot
  <2>. QED  BY <2>1, <2>2
<1>5. NothingSkipped'
  BY <1>2 DEF NothingSkipped
<1>. QED  BY <1>3, <1>4, <1>5, ReadInv

LEMMA ReceiveInv ==
  ASSUME EventsInv, NEW u \in Users, Receive(u)
  PROVE  EventsInv'
<1>. USE DEF EventsInv, DbInv
<1>. DEFINE c == IF page[u] = {} THEN cursor[u] ELSE LastOf(page[u])
            K == knows[u] \cup page[u]
<1>1. cursor[u] \in Nat /\ counter[u] \in Nat /\ cursor[u] <= counter[u]
  BY DEF TypeOK, Behind
<1>2. knows[u] = 1 .. cursor[u]
  BY DEF NothingSkipped
<1>3. PICK l \in cursor[u]..counter[u] : page[u] = cursor[u] + 1 .. l
  BY DEF Behind
<1>4. c = l /\ K = 1 .. l
  <2>1. CASE l = cursor[u]
    BY <2>1, <1>1, <1>2, <1>3
  <2>2. CASE cursor[u] < l
    <3>1. LastOf(cursor[u] + 1 .. l) = l
      BY <2>2, <1>1, LastOfInterval
    <3>2. l \in page[u]
      BY <2>2, <1>1, <1>3
    <3>3. page[u] # {} /\ LastOf(page[u]) = l
      BY <3>1, <3>2, <1>3, Zenon
    <3>. QED  BY <3>3, <2>2, <1>1, <1>2, <1>3
  <2>. QED  BY <2>1, <2>2, <1>1
<1>5. l \in Nat /\ l <= counter[u] /\ K \in SUBSET Nat
  BY <1>1, <1>4
<1>6. cursor' = [cursor EXCEPT ![u] = l] /\ knows' = [knows EXCEPT ![u] = K]
  BY <1>4 DEF Receive
<1>7. Over(u) /\ UNCHANGED dbVars
  BY DEF Receive
<1>. QED  BY <1>4, <1>5, <1>6, <1>7, OverInv

LEMMA TakeInv ==
  ASSUME EventsInv, NEW u \in Users, TakeSnapshot(u)
  PROVE  EventsInv'
<1>1. snap[u].cursor \in Nat /\ snap[u].view \in SUBSET Nat
  BY DEF EventsInv, DbInv, TypeOK
<1>2. snap[u].cursor <= counter[u] /\ snap[u].view = 1 .. snap[u].cursor
  BY DEF EventsInv, Behind
<1>. QED  BY <1>1, <1>2, OverInv DEF TakeSnapshot

LEMMA LoseInv ==
  ASSUME EventsInv, NEW u \in Users, LosePoll(u)
  PROVE  EventsInv'
<1>1. /\ cursor[u] \in Nat /\ knows[u] \in SUBSET Nat
      /\ cursor' = [cursor EXCEPT ![u] = cursor[u]]
      /\ knows' = [knows EXCEPT ![u] = knows[u]]
  BY DEF LosePoll, EventsInv, DbInv, TypeOK
<1>2. cursor[u] <= counter[u] /\ knows[u] = 1 .. cursor[u]
  BY DEF EventsInv, Behind, NothingSkipped
<1>. QED  BY <1>1, <1>2, OverInv DEF LosePoll

LEMMA OpenSnapshotInv ==
  ASSUME EventsInv, NEW u \in Users, OpenSnapshot(u)
  PROVE  EventsInv'
<1>. USE DEF EventsInv, DbInv
<1>. DEFINE s == [cursor |-> counter[u], view |-> published[u]]
<1>1. s \in [cursor : Nat, view : SUBSET Nat]
  BY DEF TypeOK
<1>2. snap' = [snap EXCEPT ![u] = s]
  BY DEF OpenSnapshot
<1>3. TypeOK'
  BY <1>1 DEF OpenSnapshot, TypeOK, dbVars
<1>4. \A v \in Users : snap'[v] = IF v = u THEN s ELSE snap[v]
  BY <1>2 DEF TypeOK
<1>5. Behind'
  <2>1. s.cursor <= counter[u] /\ s.view = 1 .. s.cursor
    BY DEF Gapless, TypeOK
  <2>2. UNCHANGED <<cursor, counter, page>>
    BY DEF OpenSnapshot, dbVars
  <2>. QED  BY <1>4, <2>1, <2>2 DEF Behind
<1>6. NothingSkipped' /\ UNCHANGED dbVars
  BY DEF OpenSnapshot, NothingSkipped
<1>. QED  BY <1>3, <1>5, <1>6, ReadInv

-----------------------------------------------------------------------------
(* Every step. *)

LEMMA WriterStepInv ==
  ASSUME EventsInv, NEW w \in Writers, WriterStep(w)
  PROVE  EventsInv'
<1>1. CASE \E a, b \in Users : Begin(w, {a, b})
  <2>1. PICK a \in Users, b \in Users : Begin(w, {a, b})
    BY <1>1
  <2>2. {a, b} \in SUBSET Users
    OBVIOUS
  <2>. QED  BY <2>1, <2>2, BeginInv
<1>2. CASE \E u \in Users : LockCounter(w, u) \/ EmitRecipientEvent(w, u)
  BY <1>2, LockInv, EmitInv
<1>3. CASE Commit(w)
  BY <1>3, CommitInv
<1>4. CASE Rollback(w)
  BY <1>4, RollbackInv
<1>. QED  BY <1>1, <1>2, <1>3, <1>4 DEF WriterStep

LEMMA ReaderStepInv ==
  ASSUME EventsInv, NEW u \in Users, ReaderStep(u)
  PROVE  EventsInv'
<1>1. CASE AskEvents(u) \/ Wait(u) \/ PollTimesOut(u)
  BY <1>1, WaitInv
<1>2. CASE GetEvents(u)
  BY <1>2, GetInv
<1>3. CASE Receive(u)
  BY <1>3, ReceiveInv
<1>4. CASE LosePoll(u)
  BY <1>4, LoseInv
<1>5. CASE OpenSnapshot(u)
  BY <1>5, OpenSnapshotInv
<1>6. CASE TakeSnapshot(u)
  BY <1>6, TakeInv
<1>. QED  BY <1>1, <1>2, <1>3, <1>4, <1>5, <1>6 DEF ReaderStep

LEMMA NotifyInv ==
  ASSUME EventsInv, NotifyWaiters
  PROVE  EventsInv'
<1>1. TypeOK'
  BY DEF NotifyWaiters, EventsInv, DbInv, TypeOK, dbVars
<1>. QED  BY <1>1, MoveInv DEF NotifyWaiters

LEMMA NextInv == EventsInv /\ [Next]_vars => EventsInv'
<1>. SUFFICES ASSUME EventsInv, [Next]_vars PROVE EventsInv'
  OBVIOUS
<1>1. CASE \E w \in Writers : WriterStep(w)
  BY <1>1, WriterStepInv
<1>2. CASE \E u \in Clients : ReaderStep(u)
  BY <1>2, UsersAssumption, ReaderStepInv
<1>3. CASE NotifyWaiters
  BY <1>3, NotifyInv
<1>4. CASE UNCHANGED vars
  <2>1. TypeOK' /\ UNCHANGED <<page, snap, cursor, knows, dbVars>>
    BY <1>4 DEF vars, dbVars, clientVars, EventsInv, DbInv, TypeOK
  <2>. QED  BY <2>1, MoveInv
<1>. QED  BY <1>1, <1>2, <1>3, <1>4 DEF Next

LEMMA InvHolds == Spec => []EventsInv
BY InitInv, NextInv, PTL DEF Spec

\* Every variable of the stream and of its clients keeps to its domain.
THEOREM EventsTypeCorrect == Spec => []TypeOK
<1>1. EventsInv => TypeOK
  BY DEF EventsInv, DbInv
<1>. QED  BY <1>1, InvHolds, PTL

\* The committed events of every recipient are numbered without a gap
\* (emit_recipient_events), however transactions overlap and fail.
THEOREM GaplessCorrect == Spec => []Gapless
<1>1. EventsInv => Gapless
  BY DEF EventsInv, DbInv
<1>. QED  BY <1>1, InvHolds, PTL

\* No client ever passes over an event it has not been given (api_events,
\* get_ranked_snapshot), whatever pages it loses and wherever it starts again.
THEOREM NothingSkippedCorrect == Spec => []NothingSkipped
<1>1. EventsInv => NothingSkipped
  BY DEF EventsInv
<1>. QED  BY <1>1, InvHolds, PTL

-----------------------------------------------------------------------------
(* The stream keeps what EventLog promises. *)

\* The cursor of an open snapshot is not behind the client's: while the client
\* takes it, it asks for nothing else.
SnapshotAhead == \A u \in Users : poll[u] = "snapshot" => cursor[u] <= snap[u].cursor

LEMMA StepSnapshotAhead ==
  ASSUME EventsInv, SnapshotAhead, [Next]_vars
  PROVE  SnapshotAhead'
<1>. USE DEF SnapshotAhead, dbVars, clientVars
<1>0. /\ poll \in [Users -> {"idle", "query", "empty", "wait", "answer", "snapshot"}]
      /\ snap \in [Users -> [cursor : Nat, view : SUBSET Nat]]
      /\ cursor \in [Users -> Nat] /\ counter \in [Users -> Nat]
      /\ \A u \in Users : cursor[u] <= counter[u]
  BY DEF EventsInv, DbInv, TypeOK, Behind
<1>1. CASE UNCHANGED clientVars
  BY <1>1
<1>2. ASSUME NEW w \in Writers, WriterStep(w)  PROVE UNCHANGED clientVars
  BY <1>2 DEF WriterStep, Begin, LockCounter, EmitRecipientEvent, Commit, Rollback
<1>3. ASSUME NEW u \in Users, AskEvents(u) \/ GetEvents(u) \/ Wait(u) \/ PollTimesOut(u)
      PROVE  SnapshotAhead'
  BY <1>0, <1>3 DEF AskEvents, GetEvents, Wait, PollTimesOut
<1>4. ASSUME NEW u \in Users, Receive(u) \/ LosePoll(u) \/ TakeSnapshot(u)
      PROVE  SnapshotAhead'
  <2>1. /\ poll' = [poll EXCEPT ![u] = "idle"]
        /\ snap' = [snap EXCEPT ![u] = NoSnapshot]
        /\ \A v \in Users : v # u => cursor'[v] = cursor[v]
    BY <1>0, <1>4 DEF Receive, LosePoll, TakeSnapshot, Over
  <2>. QED  BY <1>0, <2>1
<1>5. ASSUME NEW u \in Users, OpenSnapshot(u)  PROVE SnapshotAhead'
  BY <1>0, <1>5 DEF OpenSnapshot
<1>6. CASE NotifyWaiters
  BY <1>0, <1>6 DEF NotifyWaiters
<1>7. CASE UNCHANGED vars
  BY <1>7 DEF vars
<1>. HIDE DEF SnapshotAhead
<1>. QED  BY <1>1, <1>2, <1>3, <1>4, <1>5, <1>6, <1>7, UsersAssumption DEF Next, ReaderStep

LEMMA Beginnings == \A n \in Nat : Log!IsBeginning(1 .. n)
BY DEF Log!IsBeginning

\* A client that reads on, from a page or from a snapshot.
LEMMA FollowStep ==
  ASSUME EventsInv, EventsInv', UNCHANGED dbVars, NEW u \in Users, cursor[u] <= cursor'[u],
         knows' = [knows EXCEPT ![u] = knows'[u]]
  PROVE  Log!Follow(u)
<1>1. /\ cursor[u] \in Nat /\ cursor'[u] \in Nat /\ counter[u] \in Nat /\ cursor'[u] <= counter[u]
      /\ knows[u] = 1 .. cursor[u] /\ knows'[u] = 1 .. cursor'[u]
      /\ published[u] = 1 .. counter[u]
  BY DEF EventsInv, DbInv, TypeOK, Behind, NothingSkipped, Gapless, dbVars
<1>2. knows[u] \subseteq knows'[u] /\ knows'[u] \subseteq published[u]
  BY <1>1
<1>3. Log!IsBeginning(knows'[u])
  BY <1>1, Beginnings
<1>. QED  BY <1>2, <1>3 DEF Log!Follow, dbVars

LEMMA StepLog ==
  ASSUME EventsInv, EventsInv', SnapshotAhead, [Next]_vars
  PROVE  [Log!Next]_<<published, knows>>
<1>0. /\ cursor \in [Users -> Nat] /\ knows \in [Users -> SUBSET Nat]
      /\ snap \in [Users -> [cursor : Nat, view : SUBSET Nat]]
  BY DEF EventsInv, DbInv, TypeOK
<1>1. ASSUME NEW w \in Writers, Commit(w)  PROVE Log!Publish
  <2>1. \A u \in Users : published[u] \subseteq published'[u]
    BY <1>1 DEF Commit, EventsInv, DbInv, TypeOK
  <2>2. published' \in [Users -> SUBSET Nat] /\ \A u \in Users : Log!IsBeginning(published'[u])
    BY Beginnings DEF EventsInv, DbInv, TypeOK, Gapless
  <2>. QED  BY <1>1, <2>1, <2>2 DEF Log!Publish, Commit, clientVars
<1>2. ASSUME NEW u \in Users, Receive(u)  PROVE Log!Follow(u)
  <2>1. UNCHANGED dbVars /\ knows' = [knows EXCEPT ![u] = knows'[u]]
    BY <1>0, <1>2 DEF Receive
  <2>2. cursor[u] <= cursor'[u]
    <3>1. PICK l \in cursor[u] .. counter[u] : page[u] = cursor[u] + 1 .. l
      BY DEF EventsInv, Behind
    <3>2. cursor'[u] = IF page[u] = {} THEN cursor[u] ELSE LastOf(page[u])
      BY <1>0, <1>2 DEF Receive
    <3>3. cursor[u] \in Nat /\ counter[u] \in Nat /\ l \in Nat
      BY <1>0 DEF EventsInv, DbInv, TypeOK
    <3>4. CASE page[u] = {}
      BY <3>2, <3>3, <3>4
    <3>5. CASE page[u] # {}
      BY <3>1, <3>2, <3>3, <3>5, LastOfInterval
    <3>. QED  BY <3>4, <3>5
  <2>. QED  BY <2>1, <2>2, FollowStep
<1>3. ASSUME NEW u \in Users, TakeSnapshot(u)  PROVE Log!Follow(u)
  <2>1. UNCHANGED dbVars /\ knows' = [knows EXCEPT ![u] = knows'[u]] /\ cursor[u] <= cursor'[u]
    BY <1>0, <1>3 DEF TakeSnapshot, SnapshotAhead
  <2>. QED  BY <2>1, FollowStep
<1>4. ASSUME NEW w \in Writers, WriterStep(w), ~Commit(w)  PROVE UNCHANGED <<published, knows>>
  BY <1>4 DEF WriterStep, Begin, LockCounter, EmitRecipientEvent, Rollback, clientVars
<1>5. ASSUME NEW u \in Users, ReaderStep(u), ~Receive(u), ~TakeSnapshot(u)
      PROVE  UNCHANGED <<published, knows>>
  BY <1>5 DEF ReaderStep, AskEvents, GetEvents, Wait, PollTimesOut, LosePoll, OpenSnapshot, dbVars
<1>6. CASE NotifyWaiters \/ UNCHANGED vars
  BY <1>6 DEF NotifyWaiters, vars, dbVars, clientVars
<1>. QED  BY <1>1, <1>2, <1>3, <1>4, <1>5, <1>6, UsersAssumption DEF Next, Log!Next

\* The stream and its clients implement the log of EventLog: whatever
\* transactions overlap and fail, and whatever answers clients lose, logs grow at
\* their ends only and no client has to take back what it knows.
THEOREM KeepsLogCorrect == Spec => KeepsLog
<1>1. Init => EventsInv /\ SnapshotAhead /\ Log!Init
  BY InitInv DEF Init, SnapshotAhead, Log!Init
<1>2. EventsInv /\ SnapshotAhead /\ [Next]_vars => (EventsInv /\ SnapshotAhead)'
  BY NextInv, StepSnapshotAhead
<1>3. EventsInv /\ EventsInv' /\ SnapshotAhead /\ [Next]_vars => [Log!Next]_<<published, knows>>
  BY StepLog
<1>. QED  BY <1>1, <1>2, <1>3, PTL DEF Spec, KeepsLog, Log!Spec

-----------------------------------------------------------------------------
(* Transactions do not block each other. *)

\* Whoever holds a row holds all he needs of those before it.
InOrder ==
  \A w \in Writers : \A u \in Users :
    Holds(w, u) => \A v \in recipients[w] : v < u => Holds(w, v)

LEMMA ReleaseInOrder ==
  ASSUME TypeOK, InOrder, NEW w \in Writers, Release(w)
  PROVE  InOrder'
<1>. SUFFICES ASSUME NEW x \in Writers, NEW u \in Users, Holds(x, u)',
                     NEW v \in recipients'[x], v < u
              PROVE  Holds(x, v)'
  BY DEF InOrder
<1>1. holder'[u] = IF holder[u] = w THEN NoOne ELSE holder[u]
  BY DEF Release, Holds
<1>2. x # w /\ holder[u] = x
  BY <1>1, WritersAssumption DEF Holds
<1>3. recipients'[x] = recipients[x] /\ v \in Users
  BY <1>2 DEF Release, TypeOK
<1>4. holder[v] = x
  BY <1>2, <1>3 DEF InOrder, Holds
<1>. QED  BY <1>2, <1>3, <1>4 DEF Release, Holds

LEMMA StepInOrder ==
  ASSUME EventsInv, InOrder, [Next]_vars
  PROVE  InOrder'
<1>. USE DEF EventsInv, DbInv
<1>1. ASSUME NEW w \in Writers, NEW to \in SUBSET Users, Begin(w, to)
      PROVE  InOrder'
  <2>1. \A u \in Users : ~Holds(w, u)
    BY <1>1 DEF Begin, HoldersOpen
  <2>. QED  BY <1>1, <2>1 DEF Begin, InOrder, Holds, TypeOK
<1>2. ASSUME NEW w \in Writers, NEW u \in Users, LockCounter(w, u)
      PROVE  InOrder'
  <2>. SUFFICES ASSUME NEW x \in Writers, NEW t \in Users, Holds(x, t)',
                       NEW v \in recipients[x], v < t
                PROVE  Holds(x, v)'
    BY <1>2 DEF LockCounter, InOrder
  <2>1. \A y \in Users : holder'[y] = IF y = u THEN w ELSE holder[y]
    BY <1>2 DEF LockCounter, TypeOK
  <2>2. v \in Users /\ Holds(x, v)
    BY <1>2, <2>1 DEF LockCounter, InOrder, Holds, TypeOK
  <2>3. v # u
    BY <1>2, <2>2, WritersAssumption DEF LockCounter, Holds
  <2>. QED  BY <2>1, <2>2, <2>3 DEF Holds
<1>3. ASSUME NEW w \in Writers, Commit(w) \/ Rollback(w)
      PROVE  InOrder'
  BY <1>3, ReleaseInOrder DEF Commit, Rollback
<1>4. ASSUME UNCHANGED <<holder, recipients>>
      PROVE  InOrder'
  BY <1>4 DEF InOrder, Holds
<1>5. ASSUME NEW w \in Writers, NEW u \in Users, EmitRecipientEvent(w, u)
      PROVE  UNCHANGED <<holder, recipients>>
  BY <1>5 DEF EmitRecipientEvent
<1>6. ASSUME NEW u \in Users, ReaderStep(u)
      PROVE  UNCHANGED <<holder, recipients>>
  BY <1>6 DEF ReaderStep, AskEvents, GetEvents, Wait, PollTimesOut, Receive, LosePoll,
              OpenSnapshot, TakeSnapshot, dbVars
<1>7. CASE NotifyWaiters \/ UNCHANGED vars
  BY <1>4, <1>7 DEF NotifyWaiters, vars, dbVars
<1>8. ASSUME NEW w \in Writers, WriterStep(w)
      PROVE  InOrder'
  BY <1>1, <1>2, <1>3, <1>4, <1>5, <1>8 DEF WriterStep
<1>. QED  BY <1>4, <1>6, <1>7, <1>8, UsersAssumption DEF Next

\* Of a set of recipients one comes last.
LEMMA LastRecipient ==
  ASSUME NEW S \in SUBSET Users, S # {}
  PROVE  \E u \in S : \A t \in S : ~(u < t)
<1>. DEFINE Beyond(u) == {t \in Users : u < t}
            T == {Beyond(u) : u \in S}
            R == StrictSubsetOrdering(Users)
<1>1. \A u \in S : Beyond(u) \in FiniteSubsetsOf(Users)
  BY UsersAssumption, FS_Subset DEF FiniteSubsetsOf
<1>2. PICK X \in T : \A Y \in T : <<Y, X>> \notin R
  <2>1. T \subseteq FiniteSubsetsOf(Users) /\ T # {}
    BY <1>1
  <2>2. IsWellFoundedOn(R, FiniteSubsetsOf(Users))
    BY FS_StrictSubsetOrderingWellFounded
  <2>. HIDE DEF T, R
  <2>. QED  BY <2>1, <2>2, WFMin
<1>3. PICK u \in S : X = Beyond(u)
  BY <1>2
<1>4. ASSUME NEW t \in S, u < t
      PROVE  FALSE
  <2>0. t \in Users /\ u \in Users /\ t \in Nat /\ u \in Nat
    BY UsersAssumption
  <2>1. Beyond(t) \subseteq Beyond(u) /\ t \in Beyond(u) /\ t \notin Beyond(t)
    <3>1. \A r \in Users : t < r => u < r
      BY <1>4, <2>0, UsersAssumption
    <3>2. ~(t < t)
      BY <2>0
    <3>. QED  BY <1>4, <2>0, <3>1, <3>2
  <2>2. <<Beyond(t), Beyond(u)>> \in R
    BY <2>1 DEF StrictSubsetOrdering
  <2>. QED  BY <1>2, <1>3, <2>2
<1>. QED  BY <1>4

\* The row the last of them waits for is held by one who waits for nothing.
LEMMA OrderGoesOn ==
  ASSUME EventsInv, InOrder
  PROVE  SomeoneGoesOn
<1>. DEFINE Blocked(w) == \E u \in Users : NextRow(w, u) /\ holder[u] # NoOne
            Awaited == {u \in Users : \E w \in Writers : NextRow(w, u) /\ holder[u] # NoOne}
<1>. SUFFICES ASSUME NEW w0 \in Writers, recipients[w0] # {},
                     \A w \in Writers : recipients[w] # {} => Blocked(w)
              PROVE  FALSE
  BY DEF SomeoneGoesOn
<1>1. PICK u \in Awaited : \A t \in Awaited : ~(u < t)
  BY LastRecipient
<1>2. PICK w \in Writers : NextRow(w, u) /\ holder[u] # NoOne
  BY <1>1
<1>3. PICK v \in Writers : Holds(v, u)
  BY <1>1, <1>2 DEF EventsInv, DbInv, TypeOK, Holds
<1>4. u \in Users /\ u \in recipients[v]
  BY <1>1, <1>3 DEF EventsInv, DbInv, HoldersOpen
<1>5. PICK t \in Users : NextRow(v, t) /\ holder[t] # NoOne
  BY <1>4
<1>6. t # u /\ ~(t < u)
  BY <1>3, <1>4, <1>5 DEF NextRow, InOrder
<1>7. u < t /\ t \in Awaited
  BY <1>4, <1>5, <1>6, UsersAssumption
<1>. QED  BY <1>1, <1>7

\* For any number of transactions and recipients, overlapping transactions never
\* block each other: one of those that are open can always go on.
THEOREM SomeoneGoesOnCorrect == Spec => []SomeoneGoesOn
<1>1. Init => EventsInv /\ InOrder
  BY InitInv, WritersAssumption DEF Init, InOrder, Holds
<1>2. EventsInv /\ InOrder /\ [Next]_vars => (EventsInv /\ InOrder)'
  BY NextInv, StepInOrder
<1>3. EventsInv /\ InOrder => SomeoneGoesOn
  BY OrderGoesOn
<1>. QED  BY <1>1, <1>2, <1>3, PTL DEF Spec

=============================================================================
