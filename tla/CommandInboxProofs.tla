------------------------- MODULE CommandInboxProofs -------------------------
(***************************************************************************)
(* What holds of the inbox for every number of callers, drainers, streams  *)
(* and calls, and that it implements the ledger.                           *)
(***************************************************************************)
EXTENDS CommandInbox, TLAPS

Here(k) == inbox[k] # NoRow

\* Who is in a transaction holds its locks.
Holds ==
  /\ \A c \in Callers :
       /\ caller[c].at \in {"owning", "deciding", "committing"} => keyLock[caller[c].key] = c
       /\ caller[c].at \in {"deciding", "committing"} => ownerLock[Owner[caller[c].payload]] = c
  /\ \A d \in Drainers :
       /\ drainer[d].at # "idle" => drainer[d].stream \in Owners
       /\ drainer[d].at = "claimed" => ownerLock[drainer[d].stream] = d

\* The numbers of a stream are below its counter and differ; who is about to
\* commit under its locks has the counter's value, and finds no row.
Numbered ==
  /\ \A k \in Keys : Here(k) => inbox[k].seq < next[StreamOf(k)]
  /\ \A k, l \in Keys : /\ Here(k) /\ Here(l) /\ k # l /\ StreamOf(k) = StreamOf(l)
                        => inbox[k].seq # inbox[l].seq
  /\ \A c \in Callers : caller[c].at = "committing" =>
       ~Here(caller[c].key) /\ caller[c].seq = next[Owner[caller[c].payload]]

\* A receipt is one call's, and of one row.
Receipted ==
  /\ \A k \in Keys : inbox[k].receipt <= calls
  /\ \A c \in Callers : caller[c].receipt <= calls
  /\ \A k, l \in Keys : Here(k) /\ k # l => inbox[k].receipt # inbox[l].receipt
  /\ \A b, c \in Callers : caller[c] # NoCall /\ b # c => caller[b].receipt # caller[c].receipt
  /\ \A c \in Callers, k \in Keys :
       caller[c] # NoCall /\ caller[c].at # "answering" => inbox[k].receipt # caller[c].receipt

\* An answer on its way is the row's.
Answered ==
  \A c \in Callers : caller[c].at = "answering" =>
    /\ Here(caller[c].key)
    /\ caller[c].answer = Replay(caller[c].key, caller[c].payload)

InboxInv == TypeOK /\ Holds /\ Numbered /\ Receipted /\ Answered /\ StreamsInOrder

-----------------------------------------------------------------------------
(* Calls and locks. *)

\* What InboxInv says of one call.
CallHolds(c) ==
  /\ caller[c].at \in {"owning", "deciding", "committing"} => keyLock[caller[c].key] = c
  /\ caller[c].at \in {"deciding", "committing"} => ownerLock[Owner[caller[c].payload]] = c

CallNumbered(c) ==
  caller[c].at = "committing" =>
    ~Here(caller[c].key) /\ caller[c].seq = next[Owner[caller[c].payload]]

CallReceipted(c) ==
  /\ caller[c].receipt <= calls
  /\ caller[c] # NoCall => \A b \in Callers : b # c => caller[b].receipt # caller[c].receipt
  /\ caller[c] # NoCall /\ caller[c].at # "answering" =>
       \A k \in Keys : inbox[k].receipt # caller[c].receipt

CallAnswered(c) ==
  caller[c].at = "answering" =>
    Here(caller[c].key) /\ caller[c].answer = Replay(caller[c].key, caller[c].payload)

CallOK(c) == CallHolds(c) /\ CallNumbered(c) /\ CallReceipted(c) /\ CallAnswered(c)

LEMMA CallFields ==
  ASSUME TypeOK, NEW c \in Callers
  PROVE  /\ caller[c] \in Calls \/ caller[c] = NoCall
         /\ caller[c].at \in CallStages => caller[c] \in Calls /\ caller[c] # NoCall
         /\ caller[c] # NoCall => caller[c] \in Calls
         /\ caller[c].receipt \in Nat
         /\ caller[c] \in Calls => caller[c].receipt > 0
BY MaxCallsAssumption DEF TypeOK, Calls, NoCall, CallStages

LEMMA CallOKFact ==
  ASSUME InboxInv, NEW c \in Callers
  PROVE  CallOK(c)
BY DEF InboxInv, Holds, Numbered, Receipted, Answered,
       CallOK, CallHolds, CallNumbered, CallReceipted, CallAnswered

\* One call moves on.
LEMMA Moves ==
  ASSUME TypeOK, NEW c \in Callers, NEW new \in Calls \cup {NoCall},
         caller' = [caller EXCEPT ![c] = new]
  PROVE  /\ caller' \in [Callers -> Calls \cup {NoCall}]
         /\ caller'[c] = new
         /\ \A e \in Callers : e # c => caller'[e] = caller[e]
BY DEF TypeOK

LEMMA EndTxFact ==
  ASSUME TypeOK, NEW who \in Callers \cup Drainers, EndTx(who)
  PROVE  /\ keyLock' \in [Keys -> Callers \cup {Nobody}]
         /\ ownerLock' \in [Owners -> Callers \cup Drainers \cup {Nobody}]
         /\ \A k \in Keys : keyLock[k] # who => keyLock'[k] = keyLock[k]
         /\ \A o \in Owners : ownerLock[o] # who => ownerLock'[o] = ownerLock[o]
BY DEF TypeOK, EndTx, Released

LEMMA Apart == Callers \cap Drainers = {} /\ Nobody \notin Callers \cup Drainers
BY NoneAssumption DEF Drainers

\* A step of one call that writes no row keeps the invariant of everything else.
LEMMA CallStep ==
  ASSUME InboxInv, TypeOK', NEW c \in Callers, UNCHANGED <<inbox, next, drainer>>,
         calls' = calls \/ calls' = calls + 1,
         \A e \in Callers : e # c => caller'[e] = caller[e],
         \A k \in Keys : keyLock[k] \notin {c, Nobody} => keyLock'[k] = keyLock[k],
         \A o \in Owners : ownerLock[o] \notin {c, Nobody} => ownerLock'[o] = ownerLock[o],
         CallOK(c)'
  PROVE  InboxInv'
<1>. USE DEF InboxInv
<1>1. ASSUME NEW e \in Callers PROVE CallHolds(e)' /\ CallNumbered(e)' /\ CallAnswered(e)'
  <2>1. CASE e = c
    BY <2>1 DEF CallOK
  <2>2. CASE e # c
    <3>1. caller'[e] = caller[e] /\ CallOK(e)
      BY <2>2, CallOKFact
    <3>2. caller[e].at \in CallStages =>
            caller[e].key \in Keys /\ Owner[caller[e].payload] \in Owners
      BY CallFields, OwnersAssumption DEF Calls
    <3>3. CallHolds(e)'
      BY <2>2, <3>1, <3>2, Apart DEF CallOK, CallHolds, CallStages
    <3>. QED  BY <3>1, <3>3 DEF CallOK, CallNumbered, CallAnswered, Here, Replay
  <2>. QED  BY <2>1, <2>2
<1>2. Holds'
  <2>1. ASSUME NEW d \in Drainers, drainer[d].at = "claimed"
        PROVE  ownerLock'[drainer[d].stream] = d
    BY <2>1, Apart DEF Holds
  <2>. QED  BY <1>1, <2>1 DEF Holds, CallHolds
<1>3. Numbered'
  BY <1>1 DEF Numbered, CallNumbered, Here, StreamOf
<1>4. Receipted'
  <2>1. \A k \in Keys : inbox[k].receipt \in Nat
    BY MaxCallsAssumption DEF TypeOK, Rows, NoRow
  <2>2. calls \in Nat /\ calls <= calls'
    BY MaxCallsAssumption DEF TypeOK
  <2>3. (\A k \in Keys : inbox[k].receipt <= calls)'
    BY <2>1, <2>2 DEF Receipted
  <2>4. ASSUME NEW e \in Callers
        PROVE  /\ caller[e].receipt \in Nat /\ caller'[e].receipt \in Nat
               /\ caller'[e] # NoCall => caller'[e].receipt > 0
    <3>1. caller'[e] \in Calls \cup {NoCall}
      BY DEF TypeOK
    <3>. QED  BY <3>1, CallFields, MaxCallsAssumption DEF Calls, NoCall
  <2>5. (\A e \in Callers : caller[e].receipt <= calls)'
    BY <2>2, <2>4 DEF Receipted, CallOK, CallReceipted
  <2>6. ASSUME NEW b \in Callers, NEW e \in Callers, caller'[e] # NoCall, b # e
        PROVE  caller'[b].receipt # caller'[e].receipt
    <3>1. CASE e = c
      BY <2>6, <3>1 DEF CallOK, CallReceipted
    <3>2. CASE b = c
      <4>1. CASE caller'[c] # NoCall
        BY <2>6, <3>2, <4>1 DEF CallOK, CallReceipted
      <4>2. CASE caller'[c] = NoCall
        <5>1. caller'[c].receipt = 0
          BY <4>2 DEF NoCall
        <5>2. caller'[e].receipt > 0
          BY <2>4, <2>6
        <5>. QED  BY <3>2, <5>1, <5>2
      <4>. QED  BY <4>1, <4>2
    <3>3. CASE e # c /\ b # c
      BY <2>6, <3>3 DEF Receipted
    <3>. QED  BY <3>1, <3>2, <3>3
  <2>7. ASSUME NEW e \in Callers, NEW k \in Keys, caller'[e] # NoCall, caller'[e].at # "answering"
        PROVE  inbox'[k].receipt # caller'[e].receipt
    BY <2>7 DEF Receipted, CallOK, CallReceipted
  <2>8. (\A k, l \in Keys : Here(k) /\ k # l => inbox[k].receipt # inbox[l].receipt)'
    BY DEF Receipted, Here
  <2>. QED  BY <2>3, <2>5, <2>6, <2>7, <2>8 DEF Receipted
<1>5. Answered'
  BY <1>1 DEF Answered, CallAnswered
<1>6. StreamsInOrder'
  BY DEF StreamsInOrder, StreamOf
<1>. QED  BY <1>2, <1>3, <1>4, <1>5, <1>6


-----------------------------------------------------------------------------
(* The steps of a call that write no row. *)

\* A call that ends gives up its locks.
LEMMA EndsStep ==
  ASSUME InboxInv, NEW c \in Callers, caller' = [caller EXCEPT ![c] = NoCall],
         UNCHANGED <<inbox, next, drainer, calls>>, told' \subseteq [key : Keys, payload : Payloads,
                                                                     answer : 0 .. MaxCalls],
         EndTx(c) \/ UNCHANGED <<keyLock, ownerLock>>
  PROVE  InboxInv'
<1>1. /\ caller' \in [Callers -> Calls \cup {NoCall}] /\ caller'[c] = NoCall
      /\ \A e \in Callers : e # c => caller'[e] = caller[e]
  BY Moves DEF InboxInv
<1>2. TypeOK'
  BY <1>1, EndTxFact DEF InboxInv, TypeOK
<1>3. CallOK(c)'
  BY <1>1 DEF CallOK, CallHolds, CallNumbered, CallReceipted, CallAnswered, NoCall, InboxInv, TypeOK
<1>. QED  BY <1>1, <1>2, <1>3, EndTxFact, CallStep DEF InboxInv

\* A call that moves on with what it asks and its receipt.
LEMMA GoesOn ==
  ASSUME InboxInv, NEW c \in Callers, NEW new \in Calls, caller' = [caller EXCEPT ![c] = new],
         caller[c] \in Calls, caller[c].at # "answering",
         new.key = caller[c].key, new.payload = caller[c].payload, new.receipt = caller[c].receipt,
         UNCHANGED <<inbox, next, drainer, told, calls>>,
         keyLock' \in [Keys -> Callers \cup {Nobody}],
         ownerLock' \in [Owners -> Callers \cup Drainers \cup {Nobody}],
         \A k \in Keys : keyLock[k] \notin {c, Nobody} => keyLock'[k] = keyLock[k],
         \A o \in Owners : ownerLock[o] \notin {c, Nobody} => ownerLock'[o] = ownerLock[o],
         CallHolds(c)', CallNumbered(c)', CallAnswered(c)'
  PROVE  InboxInv'
<1>1. /\ caller' \in [Callers -> Calls \cup {NoCall}] /\ caller'[c] = new
      /\ \A e \in Callers : e # c => caller'[e] = caller[e]
  BY Moves DEF InboxInv
<1>2. TypeOK'
  BY <1>1 DEF InboxInv, TypeOK
<1>3. caller[c] # NoCall
  BY DEF Calls, NoCall, CallStages
<1>4. CallReceipted(c)'
  BY <1>1, <1>3, CallOKFact DEF CallOK, CallReceipted
<1>. QED  BY <1>1, <1>2, <1>4, CallStep DEF CallOK

LEMMA DispatchStep ==
  ASSUME InboxInv, NEW c \in Callers, NEW k \in Keys, NEW p \in Payloads, Dispatch(c, k, p)
  PROVE  InboxInv'
<1>. DEFINE new == [at |-> "fresh", key |-> k, payload |-> p, receipt |-> calls + 1, seq |-> 0,
                    answer |-> 0]
<1>1. calls \in Nat /\ calls < MaxCalls /\ MaxCalls \in Nat
  BY MaxCallsAssumption DEF Dispatch, InboxInv, TypeOK
<1>2. new \in Calls
  BY <1>1 DEF Calls, CallStages
<1>3. /\ caller' = [caller EXCEPT ![c] = new] /\ calls' = calls + 1
      /\ UNCHANGED <<inbox, next, keyLock, ownerLock, drainer, told>>
  BY DEF Dispatch
<1>4. new.at = "fresh" /\ new.receipt = calls + 1
  OBVIOUS
<1>. HIDE DEF new
<1>5. /\ caller' \in [Callers -> Calls \cup {NoCall}] /\ caller'[c] = new
      /\ \A e \in Callers : e # c => caller'[e] = caller[e]
  BY <1>2, <1>3, Moves DEF InboxInv
<1>6. TypeOK'
  BY <1>1, <1>3, <1>5 DEF InboxInv, TypeOK
<1>7. CallHolds(c)' /\ CallNumbered(c)' /\ CallAnswered(c)'
  BY <1>4, <1>5 DEF CallHolds, CallNumbered, CallAnswered
<1>8. CallReceipted(c)'
  <2>1. \A b \in Callers : caller[b].receipt \in Nat /\ caller[b].receipt <= calls
    BY CallFields DEF InboxInv, Receipted
  <2>2. \A l \in Keys : inbox[l].receipt \in Nat /\ inbox[l].receipt <= calls
    BY MaxCallsAssumption DEF InboxInv, Receipted, TypeOK, Rows, NoRow
  <2>. QED  BY <1>1, <1>3, <1>4, <1>5, <2>1, <2>2 DEF CallReceipted
<1>. QED  BY <1>3, <1>5, <1>6, <1>7, <1>8, CallStep DEF CallOK

\* What a call that moves on keeps.
Kept(new, c) ==
  /\ new \in Calls /\ caller[c] \in Calls
  /\ new.key = caller[c].key /\ new.payload = caller[c].payload
  /\ new.receipt = caller[c].receipt

LEMMA MovedType ==
  ASSUME TypeOK, NEW c \in Callers, caller[c].at \in CallStages, NEW at \in CallStages
  PROVE  Kept([caller[c] EXCEPT !.at = at], c) /\ [caller[c] EXCEPT !.at = at].at = at
BY CallFields DEF Calls, Kept

LEMMA AnsweringType ==
  ASSUME TypeOK, NEW c \in Callers, caller[c].at \in CallStages, NEW answer \in 0 .. MaxCalls
  PROVE  LET new == [caller[c] EXCEPT !.at = "answering", !.answer = answer]
         IN  Kept(new, c) /\ new.at = "answering" /\ new.answer = answer
BY CallFields DEF Calls, Kept, CallStages

LEMMA CommittingType ==
  ASSUME TypeOK, NEW c \in Callers, caller[c].at \in CallStages, NEW seq \in Nat
  PROVE  LET new == [caller[c] EXCEPT !.at = "committing", !.seq = seq]
         IN  Kept(new, c) /\ new.at = "committing" /\ new.seq = seq
BY CallFields DEF Calls, Kept, CallStages

LEMMA ReplayType ==
  ASSUME TypeOK, NEW k \in Keys, NEW p
  PROVE  Replay(k, p) \in 0 .. MaxCalls
<1>1. inbox[k] \in Rows \cup {NoRow}
  BY DEF TypeOK
<1>. QED  BY <1>1, MaxCallsAssumption DEF Replay, Conflict, Rows, NoRow

\* The two looks for a row.
LEMMA ReplayStep ==
  ASSUME InboxInv, NEW c \in Callers, caller[c].at \in {"fresh", "deciding"},
         Here(caller[c].key),
         caller' = Answering(c, Replay(caller[c].key, caller[c].payload)),
         UNCHANGED <<inbox, next, drainer, told, calls>>,
         EndTx(c) \/ UNCHANGED <<keyLock, ownerLock>>
  PROVE  InboxInv'
<1>. DEFINE answer == Replay(caller[c].key, caller[c].payload)
            new == [caller[c] EXCEPT !.at = "answering", !.answer = answer]
<1>1. caller[c].at \in CallStages /\ caller[c].at # "answering" /\ "answering" \in CallStages
  BY DEF CallStages
<1>2. caller[c].key \in Keys /\ answer \in 0 .. MaxCalls
  BY <1>1, CallFields, ReplayType DEF InboxInv, Calls
<1>3. caller' = [caller EXCEPT ![c] = new]
  BY DEF Answering
<1>4. /\ new \in Calls /\ caller[c] \in Calls /\ new.at = "answering" /\ new.key = caller[c].key
      /\ new.payload = caller[c].payload /\ new.receipt = caller[c].receipt /\ new.answer = answer
  BY <1>1, <1>2, AnsweringType DEF InboxInv, Kept
<1>. HIDE DEF new
<1>5. caller'[c] = new
  BY <1>3, <1>4, Moves DEF InboxInv
<1>6. CallHolds(c)' /\ CallNumbered(c)'
  BY <1>4, <1>5 DEF CallHolds, CallNumbered
<1>7. CallAnswered(c)'
  BY <1>4, <1>5 DEF CallAnswered, Here, Replay
<1>8. /\ keyLock' \in [Keys -> Callers \cup {Nobody}]
      /\ ownerLock' \in [Owners -> Callers \cup Drainers \cup {Nobody}]
      /\ \A k \in Keys : keyLock[k] \notin {c, Nobody} => keyLock'[k] = keyLock[k]
      /\ \A o \in Owners : ownerLock[o] \notin {c, Nobody} => ownerLock'[o] = ownerLock[o]
  BY EndTxFact DEF InboxInv, TypeOK
<1>. QED  BY <1>1, <1>3, <1>4, <1>6, <1>7, <1>8, GoesOn

LEMMA LookUpStep ==
  ASSUME InboxInv, NEW c \in Callers, LookUp(c)
  PROVE  InboxInv'
<1>1. CASE Here(caller[c].key)
  BY <1>1, ReplayStep DEF LookUp, Here
<1>2. CASE ~Here(caller[c].key)
  <2>. DEFINE new == [caller[c] EXCEPT !.at = "keying"]
  <2>1. /\ caller' = [caller EXCEPT ![c] = new] /\ caller[c].at = "fresh"
        /\ UNCHANGED <<inbox, next, keyLock, ownerLock, drainer, told, calls>>
    BY <1>2 DEF LookUp, Here, Moved
  <2>2. caller[c].at \in CallStages /\ "keying" \in CallStages
    BY <2>1 DEF CallStages
  <2>3. /\ new \in Calls /\ caller[c] \in Calls /\ new.at = "keying" /\ new.key = caller[c].key
        /\ new.payload = caller[c].payload /\ new.receipt = caller[c].receipt
    BY <2>2, MovedType DEF InboxInv, Kept
  <2>. HIDE DEF new
  <2>4. caller'[c] = new
    BY <2>1, <2>3, Moves DEF InboxInv
  <2>5. CallHolds(c)' /\ CallNumbered(c)' /\ CallAnswered(c)'
    BY <2>3, <2>4 DEF CallHolds, CallNumbered, CallAnswered
  <2>. QED  BY <2>1, <2>3, <2>5, GoesOn DEF InboxInv, TypeOK
<1>. QED  BY <1>1, <1>2


LEMMA LockStep ==
  ASSUME InboxInv, NEW c \in Callers, LockDedupeKey(c) \/ LockOwner(c)
  PROVE  InboxInv'
<1>1. CASE LockDedupeKey(c)
  <2>. DEFINE new == [caller[c] EXCEPT !.at = "owning"]
              k == caller[c].key
  <2>1. /\ caller' = [caller EXCEPT ![c] = new] /\ caller[c].at = "keying"
        /\ keyLock[k] = Nobody /\ keyLock' = [keyLock EXCEPT ![k] = c]
        /\ UNCHANGED <<inbox, next, ownerLock, drainer, told, calls>>
    BY <1>1 DEF LockDedupeKey, Moved
  <2>2. caller[c].at \in CallStages /\ "owning" \in CallStages
    BY <2>1 DEF CallStages
  <2>3. /\ new \in Calls /\ caller[c] \in Calls /\ new.at = "owning" /\ new.key = k
        /\ new.payload = caller[c].payload /\ new.receipt = caller[c].receipt
    BY <2>2, MovedType DEF InboxInv, Kept
  <2>. HIDE DEF new
  <2>4. caller'[c] = new
    BY <2>1, <2>3, Moves DEF InboxInv
  <2>5. k \in Keys
    BY <2>3 DEF Calls
  <2>. HIDE DEF k
  <2>6. /\ keyLock' \in [Keys -> Callers \cup {Nobody}] /\ keyLock'[k] = c
        /\ \A l \in Keys : l # k => keyLock'[l] = keyLock[l]
    BY <2>1, <2>5 DEF InboxInv, TypeOK
  <2>7. CallHolds(c)' /\ CallNumbered(c)' /\ CallAnswered(c)'
    BY <2>3, <2>4, <2>6 DEF CallHolds, CallNumbered, CallAnswered
  <2>. QED  BY <2>1, <2>3, <2>6, <2>7, GoesOn DEF InboxInv, TypeOK, k
<1>2. CASE LockOwner(c)
  <2>. DEFINE new == [caller[c] EXCEPT !.at = "deciding"]
              o == Owner[caller[c].payload]
  <2>1. /\ caller' = [caller EXCEPT ![c] = new] /\ caller[c].at = "owning"
        /\ ownerLock[o] = Nobody /\ ownerLock' = [ownerLock EXCEPT ![o] = c]
        /\ UNCHANGED <<inbox, next, keyLock, drainer, told, calls>>
    BY <1>2 DEF LockOwner, Moved
  <2>2. caller[c].at \in CallStages /\ "deciding" \in CallStages
    BY <2>1 DEF CallStages
  <2>3. /\ new \in Calls /\ caller[c] \in Calls /\ new.at = "deciding" /\ new.key = caller[c].key
        /\ new.payload = caller[c].payload /\ new.receipt = caller[c].receipt
    BY <2>2, MovedType DEF InboxInv, Kept
  <2>. HIDE DEF new
  <2>4. caller'[c] = new
    BY <2>1, <2>3, Moves DEF InboxInv
  <2>5. o \in Owners
    BY <2>3, OwnersAssumption DEF Calls
  <2>6. /\ ownerLock' \in [Owners -> Callers \cup Drainers \cup {Nobody}] /\ ownerLock'[o] = c
        /\ \A l \in Owners : l # o => ownerLock'[l] = ownerLock[l]
    BY <2>1, <2>5 DEF InboxInv, TypeOK
  <2>7. keyLock[caller[c].key] = c
    BY <2>1, CallOKFact DEF CallOK, CallHolds
  <2>8. CallHolds(c)' /\ CallNumbered(c)' /\ CallAnswered(c)'
    BY <2>1, <2>3, <2>4, <2>6, <2>7 DEF CallHolds, CallNumbered, CallAnswered
  <2>. QED  BY <2>1, <2>3, <2>6, <2>8, GoesOn DEF InboxInv, TypeOK
<1>. QED  BY <1>1, <1>2

\* The number read under the locks is the stream's next, and there is no row.
LEMMA InsertStep ==
  ASSUME InboxInv, NEW c \in Callers, Insert(c)
  PROVE  InboxInv'
<1>. DEFINE seq == next[Owner[caller[c].payload]]
            new == [caller[c] EXCEPT !.at = "committing", !.seq = seq]
<1>1. /\ caller' = [caller EXCEPT ![c] = new] /\ caller[c].at = "deciding" /\ ~Here(caller[c].key)
      /\ UNCHANGED <<inbox, next, keyLock, ownerLock, drainer, told, calls>>
  BY DEF Insert, Moved, Here
<1>2. caller[c].at \in CallStages /\ caller[c] \in Calls
  BY <1>1, CallFields DEF CallStages, InboxInv
<1>3. seq \in Nat
  BY <1>2, OwnersAssumption DEF InboxInv, TypeOK, Calls
<1>4. /\ new \in Calls /\ new.at = "committing" /\ new.key = caller[c].key /\ new.seq = seq
      /\ new.payload = caller[c].payload /\ new.receipt = caller[c].receipt
  BY <1>2, <1>3, CommittingType DEF InboxInv, Kept
<1>. HIDE DEF new
<1>5. caller'[c] = new
  BY <1>1, <1>4, Moves DEF InboxInv
<1>6. CallOK(c)
  BY CallOKFact
<1>7. CallHolds(c)' /\ CallNumbered(c)' /\ CallAnswered(c)'
  BY <1>1, <1>4, <1>5, <1>6 DEF CallOK, CallHolds, CallNumbered, CallAnswered, Here
<1>. QED  BY <1>1, <1>2, <1>4, <1>7, GoesOn DEF InboxInv, TypeOK

LEMMA OtherCallSteps ==
  ASSUME InboxInv, NEW c \in Callers,
         LookUp(c) \/ LockDedupeKey(c) \/ LockOwner(c) \/ ReplayInTx(c) \/ Refuse(c)
         \/ Insert(c) \/ Reply(c) \/ LoseCall(c)
  PROVE  InboxInv'
<1>1. CASE ReplayInTx(c)
  BY <1>1, ReplayStep DEF ReplayInTx, Here
<1>2. CASE Refuse(c) \/ LoseCall(c)
  BY <1>2, EndsStep DEF Refuse, LoseCall, InboxInv, TypeOK
<1>3. CASE Reply(c)
  <2>1. caller[c] \in Calls
    BY <1>3, CallFields DEF Reply, CallStages, InboxInv
  <2>2. told' \subseteq [key : Keys, payload : Payloads, answer : 0 .. MaxCalls]
    BY <1>3, <2>1 DEF Reply, InboxInv, TypeOK, Calls
  <2>. QED  BY <1>3, <2>2, EndsStep DEF Reply
<1>. QED  BY <1>1, <1>2, <1>3, LookUpStep, LockStep, InsertStep


-----------------------------------------------------------------------------
(* The steps that write rows, and the drainers. *)

DrainHolds(d) ==
  /\ drainer[d].at # "idle" => drainer[d].stream \in Owners
  /\ drainer[d].at = "claimed" => ownerLock[drainer[d].stream] = d

\* Whoever steps, the others keep their locks.
LEMMA OthersHold ==
  ASSUME InboxInv, NEW who \in Callers \cup Drainers,
         \A e \in Callers : e # who => caller'[e] = caller[e],
         \A d \in Drainers : d # who => drainer'[d] = drainer[d],
         \A k \in Keys : keyLock[k] \notin {who, Nobody} => keyLock'[k] = keyLock[k],
         \A o \in Owners : ownerLock[o] \notin {who, Nobody} => ownerLock'[o] = ownerLock[o],
         who \in Callers => CallHolds(who)', who \in Drainers => DrainHolds(who)'
  PROVE  Holds'
<1>1. ASSUME NEW e \in Callers PROVE CallHolds(e)'
  <2>1. caller[e].at \in CallStages => caller[e].key \in Keys /\ Owner[caller[e].payload] \in Owners
    BY CallFields, OwnersAssumption DEF Calls, InboxInv
  <2>2. CallHolds(e)
    BY CallOKFact DEF CallOK
  <2>. QED  BY <2>1, <2>2, Apart DEF CallHolds, CallStages
<1>2. ASSUME NEW d \in Drainers PROVE DrainHolds(d)'
  BY Apart DEF InboxInv, Holds, DrainHolds
<1>. QED  BY <1>1, <1>2 DEF Holds, CallHolds, DrainHolds

LEMMA CommitStep ==
  ASSUME InboxInv, NEW c \in Callers, Commit(c)
  PROVE  InboxInv'
<1>. USE DEF InboxInv
<1>. DEFINE k == caller[c].key
            p == caller[c].payload
            o == Owner[p]
            receipt == caller[c].receipt
            row == [payload |-> p, receipt |-> receipt, status |-> "pending", seq |-> caller[c].seq]
            new == [caller[c] EXCEPT !.at = "answering", !.answer = receipt]
<1>1. /\ caller[c].at = "committing" /\ caller[c] \in Calls /\ CallOK(c)
      /\ caller[c].at \in CallStages /\ caller[c] # NoCall
  BY CallFields, CallOKFact DEF Commit, CallStages
<1>2. /\ k \in Keys /\ p \in Payloads /\ o \in Owners /\ receipt \in 1 .. MaxCalls
      /\ receipt \in 0 .. MaxCalls
  BY <1>1, OwnersAssumption DEF Calls
<1>3. /\ keyLock[k] = c /\ ownerLock[o] = c /\ ~Here(k) /\ caller[c].seq = next[o]
  BY <1>1 DEF CallOK, CallHolds, CallNumbered
<1>4. next[o] \in Nat \ {0}
  BY <1>2 DEF TypeOK
<1>5. /\ inbox' = [inbox EXCEPT ![k] = row] /\ next' = [next EXCEPT ![o] = @ + 1]
      /\ caller' = [caller EXCEPT ![c] = new] /\ EndTx(c)
      /\ UNCHANGED <<drainer, told, calls>>
  BY DEF Commit, Answering
<1>6. row \in Rows /\ row # NoRow
  <2>1. row \in Rows
    BY <1>2, <1>3, <1>4 DEF Rows
  <2>2. row.receipt > 0
    BY <1>2, MaxCallsAssumption
  <2>. QED  BY <2>1, <2>2 DEF NoRow
<1>7. new \in Calls /\ new.at = "answering" /\ new.answer = receipt
      /\ new.key = k /\ new.payload = p /\ new.receipt = receipt
  BY <1>1, <1>2, AnsweringType DEF Kept
<1>8. row.payload = p /\ row.receipt = receipt /\ row.status = "pending" /\ row.seq = next[o]
  BY <1>3
<1>. HIDE DEF row, new
<1>9. /\ inbox' \in [Keys -> Rows \cup {NoRow}] /\ inbox'[k] = row
      /\ \A l \in Keys : l # k => inbox'[l] = inbox[l]
  BY <1>2, <1>5, <1>6 DEF TypeOK
<1>10. /\ next' \in [Owners -> Nat \ {0}] /\ next'[o] = next[o] + 1
       /\ \A l \in Owners : l # o => next'[l] = next[l]
  BY <1>2, <1>4, <1>5 DEF TypeOK
<1>11. /\ caller' \in [Callers -> Calls \cup {NoCall}] /\ caller'[c] = new
       /\ \A e \in Callers : e # c => caller'[e] = caller[e]
  BY <1>5, <1>7, Moves
<1>12. TypeOK'
  BY <1>5, <1>9, <1>10, <1>11, EndTxFact DEF TypeOK
<1>13. \A l \in Keys : Here(l) => l # k /\ inbox[l] \in Rows /\ StreamOf(l) \in Owners
                                 /\ inbox[l].seq < next[StreamOf(l)] /\ inbox[l].seq \in Nat
  BY <1>3, OwnersAssumption DEF TypeOK, Here, Rows, StreamOf, Numbered
<1>14. \A l \in Keys : Here(l)' => IF l = k THEN StreamOf(l)' = o
                                   ELSE Here(l) /\ StreamOf(l)' = StreamOf(l)
  BY <1>8, <1>9 DEF Here, StreamOf
<1>15. Holds'
  BY <1>5, <1>7, <1>11, OthersHold, EndTxFact, Apart DEF CallHolds
<1>16. Numbered'
  <2>1. ASSUME NEW l \in Keys, Here(l)' PROVE inbox'[l].seq < next'[StreamOf(l)']
    BY <1>4, <1>8, <1>9, <1>10, <1>13, <1>14, <2>1
  <2>2. ASSUME NEW l \in Keys, NEW m \in Keys, Here(l)', Here(m)', l # m, StreamOf(l)' = StreamOf(m)'
        PROVE  inbox'[l].seq # inbox'[m].seq
    <3>1. CASE l = k
      BY <1>4, <1>8, <1>9, <1>13, <1>14, <2>2, <3>1
    <3>2. CASE m = k
      BY <1>4, <1>8, <1>9, <1>13, <1>14, <2>2, <3>2
    <3>3. CASE l # k /\ m # k
      BY <1>9, <1>14, <2>2, <3>3 DEF Numbered
    <3>. QED  BY <3>1, <3>2, <3>3
  <2>3. ASSUME NEW e \in Callers, caller'[e].at = "committing"
        PROVE  CallNumbered(e)'
    <3>1. e # c /\ caller'[e] = caller[e]
      BY <1>7, <1>11, <2>3
    <3>2. CallOK(e) /\ caller[e] \in Calls
      BY <2>3, <3>1, CallOKFact, CallFields DEF CallStages
    <3>3. caller[e].key # k /\ Owner[caller[e].payload] # o
      BY <1>3, <2>3, <3>1, <3>2 DEF CallOK, CallHolds
    <3>4. caller[e].key \in Keys /\ Owner[caller[e].payload] \in Owners
      BY <3>2, OwnersAssumption DEF Calls
    <3>. QED  BY <1>9, <1>10, <2>3, <3>1, <3>2, <3>3, <3>4 DEF CallOK, CallNumbered, Here
  <2>. QED  BY <2>1, <2>2, <2>3 DEF Numbered, CallNumbered
<1>17. Receipted'
  <2>1. \A l \in Keys : inbox'[l].receipt <= calls'
    BY <1>1, <1>5, <1>8, <1>9 DEF Receipted, CallOK, CallReceipted
  <2>2. \A e \in Callers : caller'[e].receipt = caller[e].receipt
    BY <1>7, <1>11
  <2>3. \A e \in Callers : caller'[e] # NoCall => caller[e] # NoCall
    BY <1>1, <1>11
  <2>4. \A l \in Keys : inbox[l].receipt # receipt
    BY <1>1 DEF CallOK, CallReceipted
  <2>5. ASSUME NEW l \in Keys, NEW m \in Keys, Here(l)', l # m
        PROVE  inbox'[l].receipt # inbox'[m].receipt
    <3>1. CASE l = k
      BY <1>8, <1>9, <2>4, <2>5, <3>1
    <3>2. CASE m = k
      BY <1>8, <1>9, <2>4, <2>5, <3>2
    <3>3. CASE l # k /\ m # k
      BY <1>9, <1>14, <2>5, <3>3 DEF Receipted
    <3>. QED  BY <3>1, <3>2, <3>3
  <2>6. ASSUME NEW e \in Callers, NEW l \in Keys, caller'[e] # NoCall, caller'[e].at # "answering"
        PROVE  inbox'[l].receipt # caller'[e].receipt
    <3>1. e # c /\ caller'[e] = caller[e]
      BY <1>7, <1>11, <2>6
    <3>2. CASE l = k
      BY <1>1, <1>8, <1>9, <2>6, <3>1, <3>2 DEF Receipted
    <3>3. CASE l # k
      BY <1>9, <2>6, <3>1, <3>3 DEF Receipted
    <3>. QED  BY <3>2, <3>3
  <2>. QED  BY <1>5, <2>1, <2>2, <2>3, <2>5, <2>6 DEF Receipted, Here
<1>18. Answered'
  <2>. SUFFICES ASSUME NEW e \in Callers, caller'[e].at = "answering"
                PROVE  CallAnswered(e)'
    BY DEF Answered, CallAnswered
  <2>1. CASE e = c
    BY <1>6, <1>7, <1>8, <1>9, <1>11, <2>1 DEF CallAnswered, Here, Replay
  <2>2. CASE e # c
    <3>1. caller'[e] = caller[e] /\ Here(caller[e].key)
          /\ caller[e].answer = Replay(caller[e].key, caller[e].payload)
      BY <1>11, <2>2 DEF Answered
    <3>2. caller[e] \in Calls
      BY <3>1, CallFields DEF CallStages
    <3>3. inbox'[caller[e].key] = inbox[caller[e].key]
      BY <1>9, <1>13, <3>1, <3>2 DEF Calls
    <3>. QED  BY <3>1, <3>3 DEF CallAnswered, Here, Replay
  <2>. QED  BY <2>1, <2>2
<1>19. StreamsInOrder'
  <2>. SUFFICES ASSUME NEW l \in Keys, NEW m \in Keys, Here(l)', Here(m)', l # m,
                       StreamOf(l)' = StreamOf(m)', inbox'[l].status = "pending"
                PROVE  inbox'[m].status = "pending" \/ inbox'[m].seq < inbox'[l].seq
    BY DEF StreamsInOrder, Here
  <2>1. CASE l = k
    BY <1>8, <1>9, <1>13, <1>14, <2>1
  <2>2. CASE m = k
    BY <1>8, <1>9, <2>2
  <2>3. CASE l # k /\ m # k
    BY <1>9, <1>14, <2>3 DEF StreamsInOrder, Here
  <2>. QED  BY <2>1, <2>2, <2>3
<1>. QED  BY <1>12, <1>15, <1>16, <1>17, <1>18, <1>19


\* A drainer that writes no row.
LEMMA DrainStep ==
  ASSUME InboxInv, NEW d \in Drainers, NEW at \in {"idle", "claiming", "claimed"},
         NEW o \in Owners \cup {NoStream}, At(d, at, o), at # "idle" => o \in Owners,
         at = "claimed" => ownerLock'[o] = d,
         UNCHANGED <<inbox, next, caller, told, calls>>,
         keyLock' \in [Keys -> Callers \cup {Nobody}],
         ownerLock' \in [Owners -> Callers \cup Drainers \cup {Nobody}],
         \A k \in Keys : keyLock[k] \notin {d, Nobody} => keyLock'[k] = keyLock[k],
         \A l \in Owners : ownerLock[l] \notin {d, Nobody} => ownerLock'[l] = ownerLock[l]
  PROVE  InboxInv'
<1>. USE DEF InboxInv
<1>1. /\ drainer'[d] = [at |-> at, stream |-> o]
      /\ \A e \in Drainers : e # d => drainer'[e] = drainer[e]
      /\ drainer' \in [Drainers -> [at : {"idle", "claiming", "claimed"},
                                    stream : Owners \cup {NoStream}]]
  BY DEF At, TypeOK
<1>2. TypeOK'
  BY <1>1 DEF TypeOK
<1>3. Holds'
  BY <1>1, OthersHold, Apart DEF DrainHolds
<1>4. Numbered'
  BY DEF Numbered, Here, StreamOf
<1>5. Receipted'
  BY DEF Receipted, Here
<1>6. Answered' /\ StreamsInOrder'
  BY DEF Answered, StreamsInOrder, Here, StreamOf, Replay
<1>. QED  BY <1>2, <1>3, <1>4, <1>5, <1>6

LEMMA DrainerSteps ==
  ASSUME InboxInv, NEW d \in Drainers,
         Discover \/ (\E o \in Matches : DrainMatch(d, o)) \/ Claim(d) \/ Empty(d) \/ Fail(d)
  PROVE  InboxInv'
<1>. USE DEF InboxInv
<1>1. CASE Discover
  <2>1. PICK o \in Owners : At(Ticker, "claiming", o)
    BY <1>1 DEF Discover
  <2>. QED  BY <1>1, <2>1, DrainStep DEF Discover, Drainers, TypeOK
<1>2. CASE \E o \in Matches : DrainMatch(d, o)
  <2>1. PICK o \in Matches : DrainMatch(d, o)
    BY <1>2
  <2>. QED  BY <2>1, OwnersAssumption, DrainStep DEF DrainMatch, TypeOK
<1>3. CASE Claim(d)
  <2>. DEFINE o == drainer[d].stream
  <2>1. o \in Owners /\ ownerLock[o] = Nobody
    BY <1>3 DEF Claim, Holds
  <2>2. /\ ownerLock' \in [Owners -> Callers \cup Drainers \cup {Nobody}] /\ ownerLock'[o] = d
        /\ \A l \in Owners : l # o => ownerLock'[l] = ownerLock[l]
    BY <1>3, <2>1 DEF Claim, TypeOK
  <2>. QED  BY <1>3, <2>1, <2>2, DrainStep DEF Claim, TypeOK
<1>4. CASE Empty(d) \/ Fail(d)
  BY <1>4, EndTxFact, DrainStep DEF Empty, Fail
<1>. QED  BY <1>1, <1>2, <1>3, <1>4

\* The head of a claimed stream is processed: none of the stream is before it.
LEMMA ProcessStep ==
  ASSUME InboxInv, NEW d \in Drainers, Process(d)
  PROVE  InboxInv'
<1>. USE DEF InboxInv
<1>. DEFINE o == drainer[d].stream
            at == IF d = Ticker THEN "idle" ELSE "claiming"
            to == IF d = Ticker THEN NoStream ELSE o
<1>1. PICK k \in Keys, status \in {"applied", "rejected"} :
        /\ IsHead(o, k) /\ inbox' = [inbox EXCEPT ![k].status = status]
  BY DEF Process
<1>2. /\ o \in Owners /\ EndTx(d) /\ UNCHANGED <<next, caller, told, calls>>
      /\ drainer' = [drainer EXCEPT ![d] = [at |-> at, stream |-> to]]
  BY DEF Process, Holds, At
<1>3. /\ inbox[k] \in Rows /\ inbox[k].status = "pending" /\ StreamOf(k) = o /\ Here(k)
      /\ \A l \in Pending(o) : inbox[k].seq <= inbox[l].seq
  BY <1>1 DEF IsHead, Pending, TypeOK, Rows, NoRow, Here
<1>. DEFINE row == [inbox[k] EXCEPT !.status = status]
<1>4. /\ row \in Rows /\ row.status = status /\ row.payload = inbox[k].payload
      /\ row.receipt = inbox[k].receipt /\ row.seq = inbox[k].seq
  BY <1>3 DEF Rows
<1>5. row # NoRow
  BY <1>4 DEF NoRow
<1>6. inbox' = [inbox EXCEPT ![k] = row]
  BY <1>1
<1>. HIDE DEF row
<1>7. /\ inbox' \in [Keys -> Rows \cup {NoRow}] /\ inbox'[k] = row
      /\ \A l \in Keys : l # k => inbox'[l] = inbox[l]
  BY <1>4, <1>6 DEF TypeOK
<1>8. /\ at \in {"idle", "claiming"} /\ to \in Owners \cup {NoStream} /\ (at # "idle" => to \in Owners)
  BY <1>2
<1>. HIDE DEF at, to
<1>9. /\ drainer'[d] = [at |-> at, stream |-> to]
      /\ \A e \in Drainers : e # d => drainer'[e] = drainer[e]
      /\ drainer' \in [Drainers -> [at : {"idle", "claiming", "claimed"},
                                    stream : Owners \cup {NoStream}]]
  BY <1>2, <1>8 DEF TypeOK
<1>10. TypeOK'
  BY <1>2, <1>7, <1>9, EndTxFact DEF TypeOK
<1>11. DrainHolds(d)'
  BY <1>8, <1>9 DEF DrainHolds
<1>12. Holds'
  BY <1>2, <1>9, <1>11, EndTxFact, OthersHold, Apart
<1>13. \A l \in Keys : /\ Here(l)' = Here(l) /\ StreamOf(l)' = StreamOf(l)
                       /\ inbox'[l].payload = inbox[l].payload
                       /\ inbox'[l].receipt = inbox[l].receipt /\ inbox'[l].seq = inbox[l].seq
  BY <1>3, <1>4, <1>5, <1>7 DEF Here, StreamOf
<1>14. \A c \in Callers : caller[c].at \in CallStages => caller[c].key \in Keys
  BY CallFields DEF Calls
<1>15. Numbered'
  BY <1>2, <1>13, <1>14 DEF Numbered, CallStages
<1>16. Receipted'
  BY <1>2, <1>13 DEF Receipted
<1>17. Answered'
  BY <1>2, <1>13, <1>14 DEF Answered, CallStages, Replay
<1>18. StreamsInOrder'
  <2>. SUFFICES ASSUME NEW l \in Keys, NEW m \in Keys, Here(l)', Here(m)', l # m,
                       StreamOf(l)' = StreamOf(m)', inbox'[l].status = "pending"
                PROVE  inbox'[m].status = "pending" \/ inbox'[m].seq < inbox'[l].seq
    BY DEF StreamsInOrder, Here
  <2>1. l # k /\ inbox[l].status = "pending"
    BY <1>4, <1>7
  <2>2. CASE m = k
    <3>1. l \in Pending(o)
      BY <1>3, <1>13, <2>1, <2>2 DEF Pending
    <3>2. inbox[k].seq <= inbox[l].seq /\ inbox[k].seq # inbox[l].seq
      BY <1>3, <1>13, <2>2, <3>1 DEF Numbered
    <3>3. inbox[k].seq \in Nat /\ inbox[l].seq \in Nat
      BY DEF TypeOK, Rows, NoRow
    <3>. QED  BY <1>13, <2>2, <3>2, <3>3
  <2>3. CASE m # k
    BY <1>7, <1>13, <2>1, <2>3 DEF StreamsInOrder, Here
  <2>. QED  BY <2>2, <2>3
<1>. QED  BY <1>10, <1>12, <1>15, <1>16, <1>17, <1>18

LEMMA InitInv == Init => InboxInv
<1>. SUFFICES ASSUME Init PROVE InboxInv
  OBVIOUS
<1>1. TypeOK
  BY MaxCallsAssumption DEF Init, TypeOK, Calls
<1>2. \A c \in Callers : caller[c].at = "idle" /\ caller[c] = NoCall /\ caller[c].receipt = 0
  BY DEF Init, NoCall
<1>3. \A k \in Keys : ~Here(k) /\ inbox[k].receipt = 0
  BY DEF Init, Here, NoRow
<1>4. Holds
  BY <1>2 DEF Holds, Init
<1>5. Numbered /\ Answered
  BY <1>2, <1>3 DEF Numbered, Answered
<1>6. Receipted
  BY <1>2, <1>3 DEF Receipted, Init
<1>7. StreamsInOrder
  BY <1>3 DEF StreamsInOrder, Here
<1>. QED  BY <1>1, <1>4, <1>5, <1>6, <1>7 DEF InboxInv

LEMMA NextInv == InboxInv /\ [Next]_vars => InboxInv'
<1>. SUFFICES ASSUME InboxInv, [Next]_vars PROVE InboxInv'
  OBVIOUS
<1>1. CASE UNCHANGED vars
  <2>1. TypeOK' /\ Holds'
    BY <1>1 DEF InboxInv, TypeOK, Holds, vars
  <2>2. Numbered' /\ Receipted'
    BY <1>1 DEF InboxInv, Numbered, Receipted, Here, StreamOf, vars
  <2>3. Answered' /\ StreamsInOrder'
    BY <1>1 DEF InboxInv, Answered, StreamsInOrder, Here, StreamOf, Replay, vars
  <2>. QED  BY <2>1, <2>2, <2>3 DEF InboxInv
<1>2. CASE Next
  <2>1. Ticker \in Drainers
    BY DEF Drainers
  <2>. QED  BY <1>2, <2>1, DispatchStep, OtherCallSteps, CommitStep, DrainerSteps, ProcessStep
            DEF Next, Admission
<1>. QED  BY <1>1, <1>2

LEMMA InboxInvAlways == Spec => []InboxInv
BY InitInv, NextInv, PTL DEF Spec


\* Every variable keeps to its domain.
THEOREM InboxTypeCorrect == Spec => []TypeOK
<1>1. InboxInv => TypeOK
  BY DEF InboxInv
<1>. QED  BY <1>1, InboxInvAlways, PTL

\* Callers that race under one command id, or into one stream, are told apart by
\* the locks: no commit ever runs into the constraints of the table.
THEOREM DuplicatesCorrect == Spec => []DuplicatesAreRecognised
<1>1. ASSUME InboxInv, NEW c \in Callers, caller[c].at = "committing" PROVE Unique(c)
  <2>1. caller[c] \in Calls /\ ~Here(caller[c].key)
        /\ caller[c].seq = next[Owner[caller[c].payload]]
    BY <1>1, CallFields DEF InboxInv, Numbered, CallStages
  <2>2. ASSUME NEW k \in Keys, Here(k), StreamOf(k) = Owner[caller[c].payload]
        PROVE  inbox[k].seq # caller[c].seq
    <3>1. inbox[k].seq < caller[c].seq /\ inbox[k].seq \in Nat
      BY <1>1, <2>1, <2>2 DEF InboxInv, Numbered, TypeOK, Rows, Here
    <3>2. caller[c].seq \in Nat
      BY <2>1 DEF Calls
    <3>. QED  BY <3>1, <3>2
  <2>. QED  BY <2>1, <2>2 DEF Unique, Here
<1>2. InboxInv => DuplicatesAreRecognised
  BY <1>1 DEF DuplicatesAreRecognised
<1>. QED  BY <1>2, InboxInvAlways, PTL

\* The commands of a stream are processed in the order of their numbers, whoever
\* drains it.
THEOREM StreamOrderCorrect == Spec => []StreamsInOrder
<1>1. InboxInv => StreamsInOrder
  BY DEF InboxInv
<1>. QED  BY <1>1, InboxInvAlways, PTL

-----------------------------------------------------------------------------
(* The inbox implements the ledger. *)

book == [k \in Keys |-> Entry(k)]

LEMMA EntryFact ==
  ASSUME InboxInv, NEW k \in Keys
  PROVE  /\ book[k].payload = inbox[k].payload /\ book[k].receipt = inbox[k].receipt
         /\ book[k].status = inbox[k].status
         /\ book[k] = Ledger!NoEntry <=> ~Here(k)
<1>1. book[k] = [payload |-> inbox[k].payload, receipt |-> inbox[k].receipt,
                 status |-> inbox[k].status]
  BY DEF book, Entry
<1>2. ~Here(k) => book[k] = Ledger!NoEntry
  BY <1>1 DEF Here, NoRow, Ledger!NoEntry
<1>3. ASSUME Here(k) PROVE book[k] # Ledger!NoEntry
  <2>1. book[k].receipt > 0
    BY <1>1, <1>3, MaxCallsAssumption DEF Here, InboxInv, TypeOK, Rows
  <2>2. Ledger!NoEntry.receipt = 0
    BY DEF Ledger!NoEntry
  <2>. QED  BY <2>1, <2>2
<1>. QED  BY <1>1, <1>2, <1>3

\* A commit admits the command under a receipt nobody else has.
LEMMA CommitAdmits ==
  ASSUME InboxInv, NEW c \in Callers, Commit(c)
  PROVE  Ledger!Next
<1>. DEFINE k == caller[c].key
            p == caller[c].payload
            r == caller[c].receipt
            row == [payload |-> p, receipt |-> r, status |-> "pending", seq |-> caller[c].seq]
<1>1. /\ caller[c].at = "committing" /\ caller[c] \in Calls /\ CallOK(c) /\ caller[c] # NoCall
  BY CallFields, CallOKFact DEF Commit, CallStages, InboxInv
<1>2. k \in Keys /\ p \in Payloads /\ r \in 1 .. MaxCalls
  BY <1>1 DEF Calls
<1>3. ~Here(k) /\ \A l \in Keys : inbox[l].receipt # r
  BY <1>1 DEF CallOK, CallNumbered, CallReceipted
<1>4. inbox' = [inbox EXCEPT ![k] = row] /\ told' = told
  BY DEF Commit
<1>5. row.payload = p /\ row.receipt = r /\ row.status = "pending"
  OBVIOUS
<1>. HIDE DEF row
<1>6. \A l \in Keys : inbox'[l] = IF l = k THEN row ELSE inbox[l]
  BY <1>2, <1>4 DEF InboxInv, TypeOK
<1>7. book' = [book EXCEPT ![k] = [payload |-> p, receipt |-> r, status |-> "pending"]]
  BY <1>2, <1>5, <1>6 DEF book, Entry
<1>8. Ledger!Admit(k, p, r)
  BY <1>2, <1>3, <1>4, <1>7, EntryFact DEF Ledger!Admit, book
<1>. QED  BY <1>2, <1>8 DEF Ledger!Next

LEMMA ProcessProcesses ==
  ASSUME InboxInv, NEW d \in Drainers, Process(d)
  PROVE  Ledger!Next
<1>1. PICK k \in Keys, status \in {"applied", "rejected"} :
        /\ k \in Pending(drainer[d].stream) /\ inbox' = [inbox EXCEPT ![k].status = status]
        /\ told' = told
  BY DEF Process, IsHead
<1>2. inbox[k] \in Rows /\ inbox[k].status = "pending"
  BY <1>1 DEF Pending, InboxInv, TypeOK, Rows, NoRow
<1>. DEFINE row == [inbox[k] EXCEPT !.status = status]
<1>3. row.status = status /\ row.payload = inbox[k].payload /\ row.receipt = inbox[k].receipt
  BY <1>2 DEF Rows
<1>4. inbox' = [inbox EXCEPT ![k] = row]
  BY <1>1
<1>. HIDE DEF row
<1>5. \A l \in Keys : inbox'[l] = IF l = k THEN row ELSE inbox[l]
  BY <1>4 DEF InboxInv, TypeOK
<1>6. book' = [book EXCEPT ![k].status = status]
  BY <1>3, <1>5 DEF book, Entry
<1>7. Ledger!Process(k, status)
  BY <1>1, <1>2, <1>6, EntryFact DEF Ledger!Process, book
<1>. QED  BY <1>7 DEF Ledger!Next

LEMMA ReplyTells ==
  ASSUME InboxInv, NEW c \in Callers, Reply(c)
  PROVE  Ledger!Next
<1>. DEFINE k == caller[c].key
            p == caller[c].payload
<1>1. /\ caller[c] \in Calls /\ Here(k) /\ caller[c].answer = Replay(k, p)
      /\ told' = told \cup {[key |-> k, payload |-> p, answer |-> caller[c].answer]}
      /\ inbox' = inbox
  BY CallFields DEF Reply, CallStages, InboxInv, Answered
<1>2. k \in Keys /\ p \in Payloads
  BY <1>1 DEF Calls
<1>3. Ledger!Answer(k, p) = Replay(k, p)
  BY <1>2, EntryFact DEF Ledger!Answer, Replay, Conflict, Ledger!Conflict, book
<1>4. book' = book
  BY <1>1 DEF book, Entry
<1>5. Ledger!Tell(k, p)
  BY <1>1, <1>2, <1>3, <1>4, EntryFact DEF Ledger!Tell, book
<1>. QED  BY <1>2, <1>5 DEF Ledger!Next

\* The inbox implements the ledger: a commit admits, a drainer processes, a reply
\* tells, and every other step, lost answers and crashes among them, is a stutter.
THEOREM KeepsLedgerCorrect == Spec => KeepsLedger
<1>1. Init => Ledger!Init
  BY DEF Init, Ledger!Init, Entry, NoRow, Ledger!NoEntry
<1>2. ASSUME InboxInv, [Next]_vars PROVE [Ledger!Next]_<<book, told>>
  <2>1. UNCHANGED <<inbox, told>> => UNCHANGED <<book, told>>
    BY DEF book, Entry
  <2>2. CASE UNCHANGED vars
    BY <2>1, <2>2 DEF vars
  <2>3. CASE Next
    <3>1. ASSUME NEW c \in Callers, Admission(c) PROVE [Ledger!Next]_<<book, told>>
      <4>1. Commit(c) \/ Reply(c) \/ UNCHANGED <<inbox, told>>
        BY <3>1 DEF Admission, LookUp, LockDedupeKey, LockOwner, ReplayInTx, Refuse, Insert
      <4>. QED  BY <1>2, <2>1, <4>1, CommitAdmits, ReplyTells
    <3>2. ASSUME NEW c \in Callers,
                 LoseCall(c) \/ \E k \in Keys, p \in Payloads : Dispatch(c, k, p)
          PROVE  [Ledger!Next]_<<book, told>>
      BY <2>1, <3>2 DEF LoseCall, Dispatch
    <3>3. ASSUME NEW d \in Drainers,
                 Claim(d) \/ Empty(d) \/ Fail(d) \/ \E o \in Matches : DrainMatch(d, o)
          PROVE  [Ledger!Next]_<<book, told>>
      BY <2>1, <3>3 DEF Claim, Empty, Fail, DrainMatch
    <3>4. CASE Discover
      BY <2>1, <3>4 DEF Discover
    <3>. QED  BY <1>2, <2>3, <3>1, <3>2, <3>3, <3>4, ProcessProcesses DEF Next
  <2>. QED  BY <1>2, <2>2, <2>3
<1>3. InboxInv /\ [Next]_vars => [Ledger!Next]_<<[k \in Keys |-> Entry(k)], told>>
  BY <1>2 DEF book
<1>. QED  BY <1>1, <1>3, InboxInvAlways, PTL DEF Spec, KeepsLedger, Ledger!Spec

-----------------------------------------------------------------------------
(* Locks. *)

\* What a step of c leaves of the locks: the others' as they were, and c's own.
LEMMA CallLocks ==
  ASSUME TypeOK, LocksAreAtWork, NEW c \in Callers, drainer' = drainer,
         \A e \in Callers : e # c => caller'[e] = caller[e],
         \A k \in Keys : keyLock'[k] = keyLock[k] \/ keyLock'[k] \in {c, Nobody},
         \A o \in Owners : ownerLock'[o] = ownerLock[o] \/ ownerLock'[o] \in {c, Nobody},
         \A k \in Keys : keyLock'[k] = c =>
           caller'[c].at \in {"owning", "deciding", "committing"} /\ caller'[c].key = k,
         \A o \in Owners : ownerLock'[o] = c =>
           caller'[c].at \in {"deciding", "committing"} /\ Owner[caller'[c].payload] = o
  PROVE  LocksAreAtWork'
<1>1. ASSUME NEW k \in Keys, NEW e \in Callers, keyLock'[k] = e
      PROVE  caller'[e].at \in {"owning", "deciding", "committing"} /\ caller'[e].key = k
  BY <1>1, Apart DEF LocksAreAtWork
<1>2. ASSUME NEW o \in Owners, NEW e \in Callers, ownerLock'[o] = e
      PROVE  caller'[e].at \in {"deciding", "committing"} /\ Owner[caller'[e].payload] = o
  BY <1>2, Apart DEF LocksAreAtWork
<1>3. ASSUME NEW o \in Owners, NEW d \in Drainers, ownerLock'[o] = d
      PROVE  drainer'[d].at = "claimed" /\ drainer'[d].stream = o
  BY <1>3, Apart DEF LocksAreAtWork
<1>. QED  BY <1>1, <1>2, <1>3 DEF LocksAreAtWork

LEMMA AllReleased ==
  ASSUME TypeOK, NEW who \in Callers \cup Drainers, EndTx(who)
  PROVE  /\ \A k \in Keys : keyLock'[k] # who /\ keyLock'[k] \in {keyLock[k], Nobody}
         /\ \A o \in Owners : ownerLock'[o] # who /\ ownerLock'[o] \in {ownerLock[o], Nobody}
BY Apart DEF TypeOK, EndTx, Released

LEMMA AdmissionLocks ==
  ASSUME TypeOK, LocksAreAtWork, NEW c \in Callers, Admission(c) \/ LoseCall(c)
  PROVE  LocksAreAtWork'
<1>. DEFINE Others == \A e \in Callers : e # c => caller'[e] = caller[e]
<1>0. Others
  BY DEF Admission, LoseCall, LookUp, LockDedupeKey, LockOwner, ReplayInTx, Refuse, Insert,
         Commit, Reply, Moved, Answering, TypeOK
<1>1. CASE EndTx(c) /\ drainer' = drainer
  BY <1>0, <1>1, AllReleased, CallLocks
<1>2. CASE LookUp(c) \/ Reply(c)
  <2>1. UNCHANGED <<keyLock, ownerLock, drainer>>
    BY <1>2 DEF LookUp, Reply
  <2>2. \A k \in Keys : keyLock[k] # c
    BY <1>2 DEF LookUp, Reply, LocksAreAtWork
  <2>3. \A o \in Owners : ownerLock[o] # c
    BY <1>2 DEF LookUp, Reply, LocksAreAtWork
  <2>. QED  BY <1>0, <2>1, <2>2, <2>3, CallLocks
<1>3. CASE LockDedupeKey(c)
  <2>1. /\ keyLock' = [keyLock EXCEPT ![caller[c].key] = c] /\ UNCHANGED <<ownerLock, drainer>>
        /\ caller[c].at = "keying" /\ caller' = Moved(c, "owning")
    BY <1>3 DEF LockDedupeKey
  <2>2. caller[c] \in Calls /\ caller'[c].at = "owning" /\ caller'[c].key = caller[c].key
    BY <2>1, CallFields DEF Moved, TypeOK, Calls, CallStages
  <2>3. \A k \in Keys : keyLock[k] # c
    BY <2>1 DEF LocksAreAtWork
  <2>4. \A o \in Owners : ownerLock[o] # c
    BY <2>1 DEF LocksAreAtWork
  <2>5. \A k \in Keys : keyLock'[k] = IF k = caller[c].key THEN c ELSE keyLock[k]
    BY <2>1 DEF TypeOK
  <2>. QED  BY <1>0, <2>1, <2>2, <2>3, <2>4, <2>5, CallLocks
<1>4. CASE LockOwner(c)
  <2>. DEFINE o == Owner[caller[c].payload]
  <2>1. /\ ownerLock' = [ownerLock EXCEPT ![o] = c] /\ UNCHANGED <<keyLock, drainer>>
        /\ caller[c].at = "owning" /\ caller' = Moved(c, "deciding")
    BY <1>4 DEF LockOwner
  <2>2. /\ caller[c] \in Calls /\ caller'[c].at = "deciding" /\ caller'[c].key = caller[c].key
        /\ caller'[c].payload = caller[c].payload
    BY <2>1, CallFields DEF Moved, TypeOK, Calls, CallStages
  <2>3. \A k \in Keys : keyLock[k] = c => caller[c].key = k
    BY DEF LocksAreAtWork
  <2>4. \A q \in Owners : ownerLock[q] # c
    BY <2>1 DEF LocksAreAtWork
  <2>5. \A q \in Owners : ownerLock'[q] = IF q = o THEN c ELSE ownerLock[q]
    BY <2>1 DEF TypeOK
  <2>. QED  BY <1>0, <2>1, <2>2, <2>3, <2>4, <2>5, CallLocks
<1>5. CASE Insert(c)
  <2>1. /\ UNCHANGED <<keyLock, ownerLock, drainer>> /\ caller[c].at = "deciding"
        /\ caller' = [Moved(c, "committing") EXCEPT ![c].seq = next[Owner[caller[c].payload]]]
    BY <1>5 DEF Insert
  <2>2. /\ caller'[c].at = "committing" /\ caller'[c].key = caller[c].key
        /\ caller'[c].payload = caller[c].payload
    BY <2>1, CallFields DEF Moved, TypeOK, Calls, CallStages
  <2>. QED  BY <1>0, <2>1, <2>2, CallLocks DEF LocksAreAtWork
<1>. QED  BY <1>1, <1>2, <1>3, <1>4, <1>5
          DEF Admission, LoseCall, ReplayInTx, Refuse, Commit

\* A drainer holds the stream it has claimed and lets go of it with its transaction.
LEMMA DrainerLocks ==
  ASSUME TypeOK, LocksAreAtWork, NEW d \in Drainers, caller' = caller,
         \A e \in Drainers : e # d => drainer'[e] = drainer[e],
         UNCHANGED keyLock \/ EndTx(d),
         \A o \in Owners : ownerLock'[o] = ownerLock[o] \/ ownerLock'[o] \in {d, Nobody},
         \A o \in Owners : ownerLock'[o] = d =>
           drainer'[d].at = "claimed" /\ drainer'[d].stream = o
  PROVE  LocksAreAtWork'
<1>1. ASSUME NEW k \in Keys, NEW c \in Callers, keyLock'[k] = c
      PROVE  caller'[c].at \in {"owning", "deciding", "committing"} /\ caller'[c].key = k
  BY <1>1, AllReleased, Apart DEF LocksAreAtWork
<1>2. ASSUME NEW o \in Owners, NEW c \in Callers, ownerLock'[o] = c
      PROVE  caller'[c].at \in {"deciding", "committing"} /\ Owner[caller'[c].payload] = o
  BY <1>2, Apart DEF LocksAreAtWork
<1>3. ASSUME NEW o \in Owners, NEW e \in Drainers, ownerLock'[o] = e
      PROVE  drainer'[e].at = "claimed" /\ drainer'[e].stream = o
  BY <1>3, Apart DEF LocksAreAtWork
<1>. QED  BY <1>1, <1>2, <1>3 DEF LocksAreAtWork

LEMMA DrainLocks ==
  ASSUME TypeOK, LocksAreAtWork, NEW d \in Drainers,
         \/ Claim(d) \/ Process(d) \/ Empty(d) \/ Fail(d)
         \/ \E o \in Matches : DrainMatch(d, o)
         \/ d = Ticker /\ Discover
  PROVE  LocksAreAtWork'
<1>0. caller' = caller /\ \A e \in Drainers : e # d => drainer'[e] = drainer[e]
  BY DEF Claim, Process, Empty, Fail, DrainMatch, Discover, At, TypeOK
<1>1. CASE EndTx(d)
  BY <1>0, <1>1, AllReleased, DrainerLocks
<1>2. CASE (Discover /\ d = Ticker) \/ \E o \in Matches : DrainMatch(d, o)
  <2>1. UNCHANGED <<keyLock, ownerLock>> /\ drainer[d].at = "idle"
    BY <1>2 DEF Discover, DrainMatch
  <2>2. \A o \in Owners : ownerLock[o] # d
    BY <2>1 DEF LocksAreAtWork
  <2>. QED  BY <1>0, <2>1, <2>2, DrainerLocks
<1>3. CASE Claim(d)
  <2>1. /\ ownerLock' = [ownerLock EXCEPT ![drainer[d].stream] = d] /\ UNCHANGED keyLock
        /\ drainer[d].at = "claiming"
        /\ drainer' = [drainer EXCEPT ![d] = [at |-> "claimed", stream |-> drainer[d].stream]]
    BY <1>3 DEF Claim, At
  <2>2. \A o \in Owners : ownerLock[o] # d
    BY <2>1 DEF LocksAreAtWork
  <2>3. drainer'[d].at = "claimed" /\ drainer'[d].stream = drainer[d].stream
    BY <2>1 DEF TypeOK
  <2>4. \A o \in Owners : ownerLock'[o] = IF o = drainer[d].stream THEN d ELSE ownerLock[o]
    BY <2>1 DEF TypeOK
  <2>. QED  BY <1>0, <2>1, <2>2, <2>3, <2>4, DrainerLocks
<1>. QED  BY <1>1, <1>2, <1>3 DEF Process, Empty, Fail

\* No lock outlives its transaction and nobody who has locked a stream waits, for
\* any number of calls, command ids, streams and workflows.
THEOREM LocksCorrect == Spec => []LocksAreAtWork
<1>1. Init => LocksAreAtWork
  BY Apart DEF Init, LocksAreAtWork
<1>2. ASSUME TypeOK, LocksAreAtWork, [Next]_vars PROVE LocksAreAtWork'
  <2>1. ASSUME NEW c \in Callers, NEW k \in Keys, NEW p \in Payloads, Dispatch(c, k, p)
        PROVE  LocksAreAtWork'
    <3>1. /\ caller[c].at = "idle" /\ UNCHANGED <<keyLock, ownerLock, drainer>>
          /\ \A e \in Callers : e # c => caller'[e] = caller[e]
      BY <2>1 DEF Dispatch, NoCall, TypeOK
    <3>2. \A l \in Keys : keyLock[l] # c
      BY <1>2, <3>1 DEF LocksAreAtWork
    <3>3. \A o \in Owners : ownerLock[o] # c
      BY <1>2, <3>1 DEF LocksAreAtWork
    <3>. QED  BY <1>2, <3>1, <3>2, <3>3, CallLocks
  <2>2. CASE UNCHANGED vars
    BY <1>2, <2>2 DEF vars, LocksAreAtWork
  <2>3. Ticker \in Drainers
    BY DEF Drainers
  <2>. QED  BY <1>2, <2>1, <2>2, <2>3, AdmissionLocks, DrainLocks DEF Next
<1>3. InboxInv /\ LocksAreAtWork /\ [Next]_vars => LocksAreAtWork'
  BY <1>2 DEF InboxInv
<1>. QED  BY <1>1, <1>3, InboxInvAlways, PTL DEF Spec

=============================================================================
