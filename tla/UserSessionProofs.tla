------------------------- MODULE UserSessionProofs -------------------------
(***************************************************************************)
(* Theorems about UserSession, for any number of connections, handlers,    *)
(* requests and matches: whose session a connection ends, whose entry the  *)
(* registry holds, and what an undisturbed request comes to.               *)
(*                                                                         *)
(* That a request is honoured is not inductive: between the request and    *)
(* its end the handler moves from activity to activity, and the invariant  *)
(* says what it has written at each, and that as long as the request is    *)
(* not disturbed nobody else is at work on the player but sessions that    *)
(* only ask for his row.                                                   *)
(***************************************************************************)
EXTENDS UserSession, SequenceTheorems, TLAPS

\* The handlers at work, in no order.
Works == ToSet(handlers)

\* Handlers that only ask for the player's row, those of a request to queue, and
\* those of a request to cancel.
Asking   == {"sync_run", "run_row", "run_none"}
Entering == {"set_queueing", "enter_queue", "heartbeat", "entered"}
Leaving  == {"sync_unqueue", "unqueue_row", "unqueue_none", "leave_queue", "left",
             "set_in_menus"}

\* A session is told that its connection has ended only once it has.
OwnSession ==
  \A s \in Connections :
    /\ socket[s] \in {"new", "started", "open"} => ~left[s] /\ run[s] # "ended"
    /\ socket[s] = "new" => run[s] = "none"

\* Nobody is at work on the player, and no session of a handler can end.
Undisturbed ==
  /\ \A s \in Connections : socket[s] \in {"new", "started", "open", "gone"}
  /\ sweep = "idle" /\ matches = 0 /\ due = {}
  /\ \A h \in Works :
       h.at \in Asking \/ (run[h.of] = "running" /\ socket[h.of] = "open")

\* What the handlers of a request have written by the stage they are at.
QueueDone(h) ==
  /\ h.at \in Asking \cup Entering
  /\ h.at \in {"enter_queue", "heartbeat", "entered"} => pstate = "Queueing"
  /\ h.at \in {"heartbeat", "entered"} => row
LeaveDone(h) ==
  /\ h.at \in Asking \cup Leaving
  /\ h.at \in {"unqueue_none", "left", "set_in_menus"} => ~row

AllAsking == \A h \in Works : h.at \in Asking

QueueOnItsWay ==
  /\ \A h \in Works : QueueDone(h)
  /\ AllAsking => row /\ pstate = "Queueing"
LeaveOnItsWay ==
  /\ \A h \in Works : LeaveDone(h)
  /\ AllAsking => ~row

OnItsWay ==
  /\ asked # "nothing" => Undisturbed
  /\ asked = "queue" => QueueOnItsWay
  /\ asked = "unqueue" => LeaveOnItsWay

SessionInv == TypeOK /\ OwnSession /\ EntryIsAlive /\ OnItsWay

-----------------------------------------------------------------------------
(* Sequences, by the set of their elements. *)

LEMMA Elements ==
  ASSUME NEW S, NEW q \in Seq(S)
  PROVE  /\ ToSet(q) = {q[i] : i \in 1 .. Len(q)} /\ ToSet(q) \subseteq S
         /\ Len(q) \in Nat
BY DEF ToSet

LEMMA AppendElements ==
  ASSUME NEW S, NEW q \in Seq(S), NEW e \in S
  PROVE  /\ Append(q, e) \in Seq(S) /\ Len(Append(q, e)) = Len(q) + 1
         /\ ToSet(Append(q, e)) = ToSet(q) \cup {e}
<1>1. /\ Append(q, e) \in Seq(S) /\ Len(Append(q, e)) = Len(q) + 1
      /\ \A i \in 1 .. Len(q) : Append(q, e)[i] = q[i]
      /\ Append(q, e)[Len(q) + 1] = e
  OBVIOUS
<1>2. ToSet(Append(q, e)) = {Append(q, e)[i] : i \in 1 .. Len(q) + 1}
  BY <1>1, Elements
<1>3. ToSet(q) = {q[i] : i \in 1 .. Len(q)} /\ Len(q) \in Nat
  BY Elements
<1>4. \A i \in 1 .. Len(q) + 1 : i \in 1 .. Len(q) \/ i = Len(q) + 1
  BY <1>3
<1>5. \A i \in 1 .. Len(q) : i \in 1 .. Len(q) + 1
  BY <1>3
<1>6. Len(q) + 1 \in 1 .. Len(q) + 1
  BY <1>3
<1>7. ToSet(Append(q, e)) \subseteq ToSet(q) \cup {e}
  BY <1>1, <1>2, <1>3, <1>4
<1>8. ToSet(q) \cup {e} \subseteq ToSet(Append(q, e))
  BY <1>1, <1>2, <1>3, <1>5, <1>6
<1>. QED  BY <1>1, <1>7, <1>8

LEMMA ReplaceElements ==
  ASSUME NEW S, NEW q \in Seq(S), NEW i \in 1 .. Len(q), NEW e \in S,
         NEW r \in Seq(S), Len(r) = Len(q),
         \A j \in 1 .. Len(q) : r[j] = IF j = i THEN e ELSE q[j]
  PROVE  /\ e \in ToSet(r) /\ ToSet(r) \subseteq ToSet(q) \cup {e}
         /\ ToSet(q) \subseteq ToSet(r) \cup {q[i]}
<1>1. /\ ToSet(r) = {r[j] : j \in 1 .. Len(q)}
      /\ ToSet(q) = {q[j] : j \in 1 .. Len(q)}
  BY Elements
<1>. QED  BY <1>1

LEMMA RemoveElements ==
  ASSUME NEW S, NEW q \in Seq(S), NEW i \in 1 .. Len(q)
  PROVE  /\ RemoveAt(q, i) \in Seq(S) /\ Len(RemoveAt(q, i)) = Len(q) - 1
         /\ ToSet(RemoveAt(q, i)) \subseteq ToSet(q)
         /\ ToSet(q) \subseteq ToSet(RemoveAt(q, i)) \cup {q[i]}
<1>. DEFINE l == SubSeq(q, 1, i - 1)
            r == SubSeq(q, i + 1, Len(q))
<1>0. Len(q) \in Nat /\ i \in Int /\ \A j \in 1 .. Len(q) : q[j] \in S
  OBVIOUS
<1>1. /\ l \in Seq(S) /\ Len(l) = i - 1
      /\ \A j \in 1 .. i - 1 : l[j] = q[j]
  BY <1>0, SubSeqProperties
<1>2. /\ r \in Seq(S) /\ Len(r) = Len(q) - i
      /\ \A j \in 1 .. Len(q) - i : r[j] = q[j + i]
  BY <1>0, SubSeqProperties
<1>. HIDE DEF l, r
<1>3. /\ l \o r \in Seq(S) /\ Len(l \o r) = Len(q) - 1
      /\ \A j \in 1 .. Len(q) - 1 : (l \o r)[j] = IF j < i THEN q[j] ELSE q[j + 1]
  <2>1. /\ l \o r \in Seq(S) /\ Len(l \o r) = Len(q) - 1
        /\ \A j \in 1 .. Len(q) - 1 : (l \o r)[j] = IF j <= i - 1 THEN l[j] ELSE r[j - (i - 1)]
    BY <1>0, <1>1, <1>2, ConcatProperties
  <2>2. \A j \in 1 .. Len(q) - 1 : j <= i - 1 => l[j] = q[j] /\ j < i
    BY <1>0, <1>1
  <2>3. \A j \in 1 .. Len(q) - 1 : ~(j <= i - 1) => r[j - (i - 1)] = q[j + 1] /\ ~(j < i)
    BY <1>0, <1>2
  <2>. QED  BY <2>1, <2>2, <2>3
<1>4. /\ ToSet(l \o r) = {(l \o r)[j] : j \in 1 .. Len(q) - 1}
      /\ ToSet(q) = {q[j] : j \in 1 .. Len(q)}
  BY <1>3, Elements
<1>5. ToSet(l \o r) \subseteq ToSet(q)
  BY <1>0, <1>3, <1>4
<1>6. ToSet(q) \subseteq ToSet(l \o r) \cup {q[i]}
  <2>1. \A j \in 1 .. Len(q) : j = i \/ (j < i /\ j \in 1 .. Len(q) - 1)
                                      \/ (j - 1 \in 1 .. Len(q) - 1 /\ ~(j - 1 < i) /\ (j - 1) + 1 = j)
    BY <1>0
  <2>2. \A j \in 1 .. Len(q) : j = i \/ \E k \in 1 .. Len(q) - 1 : (l \o r)[k] = q[j]
    BY <1>3, <2>1
  <2>. QED  BY <1>4, <2>2
<1>. QED  BY <1>3, <1>5, <1>6 DEF RemoveAt, l, r

-----------------------------------------------------------------------------
(* Handlers: how each step changes the set of those at work. *)

HandlersOK == handlers \in Seq(Handlers) /\ Len(handlers) <= MaxHandlers

LEMMA WorksOK ==
  ASSUME TypeOK
  PROVE  /\ HandlersOK /\ MaxHandlers \in Nat /\ Len(handlers) \in Nat
         /\ Works \subseteq Handlers
         /\ \A i \in At : i <= Len(handlers) => /\ i \in 1 .. Len(handlers)
                                               /\ handlers[i] \in Works
                                               /\ handlers[i] \in Handlers
<1>1. HandlersOK /\ MaxHandlers \in Nat
  BY BoundsAssumption DEF TypeOK, HandlersOK
<1>2. /\ Works = {handlers[i] : i \in 1 .. Len(handlers)} /\ Works \subseteq Handlers
      /\ Len(handlers) \in Nat
  BY <1>1, Elements DEF HandlersOK, Works
<1>3. \A i \in At : i <= Len(handlers) => i \in 1 .. Len(handlers)
  BY <1>1, <1>2 DEF At
<1>. QED  BY <1>1, <1>2, <1>3

LEMMA BeginWorks ==
  ASSUME TypeOK, NEW s \in Connections, NEW a \in Activities, Begin(s, a)
  PROVE  HandlersOK' /\ Works' = Works \cup {[of |-> s, at |-> a]}
<1>1. [of |-> s, at |-> a] \in Handlers
  BY DEF Handlers
<1>. QED  BY <1>1, WorksOK, AppendElements DEF Begin, HandlersOK, Works

LEMMA GoOnWorks ==
  ASSUME TypeOK, NEW i \in At, i <= Len(handlers), NEW a \in Activities \cup Answers, GoOn(i, a)
  PROVE  LET new == [of |-> handlers[i].of, at |-> a]
         IN  /\ HandlersOK'
             /\ new \in Works' /\ Works' \subseteq Works \cup {new}
             /\ Works \subseteq Works' \cup {handlers[i]}
<1>. DEFINE new == [of |-> handlers[i].of, at |-> a]
<1>1. i \in 1 .. Len(handlers) /\ handlers \in Seq(Handlers) /\ handlers[i] \in Handlers
  BY WorksOK DEF HandlersOK
<1>2. new \in Handlers /\ [handlers[i] EXCEPT !.at = a] = new
  BY <1>1 DEF Handlers
<1>3. handlers' = [handlers EXCEPT ![i] = new]
  BY <1>1, <1>2 DEF GoOn
<1>. HIDE DEF new
<1>4. /\ handlers' \in Seq(Handlers) /\ Len(handlers') = Len(handlers)
      /\ \A j \in 1 .. Len(handlers) : handlers'[j] = IF j = i THEN new ELSE handlers[j]
  BY <1>1, <1>2, <1>3, ExceptSeq
<1>5. /\ new \in Works' /\ Works' \subseteq Works \cup {new}
      /\ Works \subseteq Works' \cup {handlers[i]}
  BY <1>1, <1>2, <1>4, ReplaceElements DEF Works
<1>6. HandlersOK'
  BY <1>4, WorksOK DEF HandlersOK
<1>. QED  BY <1>5, <1>6 DEF new

LEMMA FinishWorks ==
  ASSUME TypeOK, NEW i \in At, i <= Len(handlers), Finish(i)
  PROVE  HandlersOK' /\ Works' \subseteq Works /\ Works \subseteq Works' \cup {handlers[i]}
<1>1. i \in 1 .. Len(handlers) /\ handlers \in Seq(Handlers)
  BY WorksOK DEF HandlersOK
<1>. QED  BY <1>1, RemoveElements, WorksOK DEF Finish, HandlersOK, Works


\* What a signal's handler changes, up to the first activity it waits for.
LEMMA HandleChanges ==
  ASSUME TypeOK, NEW s, NEW signal, Handle(s, signal)
  PROVE  /\ HandlersOK' /\ queued' \in [Connections -> BOOLEAN]
         /\ s \in Connections /\ run[s] = "running"
         /\ \/ Works' = Works
            \/ \E a \in Activities : Works' = Works \cup {[of |-> s, at |-> a]}
         /\ left' = IF signal = "disconnect" THEN [left EXCEPT ![s] = TRUE] ELSE left
<1>. DEFINE Begun == \E a \in Activities : Begin(s, a)
<1>1. s \in Connections /\ run[s] = "running"
  BY DEF Handle
<1>2. /\ handlers' = handlers \/ Begun
      /\ queued' = queued \/ queued' = [queued EXCEPT ![s] = FALSE]
      /\ left' = IF signal = "disconnect" THEN [left EXCEPT ![s] = TRUE] ELSE left
  BY <1>1 DEF Handle, Queue, Unqueue, MatchFound, MatchComplete, SetDisconnected, QueueExpired,
              Activities
<1>3. queued' \in [Connections -> BOOLEAN]
  BY <1>1, <1>2 DEF TypeOK
<1>4. CASE handlers' = handlers
  BY <1>1, <1>2, <1>3, <1>4 DEF Works, HandlersOK, TypeOK
<1>5. CASE Begun
  BY <1>1, <1>2, <1>3, <1>5, BeginWorks
<1>. QED  BY <1>2, <1>4, <1>5

\* The same of a signal that may be lost.
LEMMA SendChanges ==
  ASSUME TypeOK, NEW s, NEW signal, Send(s, signal)
  PROVE  /\ HandlersOK' /\ queued' \in [Connections -> BOOLEAN] /\ left' \in [Connections -> BOOLEAN]
         /\ \/ left' = left
            \/ signal = "disconnect" /\ s \in Connections /\ left' = [left EXCEPT ![s] = TRUE]
<1>1. CASE Handle(s, signal)
  BY <1>1, HandleChanges DEF TypeOK
<1>2. CASE Lose
  BY <1>2 DEF Lose, TypeOK, HandlersOK
<1>. QED  BY <1>1, <1>2 DEF Send

-----------------------------------------------------------------------------
(* Type correctness. *)

LEMMA InitInv == Init => SessionInv
<1>. SUFFICES ASSUME Init  PROVE SessionInv
  OBVIOUS
<1>1. Works = {} /\ handlers \in Seq(Handlers) /\ Len(handlers) = 0
  BY DEF Init, Works, ToSet
<1>2. TypeOK
  <2>1. /\ row \in BOOLEAN /\ fresh \in BOOLEAN /\ pstate \in {"InMenus", "Queueing", "InMatch"}
        /\ sweep \in {"idle", "reset", "notify"} /\ matches \in Nat /\ requests \in Nat
        /\ due \subseteq {"match_found", "match_complete"} /\ asked \in {"nothing", "queue", "unqueue"}
    BY DEF Init
  <2>2. /\ socket \in [Connections -> SocketStages] /\ current \in Connections \cup {NoConnection}
        /\ run \in [Connections -> {"none", "running", "ended"}]
        /\ queued \in [Connections -> BOOLEAN] /\ left \in [Connections -> BOOLEAN]
    BY DEF Init, SocketStages
  <2>3. Len(handlers) <= MaxHandlers
    BY <1>1, BoundsAssumption
  <2>. QED  BY <1>1, <2>1, <2>2, <2>3 DEF TypeOK
<1>3. OwnSession /\ EntryIsAlive /\ OnItsWay
  BY DEF Init, OwnSession, EntryIsAlive, OnItsWay, SocketStages
<1>. QED  BY <1>2, <1>3 DEF SessionInv

LEMMA WriteType ==
  ASSUME TypeOK, NEW op, Write(op)
  PROVE  row' \in BOOLEAN /\ fresh' \in BOOLEAN /\ pstate' \in {"InMenus", "Queueing", "InMatch"}
BY DEF TypeOK, Write

LEMMA StepType ==
  ASSUME TypeOK, [Next]_vars
  PROVE  TypeOK'
<1>. USE DEF TypeOK, playerVars, gatewayVars, sessionVars, matchVars, requestVars
<1>1. ASSUME NEW i \in At, RunActivity(i)  PROVE TypeOK'
  <2>1. i <= Len(handlers) /\ handlers[i] \in Handlers
    BY <1>1, WorksOK DEF RunActivity
  <2>2. HandlersOK'
    <3>1. CASE Finish(i)
      BY <2>1, <3>1, FinishWorks
    <3>2. CASE GoOn(i, Answer(handlers[i].at))
      BY <2>1, <3>2, GoOnWorks DEF Answer, Answers, Activities
    <3>. QED  BY <1>1, <3>1, <3>2 DEF RunActivity
  <2>. QED  BY <1>1, <2>2, WriteType DEF RunActivity, HandlersOK
<1>2. ASSUME NEW i \in At, LoseAnswer(i)  PROVE TypeOK'
  <2>1. HandlersOK'
    BY <1>2, GoOnWorks DEF LoseAnswer, Activities, HandlersOK
  <2>. QED  BY <1>2, <2>1, WriteType DEF LoseAnswer, Disturb, HandlersOK
<1>3. ASSUME NEW i \in At, Resume(i)  PROVE TypeOK'
  <2>1. i <= Len(handlers) /\ handlers[i] \in Handlers
    BY <1>3, WorksOK DEF Resume
  <2>2. HandlersOK'
    BY <1>3, <2>1, FinishWorks, GoOnWorks DEF Resume, Activities
  <2>3. queued' \in [Connections -> BOOLEAN]
    BY <1>3, <2>1 DEF Resume, Handlers
  <2>. QED  BY <1>3, <2>2, <2>3 DEF Resume, HandlersOK
<1>4. ASSUME NEW i \in At, Drop(i)  PROVE TypeOK'
  BY <1>4, FinishWorks DEF Drop, HandlersOK
<1>5. ASSUME NEW s \in Connections, EndRun(s)  PROVE TypeOK'
  BY <1>5 DEF EndRun
<1>6. ASSUME NEW s \in Connections, Connect(s)  PROVE TypeOK'
  <2>1. HandlersOK'
    BY <1>6, BeginWorks DEF Connect, Activities, HandlersOK
  <2>. QED  BY <1>6, <2>1 DEF Connect, MoveTo, SocketStages, HandlersOK
<1>7. ASSUME NEW s \in Connections, Register(s) \/ Heartbeat(s)  PROVE TypeOK'
  BY <1>7 DEF Register, Heartbeat, MoveTo, SocketStages
<1>8. ASSUME NEW s \in Connections, NEW request \in {"queue", "unqueue"}, Request(s, request)
      PROVE  TypeOK'
  <2>1. HandlersOK' /\ queued' \in [Connections -> BOOLEAN] /\ left' = left
    BY <1>8, HandleChanges DEF Request, Lose, HandlersOK
  <2>2. asked' \in {"nothing", "queue", "unqueue"}
    BY <1>8 DEF Request, Recorded
  <2>. QED  BY <1>8, <2>1, <2>2 DEF Request, HandlersOK
<1>9. ASSUME NEW s \in Connections, Close(s)  PROVE TypeOK'
  BY <1>9, SendChanges DEF Close, Disturb, MoveTo, SocketStages, HandlersOK
<1>10. ASSUME NEW s \in Connections, LeaveMenus(s)  PROVE TypeOK'
  BY <1>10 DEF LeaveMenus, MoveTo, SocketStages
<1>11. ASSUME NEW s \in Connections, RemoveEntry(s)  PROVE TypeOK'
  BY <1>11 DEF RemoveEntry, MoveTo, SocketStages
<1>12. CASE Crash
  <2>. DEFINE entry(i) == IF handlers[i].at = "heartbeat"
                          THEN [handlers[i] EXCEPT !.at = "enter_queue"] ELSE handlers[i]
  <2>1. handlers \in Seq(Handlers) /\ DOMAIN handlers = 1 .. Len(handlers) /\ Len(handlers) \in Nat
    OBVIOUS
  <2>2. ASSUME NEW i \in 1 .. Len(handlers)  PROVE entry(i) \in Handlers
    <3>1. handlers[i] \in Handlers
      BY <2>1
    <3>. QED  BY <3>1 DEF Handlers, Activities
  <2>3. handlers' = [i \in 1 .. Len(handlers) |-> entry(i)]
    BY <1>12, <2>1 DEF Crash
  <2>. HIDE DEF entry
  <2>4. handlers' \in Seq(Handlers) /\ Len(handlers') = Len(handlers)
    BY <2>1, <2>2, <2>3
  <2>. QED  BY <1>12, <2>4 DEF Crash, Disturb, SocketStages
<1>13. CASE Silence \/ SweepDelete \/ SweepReset
  BY <1>13 DEF Silence, SweepDelete, SweepReset, Disturb
<1>14. CASE SweepNotify
  <2>1. HandlersOK' /\ queued' \in [Connections -> BOOLEAN] /\ left' \in [Connections -> BOOLEAN]
    BY <1>14, SendChanges DEF SweepNotify
  <2>. QED  BY <1>14, <2>1 DEF SweepNotify, HandlersOK
<1>15. CASE Pair \/ EndMatch
  <2>1. matches' \in Nat
    BY <1>15 DEF Pair, EndMatch
  <2>2. due' \subseteq {"match_found", "match_complete"}
    BY <1>15 DEF Pair, EndMatch
  <2>3. CASE Pair
    BY <2>1, <2>2, <2>3 DEF Pair, Disturb
  <2>4. CASE EndMatch
    BY <2>1, <2>2, <2>4 DEF EndMatch
  <2>. QED  BY <1>15, <2>3, <2>4
<1>16. ASSUME NEW signal \in Signals, Notify(signal)  PROVE TypeOK'
  <2>1. HandlersOK' /\ queued' \in [Connections -> BOOLEAN] /\ left' \in [Connections -> BOOLEAN]
    BY <1>16, SendChanges DEF Notify
  <2>2. due' \subseteq {"match_found", "match_complete"}
    BY <1>16 DEF Notify
  <2>. QED  BY <1>16, <2>1, <2>2 DEF Notify, HandlersOK
<1>17. CASE UNCHANGED vars
  BY <1>17 DEF vars
<1>. QED  BY <1>1, <1>2, <1>3, <1>4, <1>5, <1>6, <1>7, <1>8, <1>9, <1>10, <1>11, <1>12, <1>13,
             <1>14, <1>15, <1>16, <1>17
          DEF Next, Client, EndSocket, EndOfConnection, Expire

\* Every variable keeps the type that UserSession declares for it.
THEOREM SessionTypeCorrect == Spec => []TypeOK
<1>1. Init => TypeOK
  BY InitInv DEF SessionInv
<1>2. TypeOK /\ [Next]_vars => TypeOK'
  BY StepType
<1>. QED  BY <1>1, <1>2, PTL DEF Spec

-----------------------------------------------------------------------------
(* Whose session a connection ends, and whose entry the registry holds. *)

LEMMA StepOwnSession ==
  ASSUME TypeOK, OwnSession, [Next]_vars
  PROVE  OwnSession'
<1>. USE DEF OwnSession, playerVars, gatewayVars, sessionVars, matchVars, requestVars
<1>0. /\ socket \in [Connections -> SocketStages]
      /\ run \in [Connections -> {"none", "running", "ended"}]
      /\ left \in [Connections -> BOOLEAN]
      /\ due \subseteq {"match_found", "match_complete"}
  BY DEF TypeOK
<1>. DEFINE Same == socket' = socket /\ run' = run /\ left' = left
<1>1. CASE Same
  BY <1>1
<1>2. ASSUME NEW i \in At, RunActivity(i) \/ LoseAnswer(i) \/ Resume(i) \/ Drop(i)  PROVE Same
  BY <1>2 DEF RunActivity, LoseAnswer, Resume, Drop
<1>3. ASSUME NEW s \in Connections, EndOfConnection(s) \/ Expire(s)  PROVE OwnSession'
  BY <1>0, <1>3 DEF EndOfConnection, Expire, EndRun
<1>4. ASSUME NEW s \in Connections, Connect(s)  PROVE OwnSession'
  BY <1>0, <1>4 DEF Connect, MoveTo
<1>5. ASSUME NEW s \in Connections, Register(s)  PROVE OwnSession'
  BY <1>0, <1>5 DEF Register, MoveTo
<1>6. ASSUME NEW s \in Connections, Heartbeat(s)  PROVE Same
  BY <1>6 DEF Heartbeat
<1>7. ASSUME NEW s \in Connections, NEW request \in {"queue", "unqueue"}, Request(s, request)
      PROVE  Same
  BY <1>7, HandleChanges DEF Request, Lose
<1>8. ASSUME NEW s \in Connections, Close(s)  PROVE OwnSession'
  <2>1. left' = left \/ left' = [left EXCEPT ![s] = TRUE]
    BY <1>8, SendChanges DEF Close
  <2>2. /\ run' = run /\ socket[s] = "open"
        /\ \A c \in Connections : socket'[c] = IF c # s THEN socket[c]
                                  ELSE IF current = s THEN "counting" ELSE "gone"
    BY <1>0, <1>8 DEF Close, MoveTo
  <2>. QED  BY <1>0, <2>1, <2>2
<1>9. ASSUME NEW s \in Connections, LeaveMenus(s) \/ RemoveEntry(s)  PROVE OwnSession'
  BY <1>0, <1>9 DEF LeaveMenus, RemoveEntry, MoveTo
<1>10. CASE Crash
  BY <1>0, <1>10 DEF Crash
<1>11. CASE Silence \/ SweepDelete \/ SweepReset \/ Pair \/ EndMatch
  BY <1>1, <1>11 DEF Silence, SweepDelete, SweepReset, Pair, EndMatch
<1>12. CASE SweepNotify
  BY <1>1, <1>12, SendChanges DEF SweepNotify
<1>13. ASSUME NEW signal \in Signals, Notify(signal)  PROVE Same
  BY <1>0, <1>13, SendChanges DEF Notify
<1>14. CASE UNCHANGED vars
  BY <1>14 DEF vars
<1>. HIDE DEF OwnSession
<1>. QED  BY <1>1, <1>2, <1>3, <1>4, <1>5, <1>6, <1>7, <1>8, <1>9, <1>10, <1>11, <1>12, <1>13, <1>14
          DEF Next, Client, EndSocket

LEMMA StepEntryIsAlive ==
  ASSUME TypeOK, EntryIsAlive, [Next]_vars
  PROVE  EntryIsAlive'
<1>. USE DEF EntryIsAlive, playerVars, gatewayVars, sessionVars, matchVars, requestVars
<1>0. /\ socket \in [Connections -> SocketStages]
      /\ current \in Connections \cup {NoConnection} /\ NoConnection \notin Connections
  BY NoConnectionAssumption DEF TypeOK
<1>1. CASE gatewayVars' = gatewayVars
  BY <1>1
<1>2. ASSUME NEW i \in At, RunActivity(i) \/ LoseAnswer(i) \/ Resume(i) \/ Drop(i)
      PROVE  gatewayVars' = gatewayVars
  BY <1>2 DEF RunActivity, LoseAnswer, Resume, Drop
<1>3. ASSUME NEW s \in Connections, EndOfConnection(s) \/ Expire(s) \/ Heartbeat(s)
      PROVE  gatewayVars' = gatewayVars
  BY <1>3 DEF EndOfConnection, Expire, EndRun, Heartbeat
<1>4. ASSUME NEW s \in Connections, NEW request \in {"queue", "unqueue"}, Request(s, request)
      PROVE  gatewayVars' = gatewayVars
  BY <1>4 DEF Request
<1>5. ASSUME NEW s \in Connections, Connect(s) \/ Register(s)  PROVE EntryIsAlive'
  BY <1>0, <1>5 DEF Connect, Register, MoveTo
<1>6. ASSUME NEW s \in Connections, Close(s)  PROVE EntryIsAlive'
  BY <1>0, <1>6 DEF Close, MoveTo
<1>7. ASSUME NEW s \in Connections, LeaveMenus(s)  PROVE EntryIsAlive'
  BY <1>0, <1>7 DEF LeaveMenus, MoveTo
<1>8. ASSUME NEW s \in Connections, RemoveEntry(s)  PROVE EntryIsAlive'
  BY <1>8 DEF RemoveEntry
<1>9. CASE Crash
  BY <1>9 DEF Crash
<1>10. CASE Silence \/ SweepDelete \/ SweepReset \/ SweepNotify \/ Pair \/ EndMatch
  BY <1>1, <1>10 DEF Silence, SweepDelete, SweepReset, SweepNotify, Pair, EndMatch
<1>11. ASSUME NEW signal \in Signals, Notify(signal)  PROVE gatewayVars' = gatewayVars
  BY <1>11 DEF Notify
<1>12. CASE UNCHANGED vars
  BY <1>1, <1>12 DEF vars
<1>. HIDE DEF EntryIsAlive, gatewayVars
<1>. QED  BY <1>1, <1>2, <1>3, <1>4, <1>5, <1>6, <1>7, <1>8, <1>9, <1>10, <1>11, <1>12
          DEF Next, Client, EndSocket

\* A session is ended by no connection but its own: neither the connection a
\* newer one replaced nor a signal addressed to the player's present session
\* makes it end while its socket is open.
THEOREM OwnSessionCorrect == Spec => []EndsItsOwnSession
<1>1. Init => TypeOK /\ OwnSession
  BY InitInv DEF SessionInv
<1>2. TypeOK /\ OwnSession /\ [Next]_vars => (TypeOK /\ OwnSession)'
  BY StepType, StepOwnSession
<1>3. TypeOK /\ OwnSession => EndsItsOwnSession
  BY DEF OwnSession, EndsItsOwnSession, TypeOK, SocketStages
<1>. QED  BY <1>1, <1>2, <1>3, PTL DEF Spec

\* The registry never names a socket that has ended, although the end of a
\* socket removes the player's entry without looking whose it is.
THEOREM EntryCorrect == Spec => []EntryIsAlive
<1>1. Init => TypeOK /\ EntryIsAlive
  BY InitInv DEF SessionInv
<1>2. TypeOK /\ EntryIsAlive /\ [Next]_vars => (TypeOK /\ EntryIsAlive)'
  BY StepType, StepEntryIsAlive
<1>. QED  BY <1>1, <1>2, PTL DEF Spec

-----------------------------------------------------------------------------
(* What an undisturbed request comes to. *)

\* A handler that goes on or ends leaves a request undisturbed.
LEMMA StaysUndisturbed ==
  ASSUME TypeOK, Undisturbed, NEW i \in At, i <= Len(handlers),
         \/ Finish(i)
         \/ \E a \in Activities \cup Answers :
              GoOn(i, a) /\ (handlers[i].at \in Asking => a \in Asking),
         UNCHANGED <<socket, run, sweep, matchVars>>
  PROVE  Undisturbed'
<1>1. handlers[i] \in Works /\ handlers[i] \in Handlers
  BY WorksOK
<1>2. \A h \in Works' : h.at \in Asking \/ (run[h.of] = "running" /\ socket[h.of] = "open")
  <2>1. CASE Finish(i)
    BY <2>1, FinishWorks DEF Undisturbed
  <2>2. ASSUME NEW a \in Activities \cup Answers, GoOn(i, a), handlers[i].at \in Asking => a \in Asking
        PROVE  <1>2
    <3>1. Works' \subseteq Works \cup {[of |-> handlers[i].of, at |-> a]}
      BY <2>2, GoOnWorks
    <3>. QED  BY <1>1, <2>2, <3>1 DEF Undisturbed
  <2>. QED  BY <2>1, <2>2
<1>. QED  BY <1>2 DEF Undisturbed, matchVars

LEMMA RunActivityOnItsWay ==
  ASSUME TypeOK, OnItsWay, NEW i \in At, RunActivity(i)
  PROVE  OnItsWay'
<1>0. PICK h : h = handlers[i]
  OBVIOUS
<1>. PICK next : next = [of |-> h.of, at |-> Answer(h.at)]
  OBVIOUS
<1>1. /\ i <= Len(handlers) /\ h \in Works /\ h \in Handlers /\ h.at \in Activities /\ Write(h.at)
      /\ UNCHANGED <<socket, run, sweep, matchVars, asked>>
  BY <1>0, WorksOK DEF RunActivity, gatewayVars, sessionVars, requestVars
<1>2. CASE asked = "nothing"
  BY <1>1, <1>2 DEF OnItsWay
<1>3. CASE asked # "nothing"
  <2>1. /\ Undisturbed /\ Answer(h.at) \in Activities \cup Answers
        /\ h.at \in Asking => Answer(h.at) \in Asking /\ row' = row /\ pstate' = pstate
    BY <1>1, <1>3 DEF OnItsWay, Answer, Activities, Answers, Asking, Write
  <2>2. \/ /\ Finish(i) /\ Works' \subseteq Works /\ Works \subseteq Works' \cup {h}
           /\ h.at \in Asking \cup {"set_in_menus", "set_complete"}
        \/ /\ GoOn(i, Answer(h.at)) /\ next \in Works' /\ Works' \subseteq Works \cup {next}
           /\ Works \subseteq Works' \cup {h} /\ h.at \notin {"set_in_menus", "set_complete"}
    <3>1. CASE Finish(i) /\ h.at \in Asking \cup {"set_in_menus", "set_complete"}
      BY <1>0, <1>1, <3>1, FinishWorks
    <3>2. CASE GoOn(i, Answer(h.at)) /\ h.at \notin {"set_in_menus", "set_complete"}
      BY <1>0, <1>1, <2>1, <3>2, GoOnWorks
    <3>. QED  BY <1>0, <1>1, <2>1, <3>1, <3>2 DEF RunActivity, Undisturbed
  <2>3. Undisturbed'
    BY <1>0, <1>1, <2>1, <2>2, StaysUndisturbed
  <2>4. ASSUME asked = "queue"  PROVE QueueOnItsWay'
    <3>1. /\ \A k \in Works : QueueDone(k)
          /\ AllAsking => row /\ pstate = "Queueing"
      BY <2>4 DEF OnItsWay, QueueOnItsWay
    <3>2. h.at \in {"sync_run", "set_queueing", "enter_queue", "heartbeat"} /\ QueueDone(h)
      BY <1>1, <3>1 DEF QueueDone, Asking, Entering, Activities
    <3>3. /\ (row => row') /\ (pstate = "Queueing" => pstate' = "Queueing")
          /\ QueueDone(next)'
      BY <1>1, <3>2 DEF QueueDone, Write, Answer, Asking, Entering
    <3>4. \A k \in Works' : QueueDone(k)'
      BY <2>2, <3>1, <3>3 DEF QueueDone
    <3>5. AllAsking' => row' /\ pstate' = "Queueing"
      <4>1. CASE h.at \in Asking
        BY <2>2, <3>1, <3>3, <4>1 DEF AllAsking
      <4>2. CASE h.at \notin Asking
        BY <2>2, <3>2, <4>2 DEF AllAsking, Answer, Asking
      <4>. QED  BY <4>1, <4>2
    <3>. QED  BY <3>4, <3>5 DEF QueueOnItsWay
  <2>5. ASSUME asked = "unqueue"  PROVE LeaveOnItsWay'
    <3>1. /\ \A k \in Works : LeaveDone(k)
          /\ AllAsking => ~row
      BY <2>5 DEF OnItsWay, LeaveOnItsWay
    <3>2. h.at \in {"sync_run", "sync_unqueue", "leave_queue", "set_in_menus"} /\ LeaveDone(h)
      BY <1>1, <3>1 DEF LeaveDone, Asking, Leaving, Activities
    <3>3. /\ ~row => ~row'
          /\ h.at # "set_in_menus" => LeaveDone(next)'
      BY <1>1, <3>2 DEF LeaveDone, Write, Answer, Asking, Leaving
    <3>4. \A k \in Works' : LeaveDone(k)'
      BY <2>2, <3>1, <3>3 DEF LeaveDone
    <3>5. AllAsking' => ~row'
      <4>1. CASE h.at \in Asking
        BY <2>2, <3>1, <3>3, <4>1 DEF AllAsking
      <4>2. CASE h.at = "set_in_menus"
        BY <3>2, <3>3, <4>2 DEF LeaveDone
      <4>3. CASE h.at \notin Asking /\ h.at # "set_in_menus"
        BY <2>2, <3>2, <4>3 DEF AllAsking, Answer, Asking
      <4>. QED  BY <4>1, <4>2, <4>3
    <3>. QED  BY <3>4, <3>5 DEF LeaveOnItsWay
  <2>. QED  BY <1>1, <2>3, <2>4, <2>5 DEF OnItsWay
<1>. QED  BY <1>2, <1>3

\* A handler that ends leaves a request on its way, if it only asked for the row
\* or had written what the request is for.
LEMMA FinishOnItsWay ==
  ASSUME TypeOK, OnItsWay, NEW i \in At, i <= Len(handlers), Finish(i),
         UNCHANGED <<row, pstate, socket, run, sweep, matchVars, asked>>,
         handlers[i].at \in Asking \cup {"entered", "unqueue_none", "left"}
  PROVE  OnItsWay'
<1>0. PICK h : h = handlers[i]
  OBVIOUS
<1>1. h \in Works /\ h \in Handlers /\ Works' \subseteq Works /\ Works \subseteq Works' \cup {h}
  BY <1>0, WorksOK, FinishWorks
<1>2. asked # "nothing" => Undisturbed'
  BY StaysUndisturbed DEF OnItsWay
<1>3. ASSUME asked = "queue"  PROVE QueueOnItsWay'
  <2>1. /\ \A k \in Works : QueueDone(k)
        /\ AllAsking => row /\ pstate = "Queueing"
    BY <1>3 DEF OnItsWay, QueueOnItsWay
  <2>2. \A k \in Works' : QueueDone(k)'
    BY <1>1, <2>1 DEF QueueDone
  <2>3. CASE h.at \in Asking
    BY <1>1, <2>1, <2>2, <2>3 DEF QueueOnItsWay, AllAsking
  <2>4. CASE h.at = "entered"
    BY <1>1, <2>1, <2>2, <2>4 DEF QueueOnItsWay, QueueDone
  <2>. QED  BY <1>0, <1>1, <2>1, <2>3, <2>4 DEF QueueDone, Asking, Entering
<1>4. ASSUME asked = "unqueue"  PROVE LeaveOnItsWay'
  <2>1. /\ \A k \in Works : LeaveDone(k)
        /\ AllAsking => ~row
    BY <1>4 DEF OnItsWay, LeaveOnItsWay
  <2>2. \A k \in Works' : LeaveDone(k)'
    BY <1>1, <2>1 DEF LeaveDone
  <2>3. CASE h.at \in Asking
    BY <1>1, <2>1, <2>2, <2>3 DEF LeaveOnItsWay, AllAsking
  <2>4. CASE h.at \in {"unqueue_none", "left"}
    BY <1>1, <2>1, <2>2, <2>4 DEF LeaveOnItsWay, LeaveDone
  <2>. QED  BY <1>0, <1>1, <2>1, <2>3, <2>4 DEF LeaveDone, Asking, Leaving
<1>. QED  BY <1>2, <1>3, <1>4 DEF OnItsWay

LEMMA ResumeOnItsWay ==
  ASSUME TypeOK, OnItsWay, NEW i \in At, Resume(i)
  PROVE  OnItsWay'
<1>0. PICK h : h = handlers[i]
  OBVIOUS
<1>1. /\ i <= Len(handlers) /\ h \in Works /\ h \in Handlers
      /\ UNCHANGED <<row, pstate, socket, run, sweep, matchVars, asked>>
  BY <1>0, WorksOK DEF Resume, playerVars, gatewayVars, requestVars
<1>2. CASE asked = "nothing"
  BY <1>1, <1>2 DEF OnItsWay
<1>3. CASE asked # "nothing" /\ Finish(i) /\ h.at # "unqueue_row"
  <2>1. h.at \in Asking \cup {"entered", "unqueue_none", "left", "in_match"}
    BY <1>0, <1>3 DEF Resume, Asking
  <2>2. h.at # "in_match"
    BY <1>1, <1>3 DEF OnItsWay, QueueOnItsWay, LeaveOnItsWay, QueueDone, LeaveDone,
                              Asking, Entering, Leaving, TypeOK
  <2>. QED  BY <1>0, <1>1, <1>3, <2>1, <2>2, FinishOnItsWay
<1>4. ASSUME asked # "nothing", NEW a \in {"leave_queue", "set_in_menus"}, GoOn(i, a),
             h.at = IF a = "leave_queue" THEN "unqueue_row" ELSE "left"
      PROVE  OnItsWay'
  <2>0. PICK next : next = [of |-> h.of, at |-> a]
    OBVIOUS
  <2>1. /\ next \in Works' /\ Works' \subseteq Works \cup {next}
        /\ a \in Activities \cup Answers /\ h.at \notin Asking /\ a \notin Asking
    BY <1>0, <1>1, <1>4, <2>0, GoOnWorks DEF Activities, Answers, Asking
  <2>2. Undisturbed'
    BY <1>0, <1>1, <1>4, <2>1, StaysUndisturbed DEF OnItsWay
  <2>3. asked = "unqueue"
    BY <1>1, <1>4 DEF OnItsWay, QueueOnItsWay, QueueDone, Asking, Entering, TypeOK
  <2>4. \A k \in Works : LeaveDone(k)
    BY <2>3 DEF OnItsWay, LeaveOnItsWay
  <2>5. \A k \in Works' : LeaveDone(k)'
    BY <1>1, <1>4, <2>0, <2>1, <2>4 DEF LeaveDone, Leaving
  <2>6. ~AllAsking'
    BY <2>0, <2>1 DEF AllAsking
  <2>. QED  BY <1>1, <2>2, <2>3, <2>5, <2>6 DEF OnItsWay, LeaveOnItsWay
<1>. QED  BY <1>0, <1>2, <1>3, <1>4 DEF Resume

LEMMA RequestOnItsWay ==
  ASSUME TypeOK, OnItsWay, NEW s \in Connections, NEW request \in {"queue", "unqueue"},
         Request(s, request)
  PROVE  OnItsWay'
<1>1. CASE asked' = "nothing"
  BY <1>1 DEF OnItsWay
<1>2. CASE asked' # "nothing"
  <2>1. /\ Handle(s, request) /\ asked' = Recorded(s, request) /\ socket[s] = "open"
        /\ run[s] = "running" /\ UNCHANGED <<row, pstate, socket, run, sweep, matchVars>>
    BY <1>2 DEF Request, Handle, playerVars, gatewayVars
  <2>2. /\ \A c \in Connections : socket[c] \in {"new", "started", "open", "gone"}
        /\ sweep = "idle" /\ matches = 0 /\ due = {}
        /\ \A k \in Works : k.at \in Asking
    BY <1>2, <2>1 DEF Recorded, Quiet, QuietBut, Works, Asking
  <2>3. CASE request = "queue"
    <3>1. Works = {} /\ Begin(s, "set_queueing") /\ asked' = "queue"
      BY <1>2, <2>1, <2>3 DEF Recorded, QuietBut, Works, Handle, Queue
    <3>2. Works' = {[of |-> s, at |-> "set_queueing"]}
      BY <3>1, BeginWorks DEF Activities
    <3>. QED  BY <2>1, <2>2, <3>1, <3>2
              DEF OnItsWay, Undisturbed, matchVars, QueueOnItsWay, QueueDone, AllAsking, Asking, Entering
  <2>4. CASE request = "unqueue"
    <3>1. PICK a \in {"leave_queue", "sync_unqueue"} : Begin(s, a) /\ asked' = "unqueue"
      BY <1>2, <2>1, <2>4 DEF Recorded, Handle, Unqueue
    <3>2. PICK new : new = [of |-> s, at |-> a]
      OBVIOUS
    <3>3. Works' = Works \cup {new}
      BY <3>1, <3>2, BeginWorks DEF Activities
    <3>4. Undisturbed'
      BY <2>1, <2>2, <3>2, <3>3 DEF Undisturbed, matchVars
    <3>5. \A k \in Works' : LeaveDone(k)'
      BY <2>2, <3>2, <3>3 DEF LeaveDone, Asking, Leaving
    <3>6. ~AllAsking'
      BY <3>2, <3>3 DEF AllAsking, Asking
    <3>. QED  BY <3>1, <3>4, <3>5, <3>6 DEF OnItsWay, LeaveOnItsWay
  <2>. QED  BY <2>3, <2>4
<1>. QED  BY <1>1, <1>2

LEMMA StepOnItsWay ==
  ASSUME TypeOK, OwnSession, OnItsWay, [Next]_vars
  PROVE  OnItsWay'
<1>. USE DEF playerVars, gatewayVars, sessionVars, matchVars, requestVars
<1>0. /\ socket \in [Connections -> SocketStages]
      /\ run \in [Connections -> {"none", "running", "ended"}]
      /\ Works \subseteq Handlers
  BY WorksOK DEF TypeOK
<1>1. CASE asked' = "nothing"
  BY <1>1 DEF OnItsWay
<1>2. CASE UNCHANGED <<row, pstate, socket, run, handlers, sweep, matchVars, asked>>
  BY <1>2 DEF OnItsWay, Undisturbed, QueueOnItsWay, LeaveOnItsWay, QueueDone, LeaveDone,
              AllAsking, Works
\* Only the sessions' runs and sockets change, and sessions that ask are begun.
<1>3. ASSUME asked # "nothing",
             UNCHANGED <<row, pstate, sweep, matchVars, asked>>,
             \A c \in Connections :
               socket'[c] \in {"new", "started", "open", "gone"},
             \A h \in Works : h.at \in Asking \/ (run'[h.of] = "running" /\ socket'[h.of] = "open"),
             Works \subseteq Works', \A h \in Works' \ Works : h.at \in Asking
      PROVE  OnItsWay'
  <2>1. Undisturbed'
    BY <1>3 DEF OnItsWay, Undisturbed
  <2>2. AllAsking' => AllAsking
    BY <1>3 DEF AllAsking
  <2>3. asked = "queue" => QueueOnItsWay'
    <3>. SUFFICES ASSUME asked = "queue"  PROVE QueueOnItsWay'
      OBVIOUS
    <3>1. QueueOnItsWay
      BY DEF OnItsWay
    <3>2. \A h \in Works' : QueueDone(h)'
      BY <1>3, <3>1 DEF QueueOnItsWay, QueueDone, Asking
    <3>. QED  BY <1>3, <2>2, <3>1, <3>2 DEF QueueOnItsWay
  <2>4. asked = "unqueue" => LeaveOnItsWay'
    <3>. SUFFICES ASSUME asked = "unqueue"  PROVE LeaveOnItsWay'
      OBVIOUS
    <3>1. LeaveOnItsWay
      BY DEF OnItsWay
    <3>2. \A h \in Works' : LeaveDone(h)'
      BY <1>3, <3>1 DEF LeaveOnItsWay, LeaveDone, Asking
    <3>. QED  BY <1>3, <2>2, <3>1, <3>2 DEF LeaveOnItsWay
  <2>. QED  BY <1>3, <2>1, <2>3, <2>4 DEF OnItsWay
<1>4. asked # "nothing" => Undisturbed
  BY DEF OnItsWay
<1>5. ASSUME NEW s \in Connections, Connect(s)  PROVE OnItsWay'
  <2>1. \/ Works' = Works /\ run' = run
        \/ /\ Works' = Works \cup {[of |-> s, at |-> "sync_run"]}
           /\ run' = [run EXCEPT ![s] = "running"]
    BY <1>5, BeginWorks DEF Connect, Works, Activities
  <2>2. socket[s] = "new" /\ socket' = [socket EXCEPT ![s] = "started"]
    BY <1>5 DEF Connect, MoveTo
  <2>3. CASE asked # "nothing"
    <3>1. \A h \in Works : h.at \in Asking \/ (run'[h.of] = "running" /\ socket'[h.of] = "open")
      BY <1>0, <1>4, <2>1, <2>2, <2>3 DEF Undisturbed, Handlers
    <3>2. \A c \in Connections : socket'[c] \in {"new", "started", "open", "gone"}
      BY <1>0, <1>4, <2>2, <2>3 DEF Undisturbed
    <3>3. Works \subseteq Works' /\ \A h \in Works' \ Works : h.at \in Asking
      BY <2>1 DEF Asking
    <3>. QED  BY <1>3, <1>5, <2>3, <3>1, <3>2, <3>3 DEF Connect
  <2>. QED  BY <1>1, <1>5, <2>3 DEF Connect
<1>6. ASSUME NEW s \in Connections, Register(s)  PROVE OnItsWay'
  <2>1. /\ socket' = [socket EXCEPT ![s] = "open"]
        /\ UNCHANGED <<row, pstate, run, handlers, sweep, matchVars, asked>>
    BY <1>6 DEF Register, MoveTo
  <2>2. CASE asked # "nothing"
    <3>1. /\ \A h \in Works : h.at \in Asking \/ (run'[h.of] = "running" /\ socket'[h.of] = "open")
          /\ \A c \in Connections : socket'[c] \in {"new", "started", "open", "gone"}
      BY <1>0, <1>4, <2>1, <2>2 DEF Undisturbed, Handlers
    <3>. QED  BY <1>3, <2>1, <2>2, <3>1 DEF Works
  <2>. QED  BY <1>1, <2>1, <2>2
\* A session that ends is no session of a request's handler: that one's socket is
\* open, and it has not been told to end.
<1>7. ASSUME NEW s \in Connections, EndOfConnection(s) \/ Expire(s)  PROVE OnItsWay'
  <2>1. /\ run' = [run EXCEPT ![s] = "ended"] /\ socket[s] # "open"
        /\ UNCHANGED <<row, pstate, socket, handlers, sweep, matchVars, asked>>
    BY <1>7 DEF EndOfConnection, Expire, EndRun, OwnSession
  <2>2. CASE asked # "nothing"
    <3>1. \A h \in Works : h.at \in Asking \/ (run'[h.of] = "running" /\ socket'[h.of] = "open")
      BY <1>0, <1>4, <2>1, <2>2 DEF Undisturbed, Handlers
    <3>2. \A c \in Connections : socket'[c] \in {"new", "started", "open", "gone"}
      BY <1>4, <2>1, <2>2 DEF Undisturbed
    <3>. QED  BY <1>3, <2>1, <2>2, <3>1, <3>2 DEF Works
  <2>. QED  BY <1>1, <2>1, <2>2
<1>8. ASSUME NEW i \in At, Drop(i)  PROVE OnItsWay'
  <2>1. /\ i <= Len(handlers) /\ Finish(i) /\ run[handlers[i].of] # "running" /\ handlers[i] \in Works
        /\ UNCHANGED <<row, pstate, socket, run, sweep, matchVars, asked>>
    BY <1>8, WorksOK DEF Drop
  <2>2. CASE asked # "nothing"
    <3>1. handlers[i].at \in Asking
      BY <1>4, <2>1, <2>2 DEF Undisturbed
    <3>. QED  BY <2>1, <3>1, FinishOnItsWay
  <2>. QED  BY <1>1, <2>1, <2>2
\* What acts on the player has not been at work since the request.
<1>9. ASSUME NEW s \in Connections, LeaveMenus(s) \/ RemoveEntry(s)  PROVE asked' = "nothing"
  BY <1>4, <1>9 DEF LeaveMenus, RemoveEntry, Undisturbed
<1>10. CASE SweepReset \/ SweepNotify \/ EndMatch
  BY <1>1, <1>4, <1>10 DEF SweepReset, SweepNotify, EndMatch, Undisturbed
<1>11. ASSUME NEW signal \in Signals, Notify(signal)  PROVE asked' = "nothing"
  BY <1>4, <1>11 DEF Notify, Undisturbed
<1>12. ASSUME NEW s \in Connections, Close(s)  PROVE asked' = "nothing"
  BY <1>12 DEF Close, Disturb
<1>13. ASSUME NEW i \in At, LoseAnswer(i)  PROVE asked' = "nothing"
  BY <1>13 DEF LoseAnswer, Disturb
<1>14. CASE Crash \/ SweepDelete \/ Pair
  BY <1>1, <1>14 DEF Crash, SweepDelete, Pair, Disturb
<1>15. ASSUME NEW s \in Connections, Heartbeat(s)  PROVE OnItsWay'
  BY <1>2, <1>15 DEF Heartbeat
<1>16. CASE Silence \/ UNCHANGED vars
  BY <1>2, <1>16 DEF Silence, vars
<1>. HIDE DEF OnItsWay, playerVars, gatewayVars, sessionVars, matchVars, requestVars
<1>. QED  BY <1>1, <1>5, <1>6, <1>7, <1>8, <1>9, <1>10, <1>11, <1>12, <1>13, <1>14, <1>15, <1>16,
             RunActivityOnItsWay, ResumeOnItsWay, RequestOnItsWay
          DEF Next, Client, EndSocket

\* A request to queue or to cancel on an open connection, which its session has
\* been told of and nothing disturbs, is honoured once the handlers have done:
\* the row and the state say what was asked for, whatever other sessions of the
\* player still ask for meanwhile.
THEOREM HonouredCorrect == Spec => []HonouredWhenUndisturbed
<1>1. Init => SessionInv
  BY InitInv
<1>2. SessionInv /\ [Next]_vars => SessionInv'
  BY StepType, StepOwnSession, StepEntryIsAlive, StepOnItsWay DEF SessionInv
<1>3. SessionInv => HonouredWhenUndisturbed
  BY DEF SessionInv, OnItsWay, QueueOnItsWay, LeaveOnItsWay, AllAsking, Works, Asking, Quiet,
         QuietBut, HonouredWhenUndisturbed
<1>. QED  BY <1>1, <1>2, <1>3, PTL DEF Spec

=============================================================================
