---------------------------- MODULE P2PMatchProofs ----------------------------
(***************************************************************************)
(* Theorems about P2PMatch, for any two players, any strangers and any     *)
(* faults: a match is rated as it was played, and once; and, where         *)
(* attempts only crash, it has ended when its workflow is done.            *)
(*                                                                         *)
(* The first two are not inductive: a rating is written by an attempt,     *)
(* perhaps one given up long ago, from what the workflow decided before.   *)
(* The invariant says what every attempt that runs knows of the workflow.  *)
(***************************************************************************)
EXTENDS P2PMatch, TLAPS

Played == {"accept_a", "accept_b", "mark_accepts", "await_start", "connect_a", "connect_b",
           "await_report", "resolve_start_forfeit", "finish_match"}
Agreed == Played \ {"accept_a", "accept_b"}
Connected == {"connect_a", "connect_b", "await_report"}

Decided == Rating \cup {"done"}

\* The winner decided on is the one users have started or reported the match for.
VerdictFair ==
  /\ accepts = Players /\ ~declined /\ accepted = Players
  /\ \/ verdict \in Users /\ started = {verdict}
     \/ Players \subseteq started /\ \A p \in Players : whoWon[p] = verdict
     \/ verdict = DoubleLoss /\ \A u \in Users : started # {u}

\* The workflow: what it has seen at each stage.
StageInv ==
  /\ stage \in Played => accepts = Players /\ ~declined
  /\ stage = "accept_b" => A \in accepted
  /\ stage \in Agreed => accepted = Players
  /\ stage \in Connected => Players \subseteq started
  /\ verdict # NoOne => stage \in Decided /\ VerdictFair

\* The attempts: the one awaited is of the stage; one that accepts has written the flag
\* before it goes on; one that rates was started for a decision, and writes one it can.
AttemptInv ==
  /\ attempt["awaited"] # Idle => attempt["awaited"].of = stage
  /\ \A c \in Slots :
       /\ attempt[c].of \in Accepting /\ attempt[c].step \in {"promote", "record"}
            => Actor(attempt[c].of) \in accepted
       /\ attempt[c].of \in Rating => stage \in Decided
       /\ attempt[c].of \in Rating /\ attempt[c].step = "resolve" => Ratable

ResultInv == result # NoOne => result = verdict

IInv == TypeOK /\ StageInv /\ AttemptInv /\ ResultInv

\* What the last stages and steps of the workflow have found written, as long as
\* no attempt runs but the one awaited and no error was ignored.
Unaccepted == {"unstarted", "lost", "verify", "await_accept"}
StatusInv ==
  LET a == attempt["awaited"] IN
  /\ attempt["given_up"] = Idle
  /\ stage \in Unaccepted => status = "PendingAccept"
  /\ stage = "handle_decline" => status \in {"PendingAccept", "Disputed"}
  /\ a.of = "handle_decline" /\ a.step = "record" => status = "Disputed"
  /\ a.of \in Rating /\ a.step \in {"free_a", "free_b", "tell_a", "tell_b"} => status = "Resolved"
  /\ a.of = "resolve_dispute" /\ a.step \in {"free_a", "free_b"} => status = "Disputed"
  /\ stage = "done" => status \in {"Resolved", "Disputed"}

EndInv == struck \subseteq {"crash"} => StatusInv

LEMMA InitInv == Init => IInv
<1>. SUFFICES ASSUME Init PROVE IInv
  OBVIOUS
<1>1. attempt = [c \in Slots |-> Idle] /\ Idle \in Attempts /\ Idle.of = "none"
  BY DEF Init, Attempts, Idle
<1>2. TypeOK
  BY <1>1, PlayersAssumption, OnlineAssumption DEF Init, TypeOK, Statuses, Stages, Players
<1>3. StageInv /\ ResultInv
  BY DEF Init, StageInv, ResultInv, Played, Agreed, Connected
<1>4. AttemptInv
  BY <1>1 DEF AttemptInv, Slots, Accepting, Rating
<1>. QED  BY <1>2, <1>3, <1>4 DEF IInv

LEMMA AfterFacts ==
  /\ After("verify") = "await_accept"
  /\ After("accept_a") = "accept_b"
  /\ After("accept_b") = "mark_accepts"
  /\ After("mark_accepts") = "await_start"
  /\ After("connect_a") = "connect_b"
  /\ After("connect_b") = "await_report"
  /\ \A a \in {"handle_decline", "resolve_start_forfeit", "finish_match", "resolve_dispute"} :
       After(a) = "done"
  BY DEF After, Follows

\* What every step of an attempt keeps, whatever it writes.
AttemptsType == attempt \in [Slots -> Attempts]
Marks == accepted \subseteq accepted' /\ accepted' \subseteq Players

\* The acceptances written so far are all the workflow's part of the invariant reads.
LEMMA StageKept ==
  ASSUME TypeOK, StageInv, Marks, UNCHANGED workflowVars
  PROVE  StageInv'
<1>. USE DEF workflowVars, fieldVars, Marks
<1>1. (accepted = Players) => (accepted' = Players)
  OBVIOUS
<1>2. (verdict # NoOne)' => VerdictFair'
  BY <1>1 DEF StageInv, VerdictFair
<1>. QED  BY <1>1, <1>2 DEF StageInv

LEMMA MoveInv ==
  ASSUME IInv, NEW c \in Slots, attempt[c].of \in Activities,
         NEW next \in [of : Activities, step : Steps, first : BOOLEAN],
         next.of = attempt[c].of,
         attempt' = [attempt EXCEPT ![c] = next], UNCHANGED workflowVars, Marks,
         next.of \in Accepting /\ next.step \in {"promote", "record"}
           => Actor(next.of) \in accepted',
         next.of \in Rating /\ next.step = "resolve" => Ratable
  PROVE  StageInv' /\ AttemptInv' /\ AttemptsType'
<1>1. StageInv'
  BY StageKept DEF IInv
<1>5. /\ AttemptsType'
      /\ \A d \in Slots : attempt'[d].of = attempt[d].of /\ (d # c => attempt'[d] = attempt[d])
                         /\ (d = c => attempt'[d].step = next.step)
  BY DEF AttemptsType, IInv, TypeOK, Attempts
<1>6. \A d \in Slots : attempt'[d].of \in Accepting /\ attempt'[d].step \in {"promote", "record"}
                        => Actor(attempt'[d].of) \in accepted'
  BY <1>5 DEF IInv, AttemptInv, Marks
<1>7. \A d \in Slots : /\ attempt'[d].of \in Rating => stage' \in Decided
                       /\ attempt'[d].of \in Rating /\ attempt'[d].step = "resolve" => Ratable'
  BY <1>5 DEF IInv, AttemptInv, Ratable, workflowVars, fieldVars
<1>8. attempt'["awaited"] # Idle => attempt'["awaited"].of = stage'
  <2>1. attempt'["awaited"].of = attempt["awaited"].of
    BY <1>5 DEF Slots
  <2>2. attempt'["awaited"] # Idle => attempt["awaited"] # Idle
    BY <1>5 DEF Slots, Idle, Activities
  <2>. QED  BY <2>1, <2>2 DEF IInv, AttemptInv, workflowVars
<1>9. AttemptInv'
  BY <1>6, <1>7, <1>8 DEF AttemptInv
<1>. QED  BY <1>1, <1>5, <1>9

LEMMA GoOnInv ==
  ASSUME IInv, NEW c \in Slots, attempt[c].of \in Activities, NEW s \in Steps,
         GoOn(c, s), Marks,
         attempt[c].of \in Accepting /\ s \in {"promote", "record"}
           => Actor(attempt[c].of) \in accepted',
         attempt[c].of \in Rating /\ s = "resolve" => Ratable
  PROVE  StageInv' /\ AttemptInv' /\ AttemptsType'
<1> DEFINE next == [attempt[c] EXCEPT !.step = s]
<1>1. attempt[c] \in [of : Activities, step : Steps, first : BOOLEAN]
  BY DEF IInv, TypeOK, Attempts, Idle, Activities
<1>2. next \in [of : Activities, step : Steps, first : BOOLEAN]
         /\ next.of = attempt[c].of /\ next.step = s
  BY <1>1
<1>3. attempt' = [attempt EXCEPT ![c] = next] /\ UNCHANGED workflowVars
  BY DEF GoOn, IInv, TypeOK
<1>. HIDE DEF next
<1>. QED  BY <1>2, <1>3, MoveInv

\* Clearing a slot disturbs nothing of what is known of the attempts.
LEMMA ClearedInv ==
  ASSUME IInv, NEW c \in Slots, attempt' = [attempt EXCEPT ![c] = Idle], Marks,
         verdict' = verdict,
         stage \in Decided => stage' \in Decided,
         c # "awaited" => stage' = stage
  PROVE  AttemptInv' /\ AttemptsType'
<1>1. AttemptsType'
  BY DEF AttemptsType, IInv, TypeOK, Attempts
<1>2. \A d \in Slots : attempt'[d] = IF d = c THEN Idle ELSE attempt[d]
  BY DEF IInv, TypeOK
<1>3. Idle.of = "none" /\ "none" \notin Accepting /\ "none" \notin Rating
  BY DEF Idle, Accepting, Rating
<1>4. \A d \in Slots : attempt'[d].of \in Accepting /\ attempt'[d].step \in {"promote", "record"}
                        => Actor(attempt'[d].of) \in accepted'
  BY <1>2, <1>3 DEF IInv, AttemptInv, Marks
<1>5. \A d \in Slots : /\ attempt'[d].of \in Rating => stage' \in Decided
                       /\ attempt'[d].of \in Rating /\ attempt'[d].step = "resolve" => Ratable'
  BY <1>2, <1>3 DEF IInv, AttemptInv, Ratable
<1>6. attempt'["awaited"] # Idle => attempt'["awaited"].of = stage'
  BY <1>2 DEF IInv, AttemptInv, Slots
<1>. QED  BY <1>1, <1>4, <1>5, <1>6 DEF AttemptInv

LEMMA FailInv ==
  ASSUME IInv, NEW c \in Slots, Fail(c), Marks
  PROVE  StageInv' /\ AttemptInv' /\ AttemptsType'
<1>1. StageInv'
  BY StageKept DEF Fail, IInv
<1>2. AttemptInv' /\ AttemptsType'
  BY ClearedInv DEF Fail, workflowVars, fieldVars
<1>. QED  BY <1>1, <1>2

LEMMA CompleteInv ==
  ASSUME IInv, NEW c \in Slots, attempt[c].of \in Activities, Complete(c), Marks,
         attempt[c].of \in Accepting => Actor(attempt[c].of) \in accepted'
  PROVE  StageInv' /\ AttemptInv' /\ AttemptsType' /\ stage' \in Stages
<1>0. stage \in Decided => stage' \in Decided
  BY AfterFacts DEF Complete, Decided, Rating, IInv, AttemptInv, Idle, Activities
<1>1. AttemptInv' /\ AttemptsType'
  BY <1>0, ClearedInv DEF Complete, fieldVars
<1>2. StageInv' /\ stage' \in Stages
  <2>1. CASE c # "awaited"
    <3>1. UNCHANGED workflowVars
      BY <2>1 DEF Complete, workflowVars
    <3>. QED  BY <3>1, StageKept DEF IInv, TypeOK, workflowVars
  <2>2. CASE c = "awaited"
    <3>1. stage \in Activities /\ stage = attempt[c].of /\ stage' = After(stage)
      BY <2>2 DEF Complete, IInv, AttemptInv, Idle, Activities
    <3>2. (accepted = Players) => (accepted' = Players)
      BY DEF Marks
    <3>3. UNCHANGED fieldVars
      BY DEF Complete
    <3>4. (verdict # NoOne)' => stage \in Decided /\ VerdictFair'
      BY <3>2, <3>3 DEF IInv, StageInv, VerdictFair, fieldVars
    <3>5. CASE stage \in {"handle_decline", "resolve_start_forfeit", "finish_match", "resolve_dispute"}
      <4>1. stage' = "done"
        BY <3>1, <3>5, AfterFacts
      <4>. QED  BY <4>1, <3>4 DEF StageInv, Stages, Played, Agreed, Connected, Decided, Rating
    <3>6. CASE stage = "verify"
      <4>1. stage' = "await_accept"
        BY <3>1, <3>6, AfterFacts
      <4>. QED  BY <4>1, <3>4, <3>6 DEF StageInv, Stages, Waits, Played, Agreed, Connected, Decided, Rating
    <3>7. CASE stage = "accept_a"
      <4>1. stage' = "accept_b" /\ A \in accepted'
        BY <3>1, <3>7, AfterFacts DEF Accepting, Actor
      <4>. QED  BY <4>1, <3>3, <3>4, <3>7 DEF IInv, StageInv, Stages, Activities, Played, Agreed, Connected, Decided, Rating, fieldVars
    <3>8. CASE stage = "accept_b"
      <4>1. stage' = "mark_accepts" /\ B \in accepted'
        BY <3>1, <3>8, AfterFacts DEF Accepting, Actor
      <4>2. A \in accepted'
        BY <3>8 DEF IInv, StageInv, Marks
      <4>3. accepted' = Players
        BY <4>1, <4>2 DEF Marks, Players
      <4>. QED  BY <4>1, <4>3, <3>3, <3>4, <3>8 DEF IInv, StageInv, Stages, Activities, Played, Agreed, Connected, Decided, Rating, fieldVars
    <3>9. CASE stage = "mark_accepts"
      <4>1. stage' = "await_start"
        BY <3>1, <3>9, AfterFacts
      <4>. QED  BY <4>1, <3>2, <3>3, <3>4, <3>9 DEF IInv, StageInv, Stages, Waits, Played, Agreed, Connected, Decided, Rating, fieldVars
    <3>10. CASE stage \in {"connect_a", "connect_b"}
      <4>1. stage' \in {"connect_b", "await_report"}
        BY <3>1, <3>10, AfterFacts
      <4>. QED  BY <4>1, <3>2, <3>3, <3>4, <3>10 DEF IInv, StageInv, Stages, Waits, Activities, Played, Agreed, Connected, Decided, Rating, fieldVars
    <3>. QED  BY <3>1, <3>5, <3>6, <3>7, <3>8, <3>9, <3>10 DEF Activities
  <2>. QED  BY <2>1, <2>2
<1>. QED  BY <1>1, <1>2

\* What the other variables are, apart from the stage and the attempts.
OthersType ==
  /\ status \in Statuses
  /\ accepted \subseteq Players /\ connected \subseteq Players
  /\ result \in Players \cup {DoubleLoss, NoOne} /\ rated \in Nat
  /\ state \in [Players -> {"Queueing", "InMatch", "Reporting", "InMenus"}]
  /\ accepts \subseteq Users /\ declined \in BOOLEAN
  /\ started \subseteq Users
  /\ whoWon \in [Users -> Users \cup {NoOne}]
  /\ verdict \in Users \cup {DoubleLoss, NoOne}
  /\ toNotify \subseteq Players
  /\ inbox \in [Players -> SUBSET {"found", "complete"}]
  /\ struck \subseteq Faults

LEMMA Parts == IInv <=> /\ StageInv /\ AttemptInv /\ ResultInv
                        /\ AttemptsType /\ stage \in Stages /\ OthersType
  BY DEF IInv, TypeOK, AttemptsType, OthersType

\* How an attempt may move: to a further step, to its end, or to a failure.
Moves(c, steps) ==
  \/ \E s \in steps : GoOn(c, s)
  \/ Complete(c)
  \/ Fail(c)

LEMMA MovesInv ==
  ASSUME IInv, NEW c \in Slots, attempt[c].of \in Activities, NEW steps \in SUBSET Steps,
         Moves(c, steps), Marks,
         attempt[c].of \in Accepting => Actor(attempt[c].of) \in accepted' \/ Fail(c),
         attempt[c].of \in Rating => Ratable \/ "resolve" \notin steps
  PROVE  StageInv' /\ AttemptInv' /\ AttemptsType' /\ stage' \in Stages /\ UNCHANGED fieldVars
<1>0. stage \in Stages
  BY Parts
<1>1. CASE Fail(c)
  BY <1>0, <1>1, FailInv DEF Fail, workflowVars
<1>2. CASE attempt[c].of \in Accepting => Actor(attempt[c].of) \in accepted'
  <2>1. CASE \E s \in steps : GoOn(c, s)
    BY <1>0, <1>2, <2>1, GoOnInv DEF GoOn, workflowVars
  <2>2. CASE Complete(c)
    BY <1>2, <2>2, CompleteInv DEF Complete
  <2>. QED  BY <1>1, <2>1, <2>2 DEF Moves
<1>. QED  BY <1>1, <1>2

-----------------------------------------------------------------------------
(* One step of an attempt. *)

\* A step of an attempt: it moves, and writes nothing about the workflow.
LEMMA AttemptStepInv ==
  ASSUME IInv, NEW c \in Slots, attempt[c].of \in Activities, Moves(c, Steps), Marks,
         attempt[c].of \in Accepting => Actor(attempt[c].of) \in accepted' \/ Fail(c),
         attempt[c].of \in Rating => Ratable \/ Moves(c, Steps \ {"resolve"}),
         status' \in Statuses, connected' \subseteq Players, rated' \in Nat,
         result' = result \/ result' = verdict,
         result' \in Players \cup {DoubleLoss, NoOne},
         state' \in [Players -> {"Queueing", "InMatch", "Reporting", "InMenus"}],
         inbox' \in [Players -> SUBSET {"found", "complete"}],
         UNCHANGED <<toNotify, struck>>
  PROVE  IInv'
<1>1. StageInv' /\ AttemptInv' /\ AttemptsType' /\ stage' \in Stages /\ UNCHANGED fieldVars
  <2> DEFINE steps == IF attempt[c].of \in Rating /\ ~Ratable THEN Steps \ {"resolve"} ELSE Steps
  <2>1. steps \in SUBSET Steps /\ Moves(c, steps)
    OBVIOUS
  <2>2. attempt[c].of \in Rating => Ratable \/ "resolve" \notin steps
    OBVIOUS
  <2>. HIDE DEF steps
  <2>. QED  BY <2>1, <2>2, MovesInv
<1>2. ResultInv'
  BY <1>1 DEF IInv, ResultInv, fieldVars
<1>3. OthersType'
  BY <1>1, Parts DEF OthersType, Marks, fieldVars
<1>4. (StageInv /\ AttemptInv /\ ResultInv /\ AttemptsType /\ stage \in Stages /\ OthersType)'
  BY <1>1, <1>2, <1>3
<1>. QED  BY <1>4, Parts, PTL

LEMMA AtFacts ==
  ASSUME NEW c \in Slots, NEW activities \in SUBSET Activities, NEW step, At(c, activities, step)
  PROVE  attempt[c].of \in activities /\ attempt[c].of \in Activities /\ attempt[c].step = step
  BY DEF At

LEMMA Sets == /\ Accepting \subseteq Activities /\ Connecting \subseteq Activities
              /\ Rating \subseteq Activities
              /\ Accepting \cap Connecting = {} /\ Accepting \cap Rating = {}
              /\ Connecting \cap Rating = {}
              /\ {"verify", "mark_accepts", "handle_decline", "resolve_dispute"}
                   \subseteq Activities \ (Accepting \cup Connecting \cup Rating)
  BY DEF Accepting, Connecting, Rating, Activities

LEMMA VerifyMatchInv ==
  ASSUME IInv, NEW c \in Slots, VerifyMatch(c), UNCHANGED <<sessionVars, struck>>
  PROVE  IInv'
<1>1. attempt[c].of \in Activities \ (Accepting \cup Rating)
  BY Sets DEF VerifyMatch, At
<1>2. Moves(c, Steps)
  BY DEF VerifyMatch, Moves
<1>. QED
  BY <1>1, <1>2, AttemptStepInv, Parts
     DEF VerifyMatch, rowVars, sessionVars, Marks, OthersType

LEMMA AcceptMatchInv ==
  ASSUME IInv, NEW c \in Slots, AcceptMatch(c), UNCHANGED <<sessionVars, struck>>
  PROVE  IInv'
<1>. USE DEF sessionVars
<1>0. OthersType /\ Players \subseteq Players
  BY Parts
<1>1. attempt[c].of \in Accepting /\ attempt[c].of \in Activities
  BY Sets DEF AcceptMatch, ReadToAccept, MarkAccepted, PromoteAccepted, RecordAccepted, At
<1>2. Actor(attempt[c].of) \in Players
  BY DEF Actor, Players
<1>3. \A s \in {"promote", "record", "mark"} : s \in Steps
  BY DEF Steps
<1>4. attempt[c].step \in {"promote", "record"} => Actor(attempt[c].of) \in accepted
  BY <1>1 DEF IInv, AttemptInv
<1>10. attempt[c].of \notin Rating
  BY <1>1, Sets
<1>5. CASE ReadToAccept(c) /\ status = "PendingAccept"
  <2> DEFINE next == [of |-> attempt[c].of, step |-> "mark",
                      first |-> Actor(attempt[c].of) \notin accepted]
  <2>1. attempt[c] \in [of : Activities, step : Steps, first : BOOLEAN]
    BY <1>1 DEF IInv, TypeOK, Attempts, Idle, Activities
  <2>2. next \in [of : Activities, step : Steps, first : BOOLEAN]
          /\ next.of = attempt[c].of /\ next.step = "mark"
    BY <1>1, <1>3
  <2>3. UNCHANGED workflowVars /\ Marks
    BY <1>0, <1>5 DEF ReadToAccept, rowVars, Marks, OthersType
  <2>4. attempt' = [attempt EXCEPT ![c] = next]
    BY <1>5, <2>1 DEF ReadToAccept, IInv, TypeOK
  <2>. HIDE DEF next
  <2>5. StageInv' /\ AttemptInv' /\ AttemptsType'
    BY <1>1, <1>10, <2>2, <2>3, <2>4, MoveInv
  <2>6. stage' \in Stages /\ OthersType' /\ ResultInv'
    BY <1>0, <1>5, <2>3, Parts
       DEF ReadToAccept, rowVars, workflowVars, fieldVars, OthersType, ResultInv
  <2>7. (StageInv /\ AttemptInv /\ ResultInv /\ AttemptsType /\ stage \in Stages /\ OthersType)'
    BY <2>5, <2>6
  <2>. QED  BY <2>7, Parts, PTL
<1>6. CASE ReadToAccept(c) /\ status # "PendingAccept"
  <2>1. Moves(c, Steps) /\ Fail(c)
    BY <1>6 DEF ReadToAccept, Moves
  <2>. QED
    BY <1>0, <1>1, <1>6, <1>10, <2>1, AttemptStepInv DEF ReadToAccept, rowVars, Marks, OthersType
<1>7. CASE MarkAccepted(c)
  <2>1. Moves(c, Steps)
    BY <1>3, <1>7 DEF MarkAccepted, RecordOrComplete, Moves
  <2>2. Marks /\ Actor(attempt[c].of) \in accepted'
    BY <1>0, <1>2, <1>7 DEF MarkAccepted, Marks, OthersType
  <2>. QED
    BY <1>0, <1>1, <1>7, <1>10, <2>1, <2>2, AttemptStepInv DEF MarkAccepted, OthersType
<1>8. CASE PromoteAccepted(c)
  <2>1. Moves(c, Steps)
    BY <1>3, <1>8 DEF PromoteAccepted, RecordOrComplete, Moves
  <2>2. Marks /\ Actor(attempt[c].of) \in accepted'
    BY <1>0, <1>4, <1>8 DEF PromoteAccepted, At, Marks, OthersType
  <2>3. status' \in Statuses
    BY <1>8 DEF PromoteAccepted, Statuses
  <2>. QED
    BY <1>0, <1>1, <1>8, <1>10, <2>1, <2>2, <2>3, AttemptStepInv DEF PromoteAccepted, OthersType
<1>9. CASE RecordAccepted(c)
  <2>1. Moves(c, Steps)
    BY <1>9 DEF RecordAccepted, Moves
  <2>2. Marks /\ Actor(attempt[c].of) \in accepted'
    BY <1>0, <1>4, <1>9 DEF RecordAccepted, At, rowVars, Marks, OthersType
  <2>. QED
    BY <1>0, <1>1, <1>9, <1>10, <2>1, <2>2, AttemptStepInv DEF RecordAccepted, rowVars, OthersType
<1>. QED  BY <1>5, <1>6, <1>7, <1>8, <1>9 DEF AcceptMatch

LEMMA MarkAcceptsInv ==
  ASSUME IInv, NEW c \in Slots, MarkAccepts(c), UNCHANGED <<sessionVars, struck>>
  PROVE  IInv'
<1>0. OthersType
  BY Parts
<1>1. attempt[c].of \in Activities \ (Accepting \cup Rating)
  BY Sets DEF MarkAccepts, At
<1>2. Moves(c, Steps)
  BY DEF MarkAccepts, Moves, Steps
<1>3. Marks
  BY <1>0 DEF MarkAccepts, Marks, OthersType
<1>4. status' \in Statuses
  BY <1>0 DEF MarkAccepts, Statuses, OthersType
<1>. QED
  BY <1>0, <1>1, <1>2, <1>3, <1>4, AttemptStepInv DEF MarkAccepts, sessionVars, OthersType

LEMMA HandleDeclineInv ==
  ASSUME IInv, NEW c \in Slots, HandleDecline(c), UNCHANGED <<sessionVars, struck>>
  PROVE  IInv'
<1>0. OthersType
  BY Parts
<1>1. attempt[c].of \in Activities \ (Accepting \cup Rating)
  BY Sets DEF HandleDecline, At
<1>2. Moves(c, Steps)
  BY DEF HandleDecline, Moves, Steps
<1>3. Marks
  BY <1>0 DEF HandleDecline, rowVars, Marks, OthersType
<1>4. status' \in Statuses
  BY <1>0 DEF HandleDecline, rowVars, Statuses, OthersType
<1>. QED
  BY <1>0, <1>1, <1>2, <1>3, <1>4, AttemptStepInv
     DEF HandleDecline, rowVars, sessionVars, OthersType

LEMMA ConnectPlayerInv ==
  ASSUME IInv, NEW c \in Slots, ConnectPlayer(c), UNCHANGED <<sessionVars, struck>>
  PROVE  IInv'
<1>. USE DEF ConnectPlayer, ReadToConnect, MarkConnected, PromoteConnected
<1>0. OthersType
  BY Parts
<1>1. attempt[c].of \in Activities \ (Accepting \cup Rating)
  BY Sets DEF At
<1>2. Moves(c, Steps)
  BY DEF Moves, Steps
<1>3. Marks
  BY <1>0 DEF rowVars, Marks, OthersType
<1>4. status' \in Statuses /\ connected' \subseteq Players
  BY <1>0 DEF rowVars, Statuses, OthersType, Actor, Players
<1>. QED
  BY <1>0, <1>1, <1>2, <1>3, <1>4, AttemptStepInv DEF rowVars, sessionVars, OthersType

LEMMA RateMatchInv ==
  ASSUME IInv, NEW c \in Slots, RateMatch(c), UNCHANGED <<sessionVars, struck>>
  PROVE  IInv'
<1>. USE DEF RateMatch, ReopenForForfeit, ReadToRate, ResolveMatch, FreePlayers
<1>0. OthersType
  BY Parts
<1>1. attempt[c].of \in Activities \ Accepting
  BY Sets DEF At, Rating
<1>2. Moves(c, Steps)
  BY DEF Moves, Steps
<1>3. Marks
  BY <1>0 DEF rowVars, Marks, OthersType
<1>4. /\ status' \in Statuses /\ rated' \in Nat /\ (result' = result \/ result' = verdict)
      /\ result' \in Players \cup {DoubleLoss, NoOne}
  <2>1. ResolveMatch(c) => Ratable
    BY DEF ResolveMatch, At, IInv, AttemptInv
  <2>. QED  BY <1>0, <2>1 DEF rowVars, Statuses, OthersType, Ratable
<1>6. Ratable \/ Moves(c, Steps \ {"resolve"})
  BY DEF Moves, Steps
<1>5. state' \in [Players -> {"Queueing", "InMatch", "Reporting", "InMenus"}]
  BY <1>0 DEF OthersType
<1>. QED
  BY <1>0, <1>1, <1>2, <1>3, <1>4, <1>5, <1>6, AttemptStepInv DEF rowVars, sessionVars, OthersType

LEMMA ResolveDisputeInv ==
  ASSUME IInv, NEW c \in Slots, ResolveDispute(c), UNCHANGED <<sessionVars, struck>>
  PROVE  IInv'
<1>. USE DEF ResolveDispute, ReportingComplete
<1>0. OthersType
  BY Parts
<1>1. attempt[c].of \in Activities \ (Accepting \cup Rating)
  BY Sets DEF At
<1>2. Moves(c, Steps)
  BY DEF Moves, Steps
<1>3. Marks
  BY <1>0 DEF rowVars, Marks, OthersType
<1>4. status' \in Statuses
  BY <1>0 DEF rowVars, Statuses, OthersType
<1>5. state' \in [Players -> {"Queueing", "InMatch", "Reporting", "InMenus"}]
  BY <1>0 DEF OthersType, rowVars
<1>. QED
  BY <1>0, <1>1, <1>2, <1>3, <1>4, <1>5, AttemptStepInv DEF rowVars, sessionVars, OthersType

LEMMA SignalSessionCompleteInv ==
  ASSUME IInv, NEW c \in Slots, SignalSessionComplete(c)
  PROVE  IInv'
<1>. USE DEF SignalSessionComplete
<1>0. OthersType
  BY Parts
<1>1. attempt[c].of \in Activities \ Accepting
  BY Sets DEF At, Rating
<1>2. Moves(c, Steps) /\ Moves(c, Steps \ {"resolve"})
  BY DEF Moves, Steps
<1>3. Marks
  BY <1>0 DEF rowVars, Marks, OthersType
<1>4. inbox' \in [Players -> SUBSET {"found", "complete"}]
  BY <1>0 DEF OthersType
<1>. QED
  BY <1>0, <1>1, <1>2, <1>3, <1>4, AttemptStepInv DEF rowVars, OthersType

LEMMA StatementFailsInv ==
  ASSUME IInv, NEW c \in Slots, StatementFails(c)
  PROVE  IInv'
<1>0. OthersType
  BY Parts
<1>1. PICK e \in IgnoredErrors : /\ At(c, {e[1]}, e[2])
                                 /\ IF e[3] = "none" THEN Complete(c) ELSE GoOn(c, e[3])
  BY DEF StatementFails
<1>2. e[1] \in Activities \ Accepting /\ e[3] \in (Steps \ {"resolve"}) \cup {"none"}
  BY DEF IgnoredErrors, Activities, Accepting, Steps
<1>3. attempt[c].of \in Activities \ Accepting
  BY <1>1, <1>2 DEF At
<1>4. Moves(c, Steps \ {"resolve"})
  BY <1>1, <1>2 DEF Moves
<1>5. struck' \subseteq Faults /\ toNotify' = toNotify
  BY <1>0 DEF StatementFails, Strike, OthersType, sessionVars
<1>6. Marks
  BY <1>0 DEF StatementFails, rowVars, Marks, OthersType
<1>7. StageInv' /\ AttemptInv' /\ AttemptsType' /\ stage' \in Stages /\ UNCHANGED fieldVars
  BY <1>3, <1>4, <1>6, MovesInv
<1>8. OthersType' /\ ResultInv'
  BY <1>0, <1>5, <1>7, Parts
     DEF StatementFails, rowVars, sessionVars, fieldVars, OthersType, ResultInv
<1>9. (StageInv /\ AttemptInv /\ ResultInv /\ AttemptsType /\ stage \in Stages /\ OthersType)'
  BY <1>7, <1>8
<1>. QED  BY <1>9, Parts, PTL

LEMMA RunAttemptInv ==
  ASSUME IInv, NEW c \in Slots, RunAttempt(c)
  PROVE  IInv'
BY VerifyMatchInv, AcceptMatchInv, MarkAcceptsInv, HandleDeclineInv, ConnectPlayerInv,
   RateMatchInv, ResolveDisputeInv, SignalSessionCompleteInv DEF RunAttempt

-----------------------------------------------------------------------------
(* The other steps. *)

\* A step that leaves the attempts alone.
LEMMA BesideInv ==
  ASSUME IInv, UNCHANGED attempt, StageInv', OthersType', stage' \in Stages,
         UNCHANGED <<result, accepted>>,
         stage \in Decided => stage' \in Decided /\ verdict' = verdict,
         attempt["awaited"] # Idle => stage' = stage
  PROVE  IInv'
<1>1. AttemptInv' /\ AttemptsType'
  <2>1. \A c \in Slots : attempt[c].of \in Rating => verdict' = verdict /\ stage' \in Decided
    BY Parts DEF AttemptInv
  <2>. QED  BY <2>1, Parts DEF AttemptInv, AttemptsType, Ratable
<1>2. ResultInv'
  BY Parts DEF ResultInv, StageInv
<1>3. (StageInv /\ AttemptInv /\ ResultInv /\ AttemptsType /\ stage \in Stages /\ OthersType)'
  BY <1>1, <1>2
<1>. QED  BY <1>3, Parts, PTL

\* While the workflow waits, no attempt is awaited.
LEMMA NoneAwaited ==
  ASSUME IInv, stage \notin Activities
  PROVE  attempt["awaited"] = Idle
BY DEF IInv, TypeOK, Slots, AttemptInv, Attempts

LEMMA ForfeitWinnerFacts ==
  \/ ForfeitWinner \in Users /\ started = {ForfeitWinner}
  \/ ForfeitWinner = DoubleLoss /\ \A u \in Users : started # {u}
BY DEF ForfeitWinner

LEMMA WorkflowStepInv ==
  ASSUME IInv, WorkflowStep
  PROVE  IInv'
<1>. USE DEF WorkflowStep, DecideNothing
<1>0. OthersType /\ StageInv
  BY Parts
<1>1. stage \notin Activities
  BY DEF StartP2PMatch, AcceptTimeout, AcceptOver, StartTimeout, StartOver, ReportTimeout,
         ReportOver, Activities
<1>2. attempt["awaited"] = Idle
  BY <1>1, NoneAwaited
<1>3. stage \notin Decided
  BY DEF Decided, StartP2PMatch, AcceptTimeout, AcceptOver, StartTimeout, StartOver, ReportTimeout,
         ReportOver, Rating
<1>4. verdict = NoOne
  BY <1>0, <1>3 DEF StageInv
<1>5. stage' \in Stages
  BY DEF StartP2PMatch, AcceptTimeout, AcceptOver, StartTimeout, StartOver, ReportTimeout,
         ReportOver, Stages, Waits, Activities
<1>6. OthersType'
  <2>1. ForfeitWinner \in Users \cup {DoubleLoss}
    BY ForfeitWinnerFacts
  <2>2. \A p \in Players : whoWon[p] \in Users \cup {NoOne}
    BY <1>0 DEF OthersType, Users
  <2>3. verdict' \in Users \cup {DoubleLoss, NoOne}
    BY <1>4, <2>1, <2>2
       DEF StartP2PMatch, AcceptTimeout, AcceptOver, StartTimeout, StartOver, ReportTimeout,
           ReportOver, Players
  <2>4. /\ accepts' = accepts /\ started' = started /\ whoWon' = whoWon
        /\ declined' = declined
    BY DEF StartP2PMatch, AcceptTimeout, AcceptOver, StartTimeout, StartOver, ReportTimeout,
           ReportOver
  <2>. QED  BY <1>0, <2>3, <2>4 DEF rowVars, sessionVars, OthersType
<1>7. StageInv'
  <2>. USE <1>0, <1>4 DEF rowVars
  <2>1. CASE StartP2PMatch
    BY <2>1 DEF StartP2PMatch, StageInv, Played, Agreed, Connected, Decided, Rating
  <2>2. CASE AcceptTimeout
    BY <2>2 DEF AcceptTimeout, StageInv, Played, Agreed, Connected, Decided, Rating
  <2>3. CASE AcceptOver
    BY <2>3 DEF AcceptOver, StageInv, Played, Agreed, Connected, Decided, Rating
  <2>4. CASE StartTimeout
    <3>1. /\ accepts = Players /\ ~declined /\ accepted = Players
          /\ stage' = "resolve_start_forfeit" /\ verdict' = ForfeitWinner
          /\ UNCHANGED <<accepts, declined, started, whoWon, accepted>>
      BY <2>4 DEF StartTimeout, StageInv, Played, Agreed
    <3>2. VerdictFair'
      <4>1. \/ verdict' \in Users /\ started' = {verdict'}
            \/ verdict' = DoubleLoss /\ \A u \in Users : started' # {u}
        BY <3>1, ForfeitWinnerFacts
      <4>. QED  BY <3>1, <4>1 DEF VerdictFair
    <3>. QED  BY <3>1, <3>2 DEF StageInv, Played, Agreed, Connected, Decided, Rating
  <2>5. CASE StartOver
    BY <2>5 DEF StartOver, StageInv, Played, Agreed, Connected, Decided, Rating
  <2>6. CASE ReportTimeout
    BY <2>6 DEF ReportTimeout, StageInv, Played, Agreed, Connected, Decided, Rating
  <2>7. CASE ReportOver
    <3>1. /\ accepts = Players /\ ~declined /\ accepted = Players /\ Players \subseteq started
          /\ UNCHANGED <<accepts, declined, started, whoWon, accepted>>
      BY <2>7 DEF ReportOver, StageInv, Played, Agreed, Connected
    <3>2. CASE whoWon[A] = whoWon[B]
      <4>1. stage' = "finish_match" /\ verdict' = whoWon[A]
        BY <2>7, <3>2 DEF ReportOver
      <4>2. \A p \in Players : whoWon'[p] = verdict'
        BY <3>1, <3>2, <4>1 DEF Players
      <4>3. VerdictFair'
        BY <3>1, <4>2 DEF VerdictFair
      <4>. QED  BY <3>1, <4>1, <4>2, <4>3 DEF StageInv, Played, Agreed, Connected, Decided, Rating
    <3>3. CASE whoWon[A] # whoWon[B]
      BY <2>7, <3>3 DEF ReportOver, StageInv, Played, Agreed, Connected, Decided, Rating
    <3>. QED  BY <3>2, <3>3
  <2>. QED  BY <2>1, <2>2, <2>3, <2>4, <2>5, <2>6, <2>7
<1>. QED  BY <1>2, <1>3, <1>5, <1>6, <1>7, BesideInv DEF rowVars

LEMMA SignalInv ==
  ASSUME IInv, Signal
  PROVE  IInv'
<1>0. OthersType /\ StageInv /\ stage \in Stages
  BY Parts
<1>1. PICK u \in Users : \/ MatchChoice(u) \/ SignalStart(u)
                        \/ \E w \in Users : SignalWhoWon(u, w)
  BY DEF Signal
<1>2. stage \in UntilReported /\ stage' = stage /\ verdict' = verdict
  BY <1>1 DEF MatchChoice, SignalStart, SignalWhoWon, UntilAccepted, UntilStarted, UntilReported
<1>3. verdict = NoOne /\ stage \notin Decided
  BY <1>0, <1>2 DEF StageInv, Decided, Rating, UntilAccepted, UntilStarted, UntilReported
<1>4. OthersType'
  <2>1. accepts' \subseteq Users /\ declined' \in BOOLEAN /\ started' \subseteq Users
    BY <1>0, <1>1 DEF MatchChoice, SignalStart, SignalWhoWon, OthersType
  <2>2. whoWon' \in [Users -> Users \cup {NoOne}]
    BY <1>0, <1>1 DEF MatchChoice, SignalStart, SignalWhoWon, OthersType
  <2>. QED  BY <1>0, <1>2, <2>1, <2>2 DEF Signal, rowVars, sessionVars, OthersType
<1>5. stage \in Played => accepts' = accepts /\ declined' = declined
  BY <1>1 DEF MatchChoice, SignalStart, SignalWhoWon, UntilAccepted, Played
<1>6. started \subseteq started'
  BY <1>1 DEF MatchChoice, SignalStart, SignalWhoWon
<1>7. StageInv'
  BY <1>0, <1>2, <1>3, <1>5, <1>6 DEF Signal, rowVars, StageInv
<1>. QED  BY <1>0, <1>2, <1>3, <1>4, <1>7, BesideInv DEF Signal, rowVars

LEMMA SessionsInv ==
  ASSUME IInv, NEW p \in Online, Session(p) \/ Disconnect(p)
  PROVE  IInv'
<1>. USE DEF Session, NotifyMatchFound, HandleSignal, Disconnect, rowVars, workflowVars,
             fieldVars, sessionVars
<1>0. OthersType /\ StageInv /\ stage \in Stages
  BY Parts
<1>1. UNCHANGED <<rowVars, workflowVars, attempt, struck>>
  OBVIOUS
<1>2. state' \in [Players -> {"Queueing", "InMatch", "Reporting", "InMenus"}]
  BY <1>0 DEF OthersType
<1>3. toNotify' \subseteq Players
  BY <1>0 DEF OthersType
<1>4. inbox' \in [Players -> SUBSET {"found", "complete"}]
  BY <1>0 DEF OthersType
<1>5. OthersType'
  BY <1>0, <1>1, <1>2, <1>3, <1>4 DEF OthersType
<1>6. StageInv'
  BY <1>0, <1>1 DEF StageInv, VerdictFair
<1>. QED  BY <1>0, <1>1, <1>5, <1>6, BesideInv

\* Starting and losing attempts leaves the row and the workflow's fields alone.
LEMMA SlotsInv ==
  ASSUME IInv, BeginAttempt \/ Overrun \/ Crash
  PROVE  IInv'
<1>. USE DEF BeginAttempt, Overrun, Crash, Strike, rowVars, workflowVars, fieldVars, sessionVars
<1>0. OthersType /\ StageInv /\ stage \in Stages /\ AttemptInv /\ AttemptsType /\ ResultInv
  BY Parts
<1>1. UNCHANGED <<rowVars, fieldVars, state>>
  OBVIOUS
<1>2. OthersType' /\ ResultInv'
  BY <1>0, <1>1 DEF OthersType, ResultInv
<1>3. stage' \in Stages /\ (stage' = stage \/ (stage' = "lost" /\ stage = "unstarted"))
  BY <1>0 DEF Stages
<1>4. StageInv'
  BY <1>0, <1>1, <1>3 DEF StageInv, VerdictFair, Played, Agreed, Connected, Decided, Rating
<1>5. AttemptsType' /\ AttemptInv'
  <2>1. CASE BeginAttempt
    <3> DEFINE next == [of |-> stage, step |-> FirstStep(stage), first |-> FALSE]
    <3>1. next \in [of : Activities, step : Steps, first : BOOLEAN]
      BY <2>1 DEF FirstStep, Steps
    <3>2. next.of = stage /\ next.step \notin {"promote", "record", "resolve"}
      BY DEF FirstStep
    <3>3. attempt' = [attempt EXCEPT !["awaited"] = next] /\ stage' = stage
      BY <2>1
    <3>. HIDE DEF next
    <3>4. AttemptsType'
      BY <1>0, <3>1, <3>3 DEF AttemptsType, Attempts
    <3>5. attempt'["awaited"] = next /\ attempt'["given_up"] = attempt["given_up"]
      BY <1>0, <3>3 DEF AttemptsType, Slots
    <3>7. AttemptInv'
      BY <1>0, <1>1, <3>2, <3>3, <3>5 DEF AttemptInv, Slots, Decided, Ratable, fieldVars
    <3>. QED  BY <3>4, <3>7
  <2>2. CASE Overrun
    <3>1. /\ attempt'["awaited"] = Idle /\ attempt'["given_up"] = attempt["awaited"]
          /\ AttemptsType' /\ stage' = stage
      BY <1>0, <2>2 DEF AttemptsType, Slots, Attempts
    <3>2. Idle.of \notin Accepting /\ Idle.of \notin Rating
      BY DEF Idle, Accepting, Rating
    <3>. QED  BY <1>0, <1>1, <3>1, <3>2 DEF AttemptInv, Slots, Ratable
  <2>3. CASE Crash
    <3>1. AttemptsType' /\ \A c \in Slots : attempt'[c] = Idle
      BY <2>3 DEF AttemptsType, Attempts
    <3>2. Idle.of \notin Accepting /\ Idle.of \notin Rating
      BY DEF Idle, Accepting, Rating
    <3>. QED  BY <3>1, <3>2 DEF AttemptInv, Slots
  <2>. QED  BY <2>1, <2>2, <2>3
<1>6. (StageInv /\ AttemptInv /\ ResultInv /\ AttemptsType /\ stage \in Stages /\ OthersType)'
  BY <1>2, <1>3, <1>4, <1>5
<1>. QED  BY <1>6, Parts, PTL

LEMMA NextInv == IInv /\ [Next]_vars => IInv'
<1>. SUFFICES ASSUME IInv, [Next]_vars PROVE IInv'
  OBVIOUS
<1>1. CASE UNCHANGED vars
  <2>1. OthersType /\ StageInv /\ stage \in Stages
    BY Parts
  <2>2. OthersType' /\ StageInv' /\ stage' \in Stages
    BY <1>1, <2>1 DEF vars, rowVars, workflowVars, fieldVars, sessionVars, OthersType, StageInv,
                      VerdictFair
  <2>. QED
    BY <1>1, <2>2, BesideInv DEF vars, rowVars, workflowVars, fieldVars
<1>2. CASE WorkflowStep
  BY <1>2, WorkflowStepInv
<1>3. CASE BeginAttempt \/ Overrun \/ Crash
  BY <1>3, SlotsInv
<1>4. CASE \E c \in Slots : RunAttempt(c)
  BY <1>4, RunAttemptInv
<1>5. CASE Signal
  BY <1>5, SignalInv
<1>6. CASE \E p \in Online : Session(p) \/ Disconnect(p)
  BY <1>6, SessionsInv
<1>7. CASE \E c \in Slots : StatementFails(c)
  BY <1>7, StatementFailsInv
<1>. QED  BY <1>1, <1>2, <1>3, <1>4, <1>5, <1>6, <1>7 DEF Next, Over

-----------------------------------------------------------------------------
\* Every variable of the match keeps its type, whatever fails or overlaps.
THEOREM P2PTypeCorrect == Spec => []TypeOK
<1>1. IInv => TypeOK
  BY DEF IInv
<1>. QED  BY <1>1, InitInv, NextInv, PTL DEF Spec

\* A match is rated only after its two players, and nobody else, accepted it; for a
\* winner who plays it and whom both reported, or who is the only user to have started
\* it; or as a double loss, unless a single user, player or not, has started it.
THEOREM RatedAsPlayedCorrect == Spec => []RatedAsPlayed
<1>1. IInv => RatedAsPlayed
  <2>. SUFFICES ASSUME IInv, result # NoOne PROVE
         /\ accepts = Players /\ ~declined /\ accepted = Players
         /\ \/ result \in Players /\ started = {result}
            \/ /\ result \in Players
               /\ Players \subseteq started /\ \A p \in Players : whoWon[p] = result
            \/ result = DoubleLoss /\ \A u \in Users : started # {u}
    BY DEF RatedAsPlayed
  <2>1. result = verdict /\ VerdictFair
    BY DEF IInv, ResultInv, StageInv
  <2>2. result \in Users => result \in Players
    BY NoPlayerAssumption DEF IInv, TypeOK
  <2>3. (\A p \in Players : whoWon[p] = result) => result \in Users
    BY DEF IInv, TypeOK, Players, Users
  <2>. QED  BY <2>1, <2>2, <2>3 DEF VerdictFair
<1>. QED  BY <1>1, InitInv, NextInv, PTL DEF Spec

\* Ratings are changed at most once, with the only result the match ever has, however
\* many attempts resolve it.
THEOREM RatedForGoodCorrect == Spec => RatedForGood
<1>. DEFINE Good == /\ result # NoOne => result' = result
                    /\ rated' # rated => rated = 0 /\ result = NoOne /\ result' = verdict
            Fresh == result = NoOne => rated = 0
            J == IInv /\ Fresh
<1>1. Init => J
  BY InitInv DEF Init
<1>2. J /\ [Next]_vars => J' /\ [Good]_vars
  <2>. SUFFICES ASSUME J, [Next]_vars PROVE Fresh' /\ Good
    BY NextInv
  <2>1. CASE UNCHANGED <<result, rated>>
    BY <2>1
  <2>2. CASE \E c \in Slots : ResolveMatch(c)
    <3>1. PICK c \in Slots : ResolveMatch(c)
      BY <2>2
    <3>2. verdict # NoOne
      BY <3>1, NoPlayerAssumption DEF ResolveMatch, At, IInv, AttemptInv, Ratable, Users, NoOne, DoubleLoss
    <3>3. CASE result = NoOne
      BY <3>1, <3>2, <3>3 DEF ResolveMatch
    <3>4. CASE result # NoOne
      BY <3>1, <3>4 DEF ResolveMatch
    <3>. QED  BY <3>3, <3>4
  <2>3. UNCHANGED <<result, rated>> \/ \E c \in Slots : ResolveMatch(c)
    <3>1. ASSUME NEW c \in Slots, RunAttempt(c)
          PROVE  UNCHANGED <<result, rated>> \/ ResolveMatch(c)
      BY <3>1 DEF RunAttempt, VerifyMatch, AcceptMatch, ReadToAccept, MarkAccepted,
           PromoteAccepted, RecordAccepted, MarkAccepts, HandleDecline, ConnectPlayer,
           ReadToConnect, MarkConnected, PromoteConnected, RateMatch, ReopenForForfeit,
           ReadToRate, FreePlayers, ResolveDispute, SignalSessionComplete, rowVars
    <3>2. CASE UNCHANGED rowVars
      BY <3>2 DEF rowVars
    <3>. QED
      BY <3>1, <3>2 DEF Next, WorkflowStep, BeginAttempt, Signal, Session, NotifyMatchFound,
           HandleSignal, Disconnect, Overrun, Crash, StatementFails, Over, vars
  <2>. QED  BY <2>1, <2>2, <2>3
<1>. HIDE DEF J, Good
<1>3. Spec => [][Good]_vars
  BY <1>1, <1>2, PTL DEF Spec
<1>. QED  BY <1>3 DEF RatedForGood, Good
-----------------------------------------------------------------------------
(* The end of the workflow. *)

\* While the only attempt is the one awaited: how it moves.
LEMMA AwaitedMoves ==
  ASSUME IInv, StatusInv, NEW c \in Slots, attempt[c].of \in Activities
  PROVE  /\ c = "awaited" /\ attempt[c].of = stage
         /\ \A s \in Steps : GoOn(c, s) =>
              /\ attempt'["given_up"] = Idle /\ stage' = stage
              /\ attempt'["awaited"].of = stage /\ attempt'["awaited"].step = s
         /\ Complete(c) => /\ attempt'["given_up"] = Idle /\ attempt'["awaited"] = Idle
                           /\ stage' = After(stage)
         /\ Fail(c) => /\ attempt'["given_up"] = Idle /\ attempt'["awaited"] = Idle
                       /\ stage' = stage
<1>1. /\ attempt \in [Slots -> Attempts] /\ attempt["given_up"] = Idle
      /\ Idle.of \notin Activities
  BY DEF IInv, TypeOK, StatusInv, Idle, Activities
<1>2. c = "awaited" /\ attempt[c] # Idle
  BY <1>1 DEF Slots
<1>3. attempt[c].of = stage
  BY <1>2 DEF IInv, AttemptInv
<1>4. attempt[c] \in [of : Activities, step : Steps, first : BOOLEAN]
  BY <1>1, <1>2 DEF Attempts, Slots
<1>5. ASSUME NEW s \in Steps, GoOn(c, s)
      PROVE  /\ attempt'["given_up"] = Idle /\ stage' = stage
             /\ attempt'["awaited"].of = stage /\ attempt'["awaited"].step = s
  BY <1>1, <1>2, <1>3, <1>4, <1>5 DEF GoOn, Slots, workflowVars
<1>6. Complete(c) => /\ attempt'["given_up"] = Idle /\ attempt'["awaited"] = Idle
                     /\ stage' = After(stage)
  BY <1>1, <1>2 DEF Complete, Slots
<1>7. Fail(c) => /\ attempt'["given_up"] = Idle /\ attempt'["awaited"] = Idle /\ stage' = stage
  BY <1>1, <1>2 DEF Fail, Slots, workflowVars
<1>. QED  BY <1>2, <1>3, <1>5, <1>6, <1>7

\* Between the acceptances and the decision nothing is said of the status.
Middle == {"accept_a", "accept_b", "mark_accepts", "await_start", "connect_a", "connect_b",
           "await_report"}

LEMMA MiddleStatus ==
  ASSUME attempt'["given_up"] = Idle, stage' \in Middle,
         attempt'["awaited"] = Idle \/ attempt'["awaited"].of = stage'
  PROVE  StatusInv'
BY DEF StatusInv, Middle, Unaccepted, Rating, Idle

LEMMA RunAttemptStatus ==
  ASSUME IInv, StatusInv, NEW c \in Slots, RunAttempt(c)
  PROVE  StatusInv'
<1>. DEFINE a == attempt["awaited"]
<1>0. \A s \in {"read", "mark", "promote", "record", "dispute", "resolve",
                "free_a", "free_b", "tell_a", "tell_b"} : s \in Steps
  BY DEF Steps
<1>1. CASE VerifyMatch(c)
  <2>1. attempt[c].of = "verify" /\ Complete(c) /\ status' = status
    BY <1>1 DEF VerifyMatch, At, rowVars
  <2>2. /\ stage' = "await_accept" /\ status = "PendingAccept"
        /\ attempt'["given_up"] = Idle /\ a' = Idle
    BY <2>1, AwaitedMoves, AfterFacts DEF Activities, StatusInv, Unaccepted
  <2>. QED  BY <2>1, <2>2 DEF StatusInv, Idle, Rating
<1>2. CASE AcceptMatch(c) \/ MarkAccepts(c) \/ ConnectPlayer(c)
  <2>1. attempt[c].of \in Accepting \cup Connecting \cup {"mark_accepts"}
    BY <1>2 DEF AcceptMatch, ReadToAccept, MarkAccepted, PromoteAccepted, RecordAccepted,
                MarkAccepts, ConnectPlayer, ReadToConnect, MarkConnected, PromoteConnected, At
  <2>2. attempt[c].of \in Activities /\ stage \in Middle /\ After(stage) \in Middle
    BY <2>1, AwaitedMoves, AfterFacts DEF Accepting, Connecting, Activities, Middle
  <2>3. CASE \/ \E s \in {"mark", "promote", "record"} : GoOn(c, s)
             \/ Complete(c) \/ Fail(c)
    <3>1. /\ attempt'["given_up"] = Idle /\ stage' \in Middle
          /\ a' = Idle \/ a'.of = stage'
      BY <1>0, <2>2, <2>3, AwaitedMoves
    <3>. QED  BY <3>1, MiddleStatus
  <2>4. CASE ReadToAccept(c) /\ status = "PendingAccept"
    <3>1. /\ attempt' = [attempt EXCEPT ![c].step = "mark",
                                        ![c].first = Actor(attempt[c].of) \notin accepted]
          /\ stage' = stage
      BY <2>4 DEF ReadToAccept, workflowVars
    <3>2. c = "awaited" /\ a.of = stage /\ attempt \in [Slots -> Attempts] /\ attempt["given_up"] = Idle
      BY <2>2, AwaitedMoves DEF IInv, TypeOK, StatusInv
    <3>3. a \in [of : Activities, step : Steps, first : BOOLEAN]
      BY <2>2, <3>2 DEF Attempts, Idle, Activities
    <3>4. attempt'["given_up"] = Idle /\ stage' \in Middle /\ a'.of = stage'
      BY <2>2, <3>1, <3>2, <3>3 DEF Slots
    <3>. QED  BY <3>4, MiddleStatus
  <2>. QED
    BY <1>2, <2>3, <2>4
    DEF AcceptMatch, ReadToAccept, MarkAccepted, PromoteAccepted, RecordAccepted,
        RecordOrComplete, MarkAccepts, ConnectPlayer, ReadToConnect, MarkConnected,
        PromoteConnected
<1>3. CASE HandleDecline(c)
  <2>1. /\ attempt[c].of = "handle_decline" /\ attempt[c].of \in Activities
        /\ After("handle_decline") = "done"
    BY <1>3, AfterFacts DEF HandleDecline, At, Activities
  <2>2. stage = "handle_decline" /\ c = "awaited" /\ status \in {"PendingAccept", "Disputed"}
    BY <2>1, AwaitedMoves DEF StatusInv
  <2>3. CASE At(c, {"handle_decline"}, "read")
    <3>1. PICK s \in {"dispute", "record"} :
            GoOn(c, s) /\ (s = "record" => status = "Disputed") /\ status' = status
      BY <1>3, <2>2, <2>3 DEF HandleDecline, At, rowVars
    <3>2. /\ attempt'["given_up"] = Idle /\ stage' = stage /\ a'.of = stage /\ a'.step = s
      BY <1>0, <2>1, <3>1, AwaitedMoves
    <3>. QED  BY <2>2, <3>1, <3>2 DEF StatusInv, Unaccepted, Rating
  <2>4. CASE At(c, {"handle_decline"}, "dispute")
    <3>1. GoOn(c, "record") /\ status' = "Disputed"
      BY <1>3, <2>4 DEF HandleDecline, At
    <3>2. attempt'["given_up"] = Idle /\ stage' = stage /\ a'.of = stage /\ a'.step = "record"
      BY <1>0, <2>1, <3>1, AwaitedMoves
    <3>. QED  BY <2>2, <3>1, <3>2 DEF StatusInv, Unaccepted, Rating
  <2>5. CASE At(c, {"handle_decline"}, "record")
    <3>1. Complete(c) /\ status' = status /\ status = "Disputed"
      BY <1>3, <2>2, <2>5 DEF HandleDecline, At, rowVars, StatusInv
    <3>2. attempt'["given_up"] = Idle /\ stage' = "done" /\ a' = Idle
      BY <2>1, <2>2, <3>1, AwaitedMoves
    <3>. QED  BY <3>1, <3>2 DEF StatusInv, Unaccepted, Rating, Idle
  <2>. QED  BY <1>3, <2>3, <2>4, <2>5 DEF HandleDecline
<1>4. CASE RateMatch(c) \/ SignalSessionComplete(c)
  <2>1. attempt[c].of \in Rating
    BY <1>4 DEF RateMatch, ReopenForForfeit, ReadToRate, ResolveMatch, FreePlayers,
                SignalSessionComplete, At, Rating
  <2>2. /\ attempt[c].of \in Activities /\ c = "awaited" /\ stage \in Rating /\ After(stage) = "done"
    BY <2>1, AwaitedMoves, AfterFacts, Sets DEF Rating
  <2>3. ASSUME NEW s \in Steps, GoOn(c, s),
               s \in {"free_a", "free_b", "tell_a", "tell_b"} => status' = "Resolved"
        PROVE  StatusInv'
    <3>1. attempt'["given_up"] = Idle /\ stage' = stage /\ a'.of = stage /\ a'.step = s
      BY <2>2, <2>3, AwaitedMoves
    <3>. QED  BY <2>2, <2>3, <3>1 DEF StatusInv, Unaccepted, Rating
  <2>4. ASSUME Complete(c), status' = "Resolved"
        PROVE  StatusInv'
    <3>1. attempt'["given_up"] = Idle /\ stage' = "done" /\ a' = Idle
      BY <2>2, <2>4, AwaitedMoves
    <3>. QED  BY <2>4, <3>1 DEF StatusInv, Unaccepted, Rating, Idle
  <2>5. ASSUME Fail(c)
        PROVE  StatusInv'
    <3>1. attempt'["given_up"] = Idle /\ stage' = stage /\ a' = Idle
      BY <2>2, <2>5, AwaitedMoves
    <3>. QED  BY <2>2, <3>1 DEF StatusInv, Unaccepted, Rating, Idle
  <2>6. CASE ReopenForForfeit(c) \/ ReadToRate(c) \/ ResolveMatch(c)
    BY <1>0, <2>3, <2>5, <2>6 DEF ReopenForForfeit, ReadToRate, ResolveMatch
  <2>7. CASE FreePlayers(c) \/ SignalSessionComplete(c)
    <3>1. status' = "Resolved"
      BY <2>1, <2>2, <2>7 DEF FreePlayers, SignalSessionComplete, At, rowVars, StatusInv
    <3>. QED  BY <1>0, <2>3, <2>4, <2>7, <3>1 DEF FreePlayers, SignalSessionComplete
  <2>. QED  BY <1>4, <2>6, <2>7 DEF RateMatch
<1>5. CASE ResolveDispute(c)
  <2>1. /\ attempt[c].of = "resolve_dispute" /\ attempt[c].of \in Activities
        /\ After("resolve_dispute") = "done"
    BY <1>5, AfterFacts DEF ResolveDispute, At, Activities
  <2>2. stage = "resolve_dispute" /\ c = "awaited"
    BY <2>1, AwaitedMoves
  <2>3. ASSUME NEW s \in Steps, GoOn(c, s), s \in {"free_a", "free_b"} => status' = "Disputed"
        PROVE  StatusInv'
    <3>1. attempt'["given_up"] = Idle /\ stage' = stage /\ a'.of = stage /\ a'.step = s
      BY <2>1, <2>3, AwaitedMoves
    <3>. QED  BY <2>2, <2>3, <3>1 DEF StatusInv, Unaccepted, Rating
  <2>4. ASSUME Complete(c), status' \in {"Resolved", "Disputed"}
        PROVE  StatusInv'
    <3>1. attempt'["given_up"] = Idle /\ stage' = "done" /\ a' = Idle
      BY <2>1, <2>2, <2>4, AwaitedMoves
    <3>. QED  BY <2>4, <3>1 DEF StatusInv, Unaccepted, Rating, Idle
  <2>5. At(c, {"resolve_dispute"}, "free_a") \/ At(c, {"resolve_dispute"}, "free_b")
          => status = "Disputed"
    BY <2>2 DEF At, StatusInv
  <2>. QED  BY <1>0, <1>5, <2>3, <2>4, <2>5 DEF ResolveDispute, rowVars
<1>. QED  BY <1>1, <1>2, <1>3, <1>4, <1>5 DEF RunAttempt

LEMMA StepStatus ==
  ASSUME IInv, StatusInv, [Next]_vars, struck' \subseteq {"crash"}
  PROVE  StatusInv'
<1>0. /\ attempt \in [Slots -> Attempts] /\ attempt["given_up"] = Idle
      /\ attempt["awaited"] # Idle => attempt["awaited"].of = stage
      /\ Idle.of \notin Activities /\ stage \in Stages
  BY DEF IInv, TypeOK, AttemptInv, StatusInv, Idle, Activities
<1>1. CASE UNCHANGED <<attempt, stage, status>>
  BY <1>1 DEF StatusInv
<1>2. ASSUME NEW c \in Slots, RunAttempt(c)  PROVE StatusInv'
  BY <1>2, RunAttemptStatus
<1>3. CASE WorkflowStep
  <2>1. UNCHANGED <<attempt, status>> /\ attempt["awaited"] = Idle
    <3>1. stage \notin Activities
      BY <1>3 DEF WorkflowStep, StartP2PMatch, AcceptTimeout, AcceptOver, StartTimeout, StartOver,
                  ReportTimeout, ReportOver, Activities
    <3>. QED  BY <1>3, <3>1, NoneAwaited DEF WorkflowStep, rowVars
  <2>2. \/ stage \in Unaccepted /\ stage' \in {"verify", "handle_decline", "accept_a"}
        \/ stage' \in {"resolve_start_forfeit", "connect_a", "resolve_dispute", "finish_match"}
    BY <1>3 DEF WorkflowStep, StartP2PMatch, AcceptTimeout, AcceptOver, StartTimeout, StartOver,
                ReportTimeout, ReportOver, Unaccepted
  <2>. QED  BY <2>1, <2>2 DEF StatusInv, Unaccepted, Idle, Rating
<1>4. CASE BeginAttempt
  <2>1. /\ UNCHANGED <<status, stage>> /\ attempt'["given_up"] = Idle
        /\ attempt'["awaited"].step = FirstStep(stage)
        /\ stage \in Activities
    BY <1>0, <1>4 DEF BeginAttempt, rowVars, workflowVars, Slots
  <2>2. FirstStep(stage) \in {"read", "mark", "reopen"}
    BY DEF FirstStep
  <2>. QED  BY <2>1, <2>2 DEF StatusInv
<1>5. CASE Crash
  <2>1. /\ status' = status /\ attempt'["given_up"] = Idle /\ attempt'["awaited"] = Idle
        /\ stage' = stage \/ (stage = "unstarted" /\ stage' = "lost")
    BY <1>5 DEF Crash, rowVars, Slots
  <2>. QED  BY <2>1 DEF StatusInv, Unaccepted, Idle, Rating
<1>6. CASE Signal \/ \E p \in Online : Session(p) \/ Disconnect(p)
  BY <1>1, <1>6 DEF Signal, MatchChoice, SignalStart, SignalWhoWon, Session, NotifyMatchFound,
                    HandleSignal, Disconnect, rowVars, workflowVars
<1>7. CASE Over \/ UNCHANGED vars
  BY <1>1, <1>7 DEF Over, vars, rowVars, workflowVars
\* The other faults are none of those this is about.
<1>8. CASE Overrun \/ \E c \in Slots : StatementFails(c)
  <2>1. "overrun" \in struck' \/ "failure" \in struck'
    BY <1>8 DEF Overrun, StatementFails, Strike
  <2>. QED  BY <2>1
<1>. QED  BY <1>1, <1>2, <1>3, <1>4, <1>5, <1>6, <1>7, <1>8 DEF Next

LEMMA StruckGrows == [Next]_vars => struck \subseteq struck'
<1>. SUFFICES ASSUME [Next]_vars  PROVE struck \subseteq struck'
  OBVIOUS
<1>1. ASSUME NEW c \in Slots, RunAttempt(c)  PROVE UNCHANGED struck
  BY <1>1 DEF RunAttempt, SignalSessionComplete
<1>2. CASE WorkflowStep \/ BeginAttempt \/ Signal \/ Over \/ UNCHANGED vars
  BY <1>2 DEF WorkflowStep, BeginAttempt, Signal, Over, vars
<1>3. ASSUME NEW p \in Online, Session(p) \/ Disconnect(p)  PROVE UNCHANGED struck
  BY <1>3 DEF Session, NotifyMatchFound, HandleSignal, Disconnect
<1>4. CASE Overrun \/ Crash \/ \E c \in Slots : StatementFails(c)
  BY <1>4 DEF Overrun, Crash, StatementFails, Strike
<1>. QED  BY <1>1, <1>2, <1>3, <1>4 DEF Next

\* A workflow that ends leaves a match that has ended, resolved or disputed, if no
\* error was ignored and no attempt was given up while it ran: neither a crash
\* between two statements nor the retries after it make the workflow end early.
THEOREM EndedCorrect == Spec => []EndedWhenDone
<1>1. Init => IInv /\ EndInv
  <2>1. Init => EndInv
    BY DEF Init, EndInv, StatusInv, Slots, Unaccepted, Idle, Rating
  <2>. QED  BY <2>1, InitInv
<1>2. IInv /\ EndInv /\ [Next]_vars => (IInv /\ EndInv)'
  <2>1. IInv /\ EndInv /\ [Next]_vars => EndInv'
    BY StepStatus, StruckGrows DEF EndInv
  <2>. QED  BY <2>1, NextInv
<1>3. EndInv => EndedWhenDone
  BY DEF EndInv, StatusInv, EndedWhenDone
<1>. QED  BY <1>1, <1>2, <1>3, PTL DEF Spec

=============================================================================
