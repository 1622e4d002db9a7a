-------------------------- MODULE RankedMatchProofs --------------------------
(* Proofs about RankedMatch for every timeout, lag, report content and bound. *)
EXTENDS RankedMatchOutcome, SequenceTheorems, TLAPS

-----------------------------------------------------------------------------
(* What a command of each kind carries. *)

LEMMA CommandFields ==
  ASSUME NEW c \in Commands
  PROVE  /\ c.by \in Players
         /\ c.kind \in {"accept", "decline", "trying", "connect", "ready", "report", "abandon"}
         /\ c.kind \in {"trying", "connect", "ready"} => c.attempt \in Nat
         /\ c.kind = "connect" => c.reached \in SUBSET Sides
         /\ c.kind = "report" => c.claim \in Reports
  BY DEF Commands

LEMMA OtherPlayer ==
  ASSUME NEW p \in Players
  PROVE  Other(p) \in Players /\ Other(p) # p /\ Other(Other(p)) = p
  BY DEF Players, Other

LEMMA RequestsAreCommands ==
  ASSUME attempt \in Nat
  PROVE  Requests \subseteq Commands
<1>1. 1..attempt \subseteq Nat
  OBVIOUS
<1>2. QED
  BY <1>1 DEF Requests, Commands

\* A verdict names a player, a draw or a dispute, or there is none yet.
LEMMA VerdictType ==
  ASSUME NEW rep \in [Players -> Reports \cup {NoReport}],
         NEW vt \in [Players -> Votes]
  PROVE  Verdict(rep, vt) \in Verdicts \cup {"none"}
<1> DEFINE reporters == {p \in Players : rep[p] # NoReport}
<1>1. \A p \in Players : ClaimedWinner(p, rep[p]) \in Players \cup {"nobody"}
  BY OtherPlayer DEF ClaimedWinner
<1>2. CASE reporters = Players
  BY <1>1, <1>2 DEF Verdict, Verdicts, Players
<1>3. CASE reporters # Players /\ \A p \in Players : vt[p] # "none"
  <2>1. vt["a"] \in Players
    BY <1>3 DEF Votes, Players
  <2>2. Verdict(rep, vt) = IF vt["a"] = vt["b"] THEN Other(vt["a"]) ELSE "disputed"
    BY <1>3 DEF Verdict
  <2>3. QED
    BY <2>1, <2>2, OtherPlayer DEF Verdicts
<1>4. CASE /\ reporters # Players
           /\ ~ \A p \in Players : vt[p] # "none"
           /\ \E p \in reporters : vt[Other(p)] # "none"
  <2> DEFINE p == CHOOSE q \in Players : q \in reporters
  <2>1. p \in Players
    BY <1>4
  <2>2. Verdict(rep, vt) = IF ClaimedWinner(p, rep[p]) \notin {"nobody", vt[Other(p)]}
                           THEN ClaimedWinner(p, rep[p]) ELSE "disputed"
    BY <1>4 DEF Verdict
  <2>3. QED
    BY <1>1, <2>1, <2>2 DEF Verdicts
<1>5. CASE /\ reporters # Players
           /\ ~ \A p \in Players : vt[p] # "none"
           /\ ~ \E p \in reporters : vt[Other(p)] # "none"
  BY <1>5 DEF Verdict
<1>6. QED
  BY <1>2, <1>3, <1>4, <1>5

-----------------------------------------------------------------------------
(* Type correctness, by the pieces the transactions are made of. *)

PhaseType == /\ phase \in Phases /\ version \in Nat
             /\ armed \in BOOLEAN /\ left \in Int
OutcomeType == /\ status \in {"PendingAccept", "Playing", "Resolved"}
               /\ reason \in TimeoutReasons \cup {"none", "declined", "resolved", "disputed"}
               /\ result \in Verdicts \cup {"none"}
               /\ mmrWrites \in Nat
PlayerType == /\ active \in [Players -> BOOLEAN]
              /\ requeued \in [Players -> BOOLEAN]
BarrierType == /\ accepted \in [Players -> BOOLEAN]
               /\ trying \in [Players -> BOOLEAN]
               /\ conn \in [Players -> SUBSET Sides]
               /\ ready \in [Players -> BOOLEAN]
               /\ connAttempt \in [Players -> Nat]
EvidenceType == /\ report \in [Players -> Reports \cup {NoReport}]
                /\ vote \in [Players -> Votes]
WfType == /\ wfPc \in {"unstarted", "drain", "load", "wait", "expire", "drained", "done"}
          /\ wfVersion \in Nat
          /\ wfTimer \in {"none", "running", "due"}
          /\ abandoned \in SUBSET Nat
MatchType == PhaseType /\ OutcomeType /\ PlayerType /\ BarrierType /\ EvidenceType
             /\ attempt \in Nat

LEMMA TypeParts ==
  TypeOK <=> MatchType /\ WfType /\ inbox \in Seq(Commands)
  BY DEF TypeOK, MatchType, PhaseType, OutcomeType, PlayerType, BarrierType,
         EvidenceType, WfType

LEMMA TransitionPhaseType ==
  ASSUME PhaseType, NEW next \in LivePhases, NEW lag \in 0..MaxLag,
         TransitionPhase(next, lag)
  PROVE  PhaseType'
<1>1. Timeout[next] \in Nat
  BY TimeoutAssumption
<1>2. lag \in Int
  BY MaxLagAssumption
<1>3. QED
  BY <1>1, <1>2 DEF PhaseType, TransitionPhase, Phases

LEMMA EndMatchType ==
  ASSUME PhaseType, OutcomeType, PlayerType,
         NEW steps \in Nat, NEW why \in TimeoutReasons \cup {"declined", "resolved", "disputed"},
         NEW requeue \in SUBSET Players, EndMatch(steps, why, requeue)
  PROVE  /\ PhaseType' /\ PlayerType'
         /\ status' \in {"PendingAccept", "Playing", "Resolved"}
         /\ reason' \in TimeoutReasons \cup {"none", "declined", "resolved", "disputed"}
<1>a. phase' = "Terminal" /\ version' = version + steps /\ armed' = FALSE /\ left' = 0
  BY Zenon DEF EndMatch
<1>1. PhaseType'
  <2>1. armed' \in BOOLEAN /\ phase' \in Phases
    BY Zenon, <1>a DEF Phases
  <2>2. version' \in Nat /\ left' \in Int
    BY <1>a DEF PhaseType
  <2>3. QED
    BY <2>1, <2>2 DEF PhaseType
<1>2. /\ status' \in {"PendingAccept", "Playing", "Resolved"}
      /\ reason' \in TimeoutReasons \cup {"none", "declined", "resolved", "disputed"}
  BY DEF EndMatch
<1>5. active' \in [Players -> BOOLEAN]
  BY DEF EndMatch
<1>6. requeued' \in [Players -> BOOLEAN]
  BY Zenon DEF EndMatch, PlayerType
<1>7. QED
  BY <1>1, <1>2, <1>5, <1>6 DEF PlayerType

LEMMA FinalizeType ==
  ASSUME PhaseType, OutcomeType, PlayerType,
         NEW steps \in Nat, NEW verdict \in Verdicts,
         FinalizeUmvc3(steps, verdict)
  PROVE  PhaseType' /\ OutcomeType' /\ PlayerType'
<1>1. CASE result # "none"
  BY <1>1 DEF FinalizeUmvc3, PhaseType, OutcomeType, PlayerType, phaseVars, outcomeVars, playerVars
<1>2. CASE result = "none"
  <2>1. /\ EndMatch(steps, IF verdict = "disputed" THEN "disputed" ELSE "resolved", {})
        /\ result' = verdict
        /\ mmrWrites' = IF verdict = "disputed" THEN mmrWrites ELSE mmrWrites + 1
    BY <1>2 DEF FinalizeUmvc3
  <2>2. result' \in Verdicts \cup {"none"} /\ mmrWrites' \in Nat
    BY <2>1 DEF OutcomeType
  <2>3. QED
    BY <2>1, <2>2, EndMatchType DEF OutcomeType
<1>3. QED
  BY <1>1, <1>2

LEMMA ResolveEvidenceType ==
  ASSUME MatchType,
         NEW rep \in [Players -> Reports \cup {NoReport}],
         NEW vt \in [Players -> Votes],
         NEW lag \in 0..MaxLag,
         ResolveEvidence(rep, vt, lag)
  PROVE  MatchType'
<1> USE DEF MatchType
<1>1. EvidenceType' /\ BarrierType' /\ attempt' \in Nat
  BY DEF ResolveEvidence, EvidenceType, BarrierType, barrierVars
<1>2. CASE Verdict(rep, vt) # "none"
  <2>1. Verdict(rep, vt) \in Verdicts
    BY <1>2, VerdictType
  <2>2. FinalizeUmvc3(IF phase = "Playing" THEN 2 ELSE 1, Verdict(rep, vt))
    BY <1>2 DEF ResolveEvidence
  <2>3. QED
    BY <1>1, <2>1, <2>2, FinalizeType
<1>3. CASE Verdict(rep, vt) = "none" /\ phase = "Playing"
  <2>1. PhaseType'
    BY <1>3, TransitionPhaseType DEF ResolveEvidence, LivePhases
  <2>2. OutcomeType' /\ PlayerType'
    BY <1>3 DEF ResolveEvidence, OutcomeType, PlayerType, outcomeVars, playerVars
  <2>3. QED
    BY <1>1, <2>1, <2>2
<1>4. CASE Verdict(rep, vt) = "none" /\ phase # "Playing"
  BY <1>1, <1>4 DEF ResolveEvidence, PhaseType, OutcomeType, PlayerType,
                    phaseVars, outcomeVars, playerVars
<1>5. QED
  BY <1>2, <1>3, <1>4

LEMMA ApplyType ==
  ASSUME MatchType, NEW c \in Commands, NEW lag \in 0..MaxLag, Apply(c, lag)
  PROVE  MatchType'
<1> USE DEF MatchType
<1>0. c.by \in Players /\ Other(c.by) \in Players
  BY CommandFields, OtherPlayer
<1>1. CASE ApplyAccept(c, lag)
  <2>1. PhaseType'
    BY <1>1, TransitionPhaseType DEF ApplyAccept, PhaseType, phaseVars, LivePhases
  <2>2. BarrierType' /\ attempt' \in Nat
    BY <1>0, <1>1 DEF ApplyAccept, BarrierType
  <2>3. OutcomeType' /\ PlayerType' /\ EvidenceType'
    BY <1>1 DEF ApplyAccept, OutcomeType, PlayerType, EvidenceType,
                outcomeVars, playerVars, evidenceVars
  <2>4. QED
    BY <2>1, <2>2, <2>3
<1>2. CASE ApplyDecline(c)
  <2>1. /\ PhaseType' /\ PlayerType'
        /\ status' \in {"PendingAccept", "Playing", "Resolved"}
        /\ reason' \in TimeoutReasons \cup {"none", "declined", "resolved", "disputed"}
    BY <1>0, <1>2, EndMatchType DEF ApplyDecline, TerminalUnrated
  <2>2. OutcomeType'
    BY <1>2, <2>1 DEF ApplyDecline, TerminalUnrated, OutcomeType
  <2>3. BarrierType' /\ EvidenceType' /\ attempt' \in Nat
    BY <1>2 DEF ApplyDecline, BarrierType, EvidenceType, barrierVars, evidenceVars
  <2>4. QED
    BY <2>1, <2>2, <2>3
<1>3. CASE ApplyTrying(c, lag)
  <2>1. PhaseType'
    BY <1>3, TransitionPhaseType DEF ApplyTrying, PhaseType, phaseVars, LivePhases
  <2>2. BarrierType' /\ attempt' \in Nat
    BY <1>0, <1>3 DEF ApplyTrying, BarrierType
  <2>3. OutcomeType' /\ PlayerType' /\ EvidenceType'
    BY <1>3 DEF ApplyTrying, OutcomeType, PlayerType, EvidenceType,
                outcomeVars, playerVars, evidenceVars
  <2>4. QED
    BY <2>1, <2>2, <2>3
<1>4. CASE ApplyRepublish(c, lag)
  <2>1. PhaseType'
    <3>1. Timeout["AwaitingConnect"] \in Nat /\ lag \in Int
      BY TimeoutAssumption, MaxLagAssumption DEF LivePhases
    <3>2. QED
      BY <1>4, <3>1 DEF ApplyRepublish, PhaseType
  <2>2. BarrierType' /\ attempt' \in Nat
    BY <1>4 DEF ApplyRepublish, BarrierType
  <2>3. OutcomeType' /\ PlayerType' /\ EvidenceType'
    BY <1>4 DEF ApplyRepublish, OutcomeType, PlayerType, EvidenceType,
                outcomeVars, playerVars, evidenceVars
  <2>4. QED
    BY <2>1, <2>2, <2>3
<1>5. CASE ApplyConnect(c, lag)
  <2>1. PhaseType'
    BY <1>5, TransitionPhaseType DEF ApplyConnect, PhaseType, phaseVars, LivePhases
  <2>2. c.reached \in SUBSET Sides /\ c.attempt \in Nat
    BY <1>5, CommandFields DEF ApplyConnect
  <2>3. BarrierType' /\ attempt' \in Nat
    BY <1>0, <1>5, <2>2 DEF ApplyConnect, BarrierType
  <2>4. OutcomeType' /\ PlayerType' /\ EvidenceType'
    BY <1>5 DEF ApplyConnect, OutcomeType, PlayerType, EvidenceType,
                outcomeVars, playerVars, evidenceVars
  <2>5. QED
    BY <2>1, <2>3, <2>4
<1>6. CASE ApplyReady(c, lag)
  <2>1. PhaseType'
    BY <1>6, TransitionPhaseType DEF ApplyReady, PhaseType, phaseVars, LivePhases
  <2>2. BarrierType' /\ attempt' \in Nat
    BY <1>0, <1>6 DEF ApplyReady, BarrierType
  <2>3. OutcomeType' /\ PlayerType' /\ EvidenceType'
    BY <1>6 DEF ApplyReady, playerVars, OutcomeType, PlayerType, EvidenceType, evidenceVars
  <2>4. QED
    BY <2>1, <2>2, <2>3
<1>7. CASE ApplyReport(c, lag)
  <2>1. [report EXCEPT ![c.by] = c.claim] \in [Players -> Reports \cup {NoReport}]
    BY <1>0, <1>7, CommandFields DEF ApplyReport, EvidenceType
  <2>2. QED
    BY <1>7, <2>1, ResolveEvidenceType DEF ApplyReport, EvidenceType
<1>8. CASE ApplyAbandon(c, lag)
  <2>1. [vote EXCEPT ![c.by] = IF c.target = "self" THEN c.by ELSE Other(c.by)]
          \in [Players -> Votes]
    BY <1>0 DEF EvidenceType, Votes
  <2>2. QED
    BY <1>8, <2>1, ResolveEvidenceType DEF ApplyAbandon, EvidenceType
<1>9. QED
  BY <1>1, <1>2, <1>3, <1>4, <1>5, <1>6, <1>7, <1>8 DEF Apply

LEMMA ExpirePhaseType ==
  ASSUME MatchType, NEW expected, NEW lag, ExpirePhase(expected, lag)
  PROVE  MatchType'
<1> USE DEF MatchType
<1>1. BarrierType' /\ EvidenceType' /\ attempt' \in Nat
  BY DEF ExpirePhase, BarrierType, EvidenceType, barrierVars, evidenceVars
<1>2. CASE ~ExpiryDue(expected, lag)
  BY <1>1, <1>2 DEF ExpirePhase, PhaseType, OutcomeType, PlayerType,
                    phaseVars, outcomeVars, playerVars
<1>3. CASE ExpiryDue(expected, lag) /\ phase \in Evidential
  BY <1>1, <1>3, FinalizeType DEF ExpirePhase, Verdicts
<1>4. CASE ExpiryDue(expected, lag) /\ phase \notin Evidential
  <2>1. TerminalUnrated(TimeoutReason, Responders)
    BY <1>4 DEF ExpirePhase
  <2>2. Responders \in SUBSET Players /\ TimeoutReason \in TimeoutReasons
    BY DEF Responders, TimeoutReason, TimeoutReasons
  <2>3. /\ PhaseType' /\ PlayerType'
        /\ status' \in {"PendingAccept", "Playing", "Resolved"}
        /\ reason' \in TimeoutReasons \cup {"none", "declined", "resolved", "disputed"}
    BY <2>1, <2>2, EndMatchType DEF TerminalUnrated
  <2>4. OutcomeType'
    BY <2>1, <2>3 DEF TerminalUnrated, OutcomeType
  <2>5. QED
    BY <1>1, <2>3, <2>4
<1>5. QED
  BY <1>2, <1>3, <1>4

LEMMA MatchUnchangedType ==
  ASSUME MatchType, UNCHANGED matchVars
  PROVE  MatchType'
BY DEF MatchType, PhaseType, OutcomeType, PlayerType, BarrierType, EvidenceType,
       matchVars, phaseVars, outcomeVars, playerVars, barrierVars, evidenceVars

LEMMA TypeInit == Init => TypeOK
<1> SUFFICES ASSUME Init PROVE TypeOK
  OBVIOUS
<1>1. PhaseType
  <2>1. PICK lag \in 0..MaxLag : left = Timeout["AwaitingAccepted"] - lag
    BY DEF Init
  <2>2. lag \in Int /\ Timeout["AwaitingAccepted"] \in Nat
    BY MaxLagAssumption, TimeoutAssumption DEF LivePhases
  <2>3. QED
    BY <2>1, <2>2 DEF Init, PhaseType, Phases, LivePhases
<1>2. OutcomeType /\ PlayerType /\ BarrierType /\ EvidenceType /\ WfType
  BY DEF Init, OutcomeType, PlayerType, BarrierType, EvidenceType, WfType, Votes
<1>3. attempt \in Nat /\ inbox \in Seq(Commands)
  BY DEF Init
<1>4. QED
  BY <1>1, <1>2, <1>3, TypeParts DEF MatchType

LEMMA TypeNext == TypeOK /\ [Next]_vars => TypeOK'
<1> SUFFICES ASSUME TypeOK, [Next]_vars PROVE TypeOK'
  OBVIOUS
<1>0. MatchType /\ WfType /\ inbox \in Seq(Commands)
  BY TypeParts
<1>p. (MatchType /\ WfType /\ inbox \in Seq(Commands))' => TypeOK'
  BY DEF TypeOK, MatchType, PhaseType, OutcomeType, PlayerType, BarrierType,
         EvidenceType, WfType
<1>1. CASE Admit
  <2>1. PICK lag \in 0..MaxLag, c \in Requests : AdmitMatchCommand(c, lag)
    BY <1>1 DEF Admit
  <2>2. c \in Commands
    BY <1>0, RequestsAreCommands DEF MatchType
  <2>3. inbox' \in Seq(Commands)
    BY <1>0, <2>1, <2>2, AppendProperties DEF AdmitMatchCommand
  <2>4. MatchType'
    BY <1>0, <2>1, MatchUnchangedType DEF AdmitMatchCommand
  <2>5. WfType'
    BY <1>0, <2>1 DEF AdmitMatchCommand, WfType, wfVars
  <2>6. QED
    BY <1>p, <2>3, <2>4, <2>5
<1>2. CASE Drain
  <2>1. PICK lag \in 0..MaxLag : DrainOneMatchCommand(lag)
    BY <1>2 DEF Drain
  <2>2. Head(inbox) \in Commands /\ inbox' \in Seq(Commands)
    BY <1>0, <2>1, HeadTailProperties DEF DrainOneMatchCommand
  <2>3. MatchType'
    BY <1>0, <2>1, <2>2, ApplyType, MatchUnchangedType DEF DrainOneMatchCommand, Reject
  <2>4. WfType'
    BY <1>0, <2>1 DEF DrainOneMatchCommand, WfType, wfVars
  <2>5. QED
    BY <1>p, <2>2, <2>3, <2>4
<1>3. CASE WfAdvance
  <2>1. UNCHANGED <<matchVars, inbox>>
    BY <1>3 DEF WfAdvance, WfStart, WfDrained, WfLoad, WfPoll, WfTimerFires, WfExpireDrained
  <2>2. WfType'
    BY <1>0, <1>3 DEF WfAdvance, WfStart, WfDrained, WfLoad, WfPoll, WfTimerFires,
                      WfExpireDrained, WfType, MatchType, PhaseType
  <2>3. QED
    BY <1>0, <1>p, <2>1, <2>2, MatchUnchangedType
<1>4. CASE WfExpire
  <2>1. PICK lag \in 0..MaxLag : WfExpirePhase(lag)
    BY <1>4 DEF WfExpire
  <2>2. MatchType' /\ inbox' = inbox
    BY <1>0, <2>1, ExpirePhaseType DEF WfExpirePhase, ExpirePhase
  <2>3. WfType'
    BY <1>0, <2>1 DEF WfExpirePhase, WfType
  <2>4. QED
    BY <1>0, <1>p, <2>2, <2>3
<1>5. CASE WfExpireRetried
  <2>1. MatchType' /\ inbox' = inbox
    BY <1>0, <1>5, MatchUnchangedType DEF WfExpireRetried
  <2>2. WfType'
    BY <1>0, <1>5 DEF WfExpireRetried, WfType
  <2>3. QED
    BY <1>0, <1>p, <2>1, <2>2
<1>6. CASE \E lag \in 0..MaxLag : LateExpire(lag)
  <2>1. PICK lag \in 0..MaxLag, v \in abandoned :
          /\ ExpirePhase(v, lag)
          /\ abandoned' = abandoned \ {v}
          /\ UNCHANGED <<wfPc, wfVersion, wfTimer>>
    BY <1>6 DEF LateExpire
  <2>2. MatchType' /\ inbox' = inbox
    BY <1>0, <2>1, ExpirePhaseType DEF ExpirePhase
  <2>3. WfType'
    BY <1>0, <2>1 DEF WfType
  <2>4. QED
    BY <1>0, <1>p, <2>2, <2>3
<1>7. CASE Tick
  <2>1. MatchType'
    BY <1>0, <1>7 DEF Tick, MatchType, PhaseType, OutcomeType, PlayerType, BarrierType,
                      EvidenceType, outcomeVars, playerVars, barrierVars, evidenceVars
  <2>2. WfType' /\ inbox' = inbox
    BY <1>0, <1>7 DEF Tick, WfType, wfVars
  <2>3. QED
    BY <1>0, <1>p, <2>1, <2>2
<1>8. CASE UNCHANGED vars
  <2>1. UNCHANGED <<matchVars, inbox, wfVars>>
    BY <1>8 DEF vars
  <2>2. WfType'
    BY <1>0, <2>1 DEF WfType, wfVars
  <2>3. QED
    BY <1>0, <1>p, <2>1, <2>2, MatchUnchangedType
<1>9. QED
  BY <1>1, <1>2, <1>3, <1>4, <1>5, <1>6, <1>7, <1>8 DEF Next, Settled

\* Every variable holds a value its column or register can hold, in every
\* state of the match (the columns' CHECK lists of the umvc3_matches migration).
THEOREM TypeCorrect == Spec => []TypeOK
<1>1. QED
  BY TypeInit, TypeNext, PTL DEF Spec

-----------------------------------------------------------------------------
(* What a step does to the match: a command is applied, a phase expires, time *)
(* passes, or the match is left alone.                                        *)

LEMMA MatchSteps ==
  ASSUME TypeOK, [Next]_vars
  PROVE  \/ \E c \in Commands, lag \in 0..MaxLag : Apply(c, lag)
         \/ \E v \in Nat, lag \in 0..MaxLag : ExpirePhase(v, lag)
         \/ Tick
         \/ UNCHANGED matchVars
<1>1. CASE Admit
  BY <1>1 DEF Admit, AdmitMatchCommand
<1>2. CASE Drain
  <2>1. PICK lag \in 0..MaxLag : DrainOneMatchCommand(lag)
    BY <1>2 DEF Drain
  <2>2. Head(inbox) \in Commands
    BY <2>1, HeadTailProperties DEF DrainOneMatchCommand, TypeOK
  <2>3. QED
    BY <2>1, <2>2 DEF DrainOneMatchCommand, Reject
<1>3. CASE WfAdvance
  BY <1>3 DEF WfAdvance, WfStart, WfDrained, WfLoad, WfPoll, WfTimerFires, WfExpireDrained
<1>4. CASE WfExpire
  BY <1>4 DEF WfExpire, WfExpirePhase, TypeOK
<1>5. CASE WfExpireRetried
  BY <1>5 DEF WfExpireRetried
<1>6. CASE \E lag \in 0..MaxLag : LateExpire(lag)
  <2>1. PICK lag \in 0..MaxLag, v \in abandoned : ExpirePhase(v, lag)
    BY <1>6 DEF LateExpire
  <2>2. v \in Nat
    BY DEF TypeOK
  <2>3. QED
    BY <2>1, <2>2
<1>7. CASE Tick
  BY <1>7
<1>8. CASE UNCHANGED vars
  BY <1>8 DEF vars
<1>9. QED
  BY <1>1, <1>2, <1>3, <1>4, <1>5, <1>6, <1>7, <1>8 DEF Next, Settled

-----------------------------------------------------------------------------
(* Ownership.  The property is inductive as it stands.                          *)

LEMMA EndMatchOwned ==
  ASSUME TypeOK, OwnedWhileLive, phase # "Terminal",
         NEW steps \in Nat, NEW why, NEW requeue \in SUBSET Players,
         EndMatch(steps, why, requeue)
  PROVE  OwnedWhileLive'
<1>1. phase' = "Terminal" /\ status' = "Resolved"
  BY Zenon DEF EndMatch
<1>2. \A p \in Players : ~active'[p]
  BY Zenon DEF EndMatch
<1>3. QED
  BY <1>1, <1>2 DEF OwnedWhileLive

LEMMA FinalizeOwned ==
  ASSUME TypeOK, OwnedWhileLive, phase # "Terminal", NEW steps \in Nat, NEW verdict,
         FinalizeUmvc3(steps, verdict)
  PROVE  OwnedWhileLive'
<1>1. CASE result # "none"
  BY <1>1 DEF FinalizeUmvc3, OwnedWhileLive,
              phaseVars, outcomeVars, playerVars
<1>2. CASE result = "none"
  BY <1>2, EndMatchOwned DEF FinalizeUmvc3
<1>3. QED
  BY <1>1, <1>2

LEMMA ApplyOwned ==
  ASSUME TypeOK, OwnedWhileLive, NEW c \in Commands, NEW lag \in 0..MaxLag, Apply(c, lag)
  PROVE  OwnedWhileLive'
<1>1. phase # "Terminal" /\ c.by \in Players /\ Other(c.by) \in Players
  BY CommandFields, OtherPlayer DEF Apply, Applicable
<1>2. CASE ApplyAccept(c, lag) \/ ApplyTrying(c, lag) \/ ApplyConnect(c, lag)
  <2>1. UNCHANGED <<outcomeVars, playerVars>>
    BY <1>2 DEF ApplyAccept, ApplyTrying, ApplyConnect
  <2>2. \/ phase' = phase
        \/ phase' \in {"AwaitingTrying", "AwaitingConnect", "AwaitingReady"}
    BY <1>2 DEF ApplyAccept, ApplyTrying, ApplyConnect, TransitionPhase, phaseVars
  <2>3. QED
    BY <1>1, <2>1, <2>2 DEF OwnedWhileLive, Evidential,
                            outcomeVars, playerVars
<1>3. CASE ApplyDecline(c)
  BY <1>1, <1>3, EndMatchOwned DEF ApplyDecline, TerminalUnrated
<1>4. CASE ApplyRepublish(c, lag)
  BY <1>4 DEF ApplyRepublish, OwnedWhileLive, outcomeVars, playerVars
<1>5. CASE ApplyReady(c, lag)
  <2>1. CASE ready[Other(c.by)]
    BY <1>1, <1>5, <2>1 DEF ApplyReady, playerVars, TransitionPhase, OwnedWhileLive
  <2>2. CASE ~ready[Other(c.by)]
    BY <1>5, <2>2 DEF ApplyReady, playerVars, OwnedWhileLive, phaseVars
  <2>3. QED
    BY <2>1, <2>2
<1>6. CASE ApplyReport(c, lag) \/ ApplyAbandon(c, lag)
  <2>1. PICK rep, vt : ResolveEvidence(rep, vt, lag)
    BY <1>6 DEF ApplyReport, ApplyAbandon
  <2>2. phase \in Evidential
    BY <1>6 DEF Apply, Applicable, ApplyReport, ApplyAbandon
  <2>3. CASE Verdict(rep, vt) # "none"
    BY <1>1, <2>1, <2>3, FinalizeOwned DEF ResolveEvidence
  <2>4. CASE Verdict(rep, vt) = "none"
    BY <2>1, <2>2, <2>4 DEF ResolveEvidence, TransitionPhase, OwnedWhileLive,
                            Evidential, phaseVars, outcomeVars, playerVars
  <2>5. QED
    BY <2>3, <2>4
<1>7. QED
  BY <1>2, <1>3, <1>4, <1>5, <1>6 DEF Apply

LEMMA OwnedNext == TypeOK /\ OwnedWhileLive /\ [Next]_vars => OwnedWhileLive'
<1> SUFFICES ASSUME TypeOK, OwnedWhileLive, [Next]_vars PROVE OwnedWhileLive'
  OBVIOUS
<1>1. ASSUME NEW c \in Commands, NEW lag \in 0..MaxLag, Apply(c, lag)
      PROVE  OwnedWhileLive'
  BY <1>1, ApplyOwned
<1>2. ASSUME NEW v \in Nat, NEW lag \in 0..MaxLag, ExpirePhase(v, lag)
      PROVE  OwnedWhileLive'
  <2>1. CASE ~ExpiryDue(v, lag)
    BY <1>2, <2>1 DEF ExpirePhase, OwnedWhileLive,
                      phaseVars, outcomeVars, playerVars
  <2>2. CASE ExpiryDue(v, lag) /\ phase \in Evidential
    BY <1>2, <2>2, FinalizeOwned DEF ExpirePhase, ExpiryDue
  <2>3. CASE ExpiryDue(v, lag) /\ phase \notin Evidential
    <3>1. Responders \in SUBSET Players
      BY DEF Responders
    <3>2. QED
      BY <1>2, <2>3, <3>1, EndMatchOwned DEF ExpirePhase, ExpiryDue, TerminalUnrated
  <2>4. QED
    BY <2>1, <2>2, <2>3
<1>3. CASE Tick
  BY <1>3 DEF Tick, OwnedWhileLive, outcomeVars, playerVars
<1>4. CASE UNCHANGED matchVars
  BY <1>4 DEF OwnedWhileLive, matchVars, phaseVars, outcomeVars, playerVars
<1>5. QED
  BY <1>1, <1>2, <1>3, <1>4, MatchSteps

\* A live match owns both its players and an ended one neither, so that none is
\* left held by a match nobody will end (terminal_unrated, finalize_umvc3_in_tx).
THEOREM OwnedCorrect == Spec => []OwnedWhileLive
<1>1. Init => OwnedWhileLive
  BY DEF Init, OwnedWhileLive, Evidential
<1>2. QED
  BY <1>1, OwnedNext, TypeCorrect, PTL DEF Spec

-----------------------------------------------------------------------------
(* Ratings.  That the result rests on what the loser conceded is preserved only *)
(* because evidence and result freeze together when the match ends.             *)

\* What the evidence rule promises of the verdict it computes.
LEMMA VerdictConceded ==
  ASSUME NEW rep \in [Players -> Reports \cup {NoReport}],
         NEW vt \in [Players -> Votes]
  PROVE  /\ Verdict(rep, vt) \in Players =>
              LET loser == Other(Verdict(rep, vt))
              IN rep[loser].outcome = "loss" \/ vt[loser] = loser
         /\ Verdict(rep, vt) = "draw" => \A p \in Players : rep[p].outcome = "draw"
<1> DEFINE reporters == {p \in Players : rep[p] # NoReport}
           winner(p) == ClaimedWinner(p, rep[p])
<1>0. \A p \in reporters :
        /\ winner(p) = Other(p) => rep[p].outcome = "loss"
        /\ winner(p) = "nobody" => rep[p].outcome = "draw"
        /\ winner(p) \in {p, Other(p), "nobody"}
  BY OtherPlayer DEF ClaimedWinner, Reports, NoReport, Players, Other
<1>1. CASE reporters = Players
  <2>1. Verdict(rep, vt) =
          IF winner("a") # winner("b") \/ rep["a"].data # rep["b"].data THEN "disputed"
          ELSE IF winner("a") = "nobody" THEN "draw" ELSE winner("a")
    BY <1>1 DEF Verdict
  <2>2. QED
    BY <1>0, <1>1, <2>1 DEF Players, Other
<1>2. CASE reporters # Players /\ \A p \in Players : vt[p] # "none"
  <2>1. Verdict(rep, vt) = IF vt["a"] = vt["b"] THEN Other(vt["a"]) ELSE "disputed"
    BY <1>2 DEF Verdict
  <2>2. QED
    BY <1>2, <2>1 DEF Votes, Players, Other
<1>3. CASE /\ reporters # Players
           /\ ~ \A p \in Players : vt[p] # "none"
           /\ \E p \in reporters : vt[Other(p)] # "none"
  <2> DEFINE p == CHOOSE q \in Players : q \in reporters
  <2>1. p \in reporters /\ \A q \in reporters : q = p
    <3>1. p \in reporters
      BY <1>3
    <3>2. QED
      BY <1>3, <3>1 DEF Players
  <2>2. vt[Other(p)] \in Players
    BY <1>3, <2>1, OtherPlayer DEF Votes
  <2>3. Verdict(rep, vt) =
          IF winner(p) \notin {"nobody", vt[Other(p)]} THEN winner(p) ELSE "disputed"
    BY <1>3 DEF Verdict
  <2>4. CASE winner(p) \notin {"nobody", vt[Other(p)]}
    <3>1. winner(p) \in {p, Other(p)} /\ vt[Other(p)] \in {p, Other(p)} /\ p \in Players
      BY <1>0, <2>1, <2>2, <2>4 DEF Players, Other
    <3>2. winner(p) = p => vt[Other(p)] = Other(p)
      BY <2>4, <3>1
    <3>3. winner(p) = Other(p) => rep[p].outcome = "loss"
      BY <1>0, <2>1
    <3>4. QED
      BY <2>3, <2>4, <3>1, <3>2, <3>3, OtherPlayer DEF Players
  <2>5. CASE winner(p) \in {"nobody", vt[Other(p)]}
    BY <2>3, <2>5 DEF Players
  <2>6. QED
    BY <2>4, <2>5
<1>4. CASE /\ reporters # Players
           /\ ~ \A p \in Players : vt[p] # "none"
           /\ ~ \E p \in reporters : vt[Other(p)] # "none"
  BY <1>4 DEF Verdict, Players
<1>5. QED
  BY <1>1, <1>2, <1>3, <1>4

NoResultYet == phase # "Terminal" => result = "none" /\ reason = "none"
Rated == RatedLossIsConceded /\ RatedAtMostOnce /\ NoResultYet

LEMMA FinalizeRated ==
  ASSUME TypeOK, Rated, phase # "Terminal", NEW steps \in Nat, NEW verdict \in Verdicts,
         FinalizeUmvc3(steps, verdict),
         verdict \in Players => Conceded(Other(verdict))',
         verdict = "draw" => \A p \in Players : report'[p].outcome = "draw"
  PROVE  Rated'
<1>1. result = "none" /\ mmrWrites = 0
  BY DEF Rated, NoResultYet, RatedAtMostOnce, Players
<1>2. /\ phase' = "Terminal"
      /\ reason' = IF verdict = "disputed" THEN "disputed" ELSE "resolved"
      /\ result' = verdict
      /\ mmrWrites' = IF verdict = "disputed" THEN mmrWrites ELSE mmrWrites + 1
  BY Zenon, <1>1 DEF FinalizeUmvc3, EndMatch
<1>3. QED
  BY <1>1, <1>2 DEF Rated, RatedLossIsConceded, RatedAtMostOnce, NoResultYet, Verdicts, Players

LEMMA UnratedEnd ==
  ASSUME TypeOK, Rated, phase # "Terminal", UNCHANGED evidenceVars,
         NEW why \in TimeoutReasons \cup {"declined"}, NEW requeue,
         TerminalUnrated(why, requeue)
  PROVE  Rated'
<1>1. phase' = "Terminal" /\ reason' = why /\ result' = result /\ mmrWrites' = mmrWrites
  BY Zenon DEF TerminalUnrated, EndMatch
<1>2. result = "none"
  BY DEF Rated, NoResultYet
<1>3. QED
  BY <1>1, <1>2 DEF Rated, RatedLossIsConceded, RatedAtMostOnce, NoResultYet,
                    TimeoutReasons, Players

LEMMA ApplyRated ==
  ASSUME TypeOK, Rated, NEW c \in Commands, NEW lag \in 0..MaxLag, Apply(c, lag)
  PROVE  Rated'
<1>1. phase # "Terminal" /\ result = "none" /\ reason = "none"
  BY DEF Apply, Applicable, Rated, NoResultYet
<1>2. ASSUME UNCHANGED <<reason, result, mmrWrites>>
      PROVE  Rated'
  BY <1>1, <1>2 DEF Rated, RatedLossIsConceded, RatedAtMostOnce, NoResultYet, Players
<1>3. CASE ApplyAccept(c, lag) \/ ApplyTrying(c, lag) \/ ApplyRepublish(c, lag)
           \/ ApplyConnect(c, lag) \/ ApplyReady(c, lag)
  BY <1>2, <1>3 DEF ApplyAccept, ApplyTrying, ApplyRepublish, ApplyConnect, ApplyReady, outcomeVars
<1>4. CASE ApplyDecline(c)
  BY <1>1, <1>4, UnratedEnd DEF ApplyDecline
<1>5. ASSUME NEW rep \in [Players -> Reports \cup {NoReport}],
             NEW vt \in [Players -> Votes],
             ResolveEvidence(rep, vt, lag)
      PROVE  Rated'
  <2>1. CASE Verdict(rep, vt) = "none"
    BY <1>2, <1>5, <2>1 DEF ResolveEvidence, outcomeVars
  <2>2. CASE Verdict(rep, vt) # "none"
    <3>1. Verdict(rep, vt) \in Verdicts
      BY <2>2, VerdictType
    <3>2. FinalizeUmvc3(IF phase = "Playing" THEN 2 ELSE 1, Verdict(rep, vt))
      BY <1>5, <2>2 DEF ResolveEvidence
    <3>3. report' = rep /\ vote' = vt
      BY <1>5 DEF ResolveEvidence
    <3>4. /\ Verdict(rep, vt) \in Players => Conceded(Other(Verdict(rep, vt)))'
          /\ Verdict(rep, vt) = "draw" => \A p \in Players : report'[p].outcome = "draw"
      BY <3>3, VerdictConceded DEF Conceded
    <3>5. QED
      BY <1>1, <3>1, <3>2, <3>4, FinalizeRated
  <2>3. QED
    BY <2>1, <2>2
<1>6. CASE ApplyReport(c, lag)
  <2>1. [report EXCEPT ![c.by] = c.claim] \in [Players -> Reports \cup {NoReport}]
    BY <1>6, CommandFields DEF ApplyReport, TypeOK
  <2>2. QED
    BY <1>5, <1>6, <2>1 DEF ApplyReport, TypeOK
<1>7. CASE ApplyAbandon(c, lag)
  <2>1. [vote EXCEPT ![c.by] = IF c.target = "self" THEN c.by ELSE Other(c.by)]
          \in [Players -> Votes]
    BY CommandFields, OtherPlayer DEF TypeOK, Votes
  <2>2. QED
    BY <1>5, <1>7, <2>1 DEF ApplyAbandon, TypeOK
<1>8. QED
  BY <1>3, <1>4, <1>6, <1>7 DEF Apply

LEMMA RatedNext == TypeOK /\ Rated /\ [Next]_vars => Rated'
<1> SUFFICES ASSUME TypeOK, Rated, [Next]_vars PROVE Rated'
  OBVIOUS
<1>1. ASSUME UNCHANGED <<phase, evidenceVars, outcomeVars>> PROVE Rated'
  BY <1>1 DEF Rated, RatedLossIsConceded, RatedAtMostOnce, NoResultYet, Conceded,
              evidenceVars, outcomeVars
<1>2. ASSUME NEW c \in Commands, NEW lag \in 0..MaxLag, Apply(c, lag)
      PROVE  Rated'
  BY <1>2, ApplyRated
<1>3. ASSUME NEW v \in Nat, NEW lag \in 0..MaxLag, ExpirePhase(v, lag)
      PROVE  Rated'
  <2>1. CASE ~ExpiryDue(v, lag)
    BY <1>1, <1>3, <2>1 DEF ExpirePhase, phaseVars
  <2>2. CASE ExpiryDue(v, lag) /\ phase \in Evidential
    BY <1>3, <2>2, FinalizeRated DEF ExpirePhase, ExpiryDue, Verdicts, Players
  <2>3. CASE ExpiryDue(v, lag) /\ phase \notin Evidential
    <3>1. TimeoutReason \in TimeoutReasons
      BY DEF TimeoutReason, TimeoutReasons
    <3>2. QED
      BY <1>3, <2>3, <3>1, UnratedEnd DEF ExpirePhase, ExpiryDue
  <2>4. QED
    BY <2>1, <2>2, <2>3
<1>4. CASE Tick
  BY <1>1, <1>4 DEF Tick
<1>5. CASE UNCHANGED matchVars
  BY <1>1, <1>5 DEF matchVars, phaseVars
<1>6. QED
  BY <1>2, <1>3, <1>4, <1>5, MatchSteps

LEMMA RatedAlways == Spec => []Rated
<1>1. Init => Rated
  BY DEF Init, Rated, RatedLossIsConceded, RatedAtMostOnce, NoResultYet, Players
<1>2. QED
  BY <1>1, RatedNext, TypeCorrect, PTL DEF Spec

\* A rated result always rests on the loser's own report or vote, and a draw on
\* both reports (the ratified rule of resolve_evidence).
THEOREM RatedLossCorrect == Spec => []RatedLossIsConceded
<1>1. Rated => RatedLossIsConceded
  BY DEF Rated
<1>2. QED
  BY <1>1, RatedAlways, PTL

\* Ratings are written exactly once for a rated result, and never otherwise
\* (finalize_umvc3_in_tx's check for an existing result).
THEOREM RatedOnceCorrect == Spec => []RatedAtMostOnce
<1>1. Rated => RatedAtMostOnce
  BY DEF Rated
<1>2. QED
  BY <1>1, RatedAlways, PTL

-----------------------------------------------------------------------------
(* Attempts and evidence. *)

\* A connection fact that counts was reported for the current attempt
\* (apply_match_command's attempt check and the replacement's reset).
THEOREM ConnectionsCorrect == Spec => []ConnectionsAreOfThisAttempt
<1>1. Init => ConnectionsAreOfThisAttempt
  BY DEF Init, ConnectionsAreOfThisAttempt
<1>2. TypeOK /\ ConnectionsAreOfThisAttempt /\ [Next]_vars => ConnectionsAreOfThisAttempt'
  <2> SUFFICES ASSUME TypeOK, ConnectionsAreOfThisAttempt, [Next]_vars
               PROVE  ConnectionsAreOfThisAttempt'
    OBVIOUS
  <2>1. ASSUME UNCHANGED <<attempt, conn, connAttempt>>
        PROVE  ConnectionsAreOfThisAttempt'
    BY <2>1 DEF ConnectionsAreOfThisAttempt
  <2>2. ASSUME NEW c \in Commands, NEW lag \in 0..MaxLag, Apply(c, lag)
        PROVE  ConnectionsAreOfThisAttempt'
    <3>1. CASE ApplyConnect(c, lag)
      <4>1. c.attempt = attempt /\ c.by \in Players
        BY <2>2, <3>1, CommandFields DEF Apply, Applicable, ApplyConnect
      <4>2. /\ attempt' = attempt
            /\ connAttempt' = [connAttempt EXCEPT ![c.by] = c.attempt]
            /\ \A p \in Players : p # c.by => conn'[p] = conn[p]
        BY <3>1 DEF ApplyConnect, TypeOK
      <4>3. QED
        BY <4>1, <4>2 DEF ConnectionsAreOfThisAttempt, TypeOK
    <3>2. CASE ApplyRepublish(c, lag)
      BY <3>2 DEF ApplyRepublish, ConnectionsAreOfThisAttempt
    <3>3. CASE \/ ApplyAccept(c, lag) \/ ApplyDecline(c) \/ ApplyTrying(c, lag)
               \/ ApplyReady(c, lag) \/ ApplyReport(c, lag) \/ ApplyAbandon(c, lag)
      BY <2>1, <3>3 DEF ApplyAccept, ApplyDecline, ApplyTrying, ApplyReady, ApplyReport,
                        ApplyAbandon, ResolveEvidence, barrierVars
    <3>4. QED
      BY <2>2, <3>1, <3>2, <3>3 DEF Apply
  <2>3. ASSUME NEW v \in Nat, NEW lag \in 0..MaxLag, ExpirePhase(v, lag)
        PROVE  ConnectionsAreOfThisAttempt'
    BY <2>1, <2>3 DEF ExpirePhase, barrierVars
  <2>4. CASE Tick \/ UNCHANGED matchVars
    BY <2>1, <2>4 DEF Tick, matchVars, barrierVars
  <2>5. QED
    BY <2>2, <2>3, <2>4, MatchSteps
<1>3. QED
  BY <1>1, <1>2, TypeCorrect, PTL DEF Spec

\* While reports are awaited no verdict can be made of them, and before that
\* there is no evidence (resolve_evidence looks at the evidence it just stored).
THEOREM NoVerdictCorrect == Spec => []NoVerdictLeftUndecided
<1>1. Init => NoVerdictLeftUndecided
  BY DEF Init, NoVerdictLeftUndecided
<1>2. TypeOK /\ Rated /\ NoVerdictLeftUndecided /\ [Next]_vars => NoVerdictLeftUndecided'
  <2> SUFFICES ASSUME TypeOK, Rated, NoVerdictLeftUndecided, [Next]_vars
               PROVE  NoVerdictLeftUndecided'
    OBVIOUS
  <2>1. ASSUME UNCHANGED <<phase, evidenceVars>> PROVE NoVerdictLeftUndecided'
    BY <2>1 DEF NoVerdictLeftUndecided, evidenceVars
  <2>2. ASSUME phase' = "Terminal" PROVE NoVerdictLeftUndecided'
    BY <2>2 DEF NoVerdictLeftUndecided
  <2>3. ASSUME NEW c \in Commands, NEW lag \in 0..MaxLag, Apply(c, lag)
        PROVE  NoVerdictLeftUndecided'
    <3>1. CASE ApplyAccept(c, lag) \/ ApplyTrying(c, lag) \/ ApplyConnect(c, lag)
               \/ ApplyReady(c, lag)
      <4>1. UNCHANGED evidenceVars /\ phase \notin {"AwaitingReport", "Terminal"}
        BY <2>3, <3>1 DEF Apply, Applicable, Republishes, ApplyAccept, ApplyTrying,
                          ApplyConnect, ApplyReady
      <4>2. phase' # "AwaitingReport"
        BY <3>1, <4>1 DEF ApplyAccept, ApplyTrying, ApplyConnect, ApplyReady,
                          TransitionPhase, phaseVars
      <4>3. QED
        BY <4>1, <4>2 DEF NoVerdictLeftUndecided, evidenceVars
    <3>2. CASE ApplyDecline(c)
      BY <2>2, <3>2 DEF ApplyDecline, TerminalUnrated, EndMatch
    <3>3. CASE ApplyRepublish(c, lag)
      BY <2>1, <3>3 DEF ApplyRepublish
    <3>4. CASE ApplyReport(c, lag) \/ ApplyAbandon(c, lag)
      <4>1. PICK rep, vt : ResolveEvidence(rep, vt, lag)
        BY <3>4 DEF ApplyReport, ApplyAbandon
      <4>2. phase \in Evidential /\ result = "none"
        BY <2>3, <3>4 DEF Apply, Applicable, ApplyReport, ApplyAbandon, Rated, NoResultYet
      <4>3. CASE Verdict(rep, vt) = "none"
        BY <4>1, <4>2, <4>3 DEF ResolveEvidence, TransitionPhase, phaseVars, Evidential,
                                NoVerdictLeftUndecided
      <4>4. CASE Verdict(rep, vt) # "none"
        BY <2>2, <4>1, <4>2, <4>4 DEF ResolveEvidence, FinalizeUmvc3, EndMatch
      <4>5. QED
        BY <4>3, <4>4
    <3>5. QED
      BY <2>3, <3>1, <3>2, <3>3, <3>4 DEF Apply
  <2>4. ASSUME NEW v \in Nat, NEW lag \in 0..MaxLag, ExpirePhase(v, lag)
        PROVE  NoVerdictLeftUndecided'
    <3>1. UNCHANGED phase \/ phase' = "Terminal"
      BY <2>4 DEF ExpirePhase, FinalizeUmvc3, TerminalUnrated, EndMatch, phaseVars
    <3>2. QED
      BY <2>1, <2>2, <2>4, <3>1 DEF ExpirePhase
  <2>5. CASE Tick \/ UNCHANGED matchVars
    BY <2>1, <2>5 DEF Tick, matchVars, phaseVars
  <2>6. QED
    BY <2>3, <2>4, <2>5, MatchSteps
<1>3. QED
  BY <1>1, <1>2, RatedAlways, TypeCorrect, PTL DEF Spec

-----------------------------------------------------------------------------
(* Action properties. *)

\* An ended match has no deadline: no tick moves it.
DisarmedAtEnd == phase = "Terminal" => ~armed

LEMMA DisarmedAlways == Spec => []DisarmedAtEnd
<1>1. Init => DisarmedAtEnd
  BY DEF Init, DisarmedAtEnd
<1>2. TypeOK /\ DisarmedAtEnd /\ [Next]_vars => DisarmedAtEnd'
  <2> SUFFICES ASSUME TypeOK, DisarmedAtEnd, [Next]_vars PROVE DisarmedAtEnd'
    OBVIOUS
  <2>1. ASSUME NEW steps, NEW why, NEW requeue, EndMatch(steps, why, requeue)
        PROVE  ~armed'
    BY <2>1 DEF EndMatch
  <2>2. ASSUME NEW steps, NEW verdict, FinalizeUmvc3(steps, verdict)
        PROVE  ~armed' \/ UNCHANGED phaseVars
    BY <2>1, <2>2 DEF FinalizeUmvc3
  <2>3. ASSUME NEW next, NEW lag, TransitionPhase(next, lag), next # "Terminal"
        PROVE  DisarmedAtEnd'
    BY <2>3 DEF TransitionPhase, DisarmedAtEnd
  <2>4. ASSUME UNCHANGED phaseVars PROVE DisarmedAtEnd'
    BY <2>4 DEF DisarmedAtEnd, phaseVars
  <2>5. ASSUME NEW c \in Commands, NEW lag \in 0..MaxLag, Apply(c, lag)
        PROVE  DisarmedAtEnd'
    <3>1. CASE ApplyAccept(c, lag) \/ ApplyTrying(c, lag) \/ ApplyConnect(c, lag)
               \/ ApplyReady(c, lag)
      BY <2>3, <2>4, <3>1 DEF ApplyAccept, ApplyTrying, ApplyConnect, ApplyReady, phaseVars
    <3>2. CASE ApplyDecline(c)
      BY <2>1, <3>2 DEF ApplyDecline, TerminalUnrated, DisarmedAtEnd
    <3>3. CASE ApplyRepublish(c, lag)
      BY <3>3 DEF ApplyRepublish, Republishes, DisarmedAtEnd
    <3>4. CASE ApplyReport(c, lag) \/ ApplyAbandon(c, lag)
      <4>1. PICK rep, vt : ResolveEvidence(rep, vt, lag)
        BY <3>4 DEF ApplyReport, ApplyAbandon
      <4>2. QED
        BY <2>2, <2>3, <2>4, <4>1 DEF ResolveEvidence, DisarmedAtEnd
    <3>5. QED
      BY <2>5, <3>1, <3>2, <3>3, <3>4 DEF Apply
  <2>6. ASSUME NEW v \in Nat, NEW lag \in 0..MaxLag, ExpirePhase(v, lag)
        PROVE  DisarmedAtEnd'
    BY <2>1, <2>2, <2>4, <2>6 DEF ExpirePhase, TerminalUnrated, DisarmedAtEnd, phaseVars
  <2>7. CASE Tick \/ UNCHANGED matchVars
    BY <2>7 DEF Tick, matchVars, phaseVars, DisarmedAtEnd
  <2>8. QED
    BY <2>5, <2>6, <2>7, MatchSteps
<1>3. QED
  BY <1>1, <1>2, TypeCorrect, PTL DEF Spec

\* Every transition sets the deadline of the phase it leads to.
DeadlineSet == phase # "Terminal" /\ Timeout[phase] # 0 => armed

LEMMA DeadlineStep ==
  ASSUME TypeOK, DeadlineSet, [Next]_vars
  PROVE  DeadlineSet'
<1>1. ASSUME NEW steps, NEW why, NEW requeue, EndMatch(steps, why, requeue)
      PROVE  DeadlineSet'
  BY <1>1 DEF EndMatch, DeadlineSet
<1>2. ASSUME NEW steps, NEW verdict, FinalizeUmvc3(steps, verdict)
      PROVE  DeadlineSet' \/ UNCHANGED phaseVars
  BY <1>1, <1>2 DEF FinalizeUmvc3
<1>3. ASSUME NEW next, NEW lag, TransitionPhase(next, lag)
      PROVE  DeadlineSet'
  BY <1>3 DEF TransitionPhase, DeadlineSet
<1>4. ASSUME UNCHANGED phaseVars PROVE DeadlineSet'
  BY <1>4 DEF DeadlineSet, phaseVars
<1>5. ASSUME NEW c \in Commands, NEW lag \in 0..MaxLag, Apply(c, lag)
      PROVE  DeadlineSet'
  <2>1. CASE ApplyAccept(c, lag) \/ ApplyTrying(c, lag) \/ ApplyConnect(c, lag)
             \/ ApplyReady(c, lag)
    BY <1>3, <1>4, <2>1 DEF ApplyAccept, ApplyTrying, ApplyConnect, ApplyReady, phaseVars
  <2>2. CASE ApplyDecline(c)
    BY <1>1, <2>2 DEF ApplyDecline, TerminalUnrated
  <2>3. CASE ApplyRepublish(c, lag)
    BY <2>3 DEF ApplyRepublish, DeadlineSet
  <2>4. CASE ApplyReport(c, lag) \/ ApplyAbandon(c, lag)
    <3>1. PICK rep, vt : ResolveEvidence(rep, vt, lag)
      BY <2>4 DEF ApplyReport, ApplyAbandon
    <3>. QED  BY <1>2, <1>3, <1>4, <3>1 DEF ResolveEvidence
  <2>. QED  BY <1>5, <2>1, <2>2, <2>3, <2>4 DEF Apply
<1>6. ASSUME NEW v \in Nat, NEW lag \in 0..MaxLag, ExpirePhase(v, lag)
      PROVE  DeadlineSet'
  BY <1>1, <1>2, <1>4, <1>6 DEF ExpirePhase, TerminalUnrated, phaseVars
<1>7. CASE Tick \/ UNCHANGED matchVars
  BY <1>7 DEF Tick, matchVars, phaseVars, DeadlineSet
<1>. QED  BY <1>5, <1>6, <1>7, MatchSteps

\* A workflow returns only after it has loaded a match that has ended.
DoneAtEnd == wfPc = "done" => phase = "Terminal"

LEMMA DoneStep ==
  ASSUME DoneAtEnd, [Next]_vars, phase = "Terminal" => UNCHANGED matchVars
  PROVE  DoneAtEnd'
<1>1. CASE phase = "Terminal"
  BY <1>1 DEF DoneAtEnd, matchVars, phaseVars
<1>2. CASE phase # "Terminal"
  <2>1. wfPc # "done"
    BY <1>2 DEF DoneAtEnd
  <2>2. Admit \/ Drain \/ Tick \/ UNCHANGED vars => wfPc' # "done"
    BY <2>1 DEF Admit, AdmitMatchCommand, Drain, DrainOneMatchCommand, Tick, vars, wfVars
  <2>3. WfAdvance => wfPc' # "done"
    BY <1>2 DEF WfAdvance, WfStart, WfDrained, WfLoad, WfPoll, WfTimerFires,
                      WfExpireDrained
  <2>4. WfExpire \/ WfExpireRetried => wfPc' # "done"
    BY DEF WfExpire, WfExpirePhase, WfExpireRetried
  <2>5. ASSUME NEW lag \in 0..MaxLag, LateExpire(lag)  PROVE wfPc' # "done"
    BY <2>1, <2>5 DEF LateExpire
  <2>6. ~Settled
    BY <1>2 DEF Settled
  <2>7. wfPc' # "done"
    BY <2>2, <2>3, <2>4, <2>5, <2>6 DEF Next
  <2>. QED  BY <2>7 DEF DoneAtEnd
<1>. QED  BY <1>1, <1>2

\* Nothing changes an ended match: not a late command, timer or abandoned
\* attempt of the expiry activity (apply_match_command and expire return early).
THEOREM TerminalFinalCorrect == Spec => TerminalIsFinal
<1>1. TypeOK /\ DisarmedAtEnd /\ [Next]_vars
        => [phase = "Terminal" => UNCHANGED matchVars]_vars
  <2> SUFFICES ASSUME TypeOK, DisarmedAtEnd, [Next]_vars, phase = "Terminal"
               PROVE  UNCHANGED matchVars
    OBVIOUS
  <2>1. ASSUME NEW c \in Commands, NEW lag \in 0..MaxLag, Apply(c, lag)
        PROVE  UNCHANGED matchVars
    BY <2>1 DEF Apply, Applicable
  <2>2. ASSUME NEW v \in Nat, NEW lag \in 0..MaxLag, ExpirePhase(v, lag)
        PROVE  UNCHANGED matchVars
    BY <2>2 DEF ExpirePhase, ExpiryDue, matchVars
  <2>3. ~Tick
    BY DEF Tick, DisarmedAtEnd
  <2>4. QED
    BY <2>1, <2>2, <2>3, MatchSteps
<1>2. QED
  BY <1>1, DisarmedAlways, TypeCorrect, PTL DEF Spec, TerminalIsFinal

\* A live match has a workflow that has not returned and, in every phase with a
\* timeout, a deadline: what MatchSettles rests on, for any timeouts.
THEOREM WatchedCorrect == Spec => []WatchedWhileLive
<1>1. Init => DeadlineSet /\ DoneAtEnd
  BY DEF Init, DeadlineSet, DoneAtEnd
<1>2. [][phase = "Terminal" => UNCHANGED matchVars]_vars <=> TerminalIsFinal
  BY PTL DEF TerminalIsFinal
<1>3. TypeOK /\ DeadlineSet /\ [Next]_vars => DeadlineSet'
  BY DeadlineStep
<1>4. DoneAtEnd /\ [Next]_vars /\ [phase = "Terminal" => UNCHANGED matchVars]_vars => DoneAtEnd'
  <2>1. UNCHANGED vars /\ DoneAtEnd => DoneAtEnd'
    BY DEF vars, wfVars, matchVars, phaseVars, DoneAtEnd
  <2>. QED  BY <2>1, DoneStep
<1>5. DeadlineSet /\ DoneAtEnd => WatchedWhileLive
  BY DEF DeadlineSet, DoneAtEnd, WatchedWhileLive
<1>. QED  BY <1>1, <1>2, <1>3, <1>4, <1>5, TypeCorrect, TerminalFinalCorrect, PTL DEF Spec

\* A deadline moves away, or a phase changes, only under a new phase_version
\* (transition_phase, the replacement attempt, terminal_unrated, finalize).
THEOREM FencedCorrect == Spec => DeadlineIsFenced
<1>1. TypeOK /\ [Next]_vars => [left' > left \/ phase' # phase => version' > version]_vars
  <2> SUFFICES ASSUME TypeOK, [Next]_vars, left' > left \/ phase' # phase
               PROVE  version' > version
    OBVIOUS
  <2>0. version \in Nat /\ left \in Int
    BY DEF TypeOK
  <2>1. ASSUME NEW steps \in Nat \ {0}, NEW why, NEW requeue, EndMatch(steps, why, requeue)
        PROVE  version' > version
    BY <2>0, <2>1 DEF EndMatch
  <2>2. ASSUME NEW steps \in Nat \ {0}, NEW verdict, FinalizeUmvc3(steps, verdict)
        PROVE  version' > version \/ UNCHANGED phaseVars
    BY <2>1, <2>2 DEF FinalizeUmvc3
  <2>3. ASSUME NEW next, NEW lag, TransitionPhase(next, lag)
        PROVE  version' > version
    BY <2>0, <2>3 DEF TransitionPhase
  <2>4. ~UNCHANGED phaseVars
    BY <2>0 DEF phaseVars
  <2>5. ASSUME NEW c \in Commands, NEW lag \in 0..MaxLag, Apply(c, lag)
        PROVE  version' > version \/ UNCHANGED phaseVars
    <3>1. CASE ApplyAccept(c, lag) \/ ApplyTrying(c, lag) \/ ApplyConnect(c, lag)
               \/ ApplyReady(c, lag)
      BY <2>3, <3>1 DEF ApplyAccept, ApplyTrying, ApplyConnect, ApplyReady, phaseVars
    <3>2. CASE ApplyDecline(c)
      BY <2>1, <3>2 DEF ApplyDecline, TerminalUnrated
    <3>3. CASE ApplyRepublish(c, lag)
      BY <2>0, <3>3 DEF ApplyRepublish
    <3>4. CASE ApplyReport(c, lag) \/ ApplyAbandon(c, lag)
      <4>1. PICK rep, vt : ResolveEvidence(rep, vt, lag)
        BY <3>4 DEF ApplyReport, ApplyAbandon
      <4>2. CASE Verdict(rep, vt) # "none"
        BY <2>2, <4>1, <4>2 DEF ResolveEvidence
      <4>3. CASE Verdict(rep, vt) = "none"
        BY <2>3, <4>1, <4>3 DEF ResolveEvidence
      <4>4. QED
        BY <4>2, <4>3
    <3>5. QED
      BY <2>5, <3>1, <3>2, <3>3, <3>4 DEF Apply
  <2>6. ASSUME NEW v \in Nat, NEW lag \in 0..MaxLag, ExpirePhase(v, lag)
        PROVE  version' > version \/ UNCHANGED phaseVars
    BY <2>1, <2>2, <2>6 DEF ExpirePhase, TerminalUnrated
  <2>7. ~Tick
    BY <2>0 DEF Tick
  <2>8. QED
    BY <2>4, <2>5, <2>6, <2>7, MatchSteps DEF matchVars
<1>2. QED
  BY <1>1, TypeCorrect, PTL DEF Spec, DeadlineIsFenced

\* A phase ends by timeout only after its own deadline, whatever the lag of the
\* expiring transaction and whenever the timer fired (expire's second check).
THEOREM ExpiresCorrect == Spec => ExpiresOnlyAfterDeadline
<1> DEFINE Expired == \/ TimedOut
                      \/ result = "none" /\ result' = "disputed" /\ UNCHANGED evidenceVars
<1>1. TypeOK /\ Rated /\ [Next]_vars => [Expired => armed /\ left <= 0]_vars
  <2> SUFFICES ASSUME TypeOK, Rated, [Next]_vars, Expired
               PROVE  armed /\ left <= 0
    OBVIOUS
  <2>0. phase # "Terminal" => reason = "none" /\ result = "none"
    BY DEF Rated, NoResultYet
  <2>1. ~UNCHANGED outcomeVars
    BY <2>0 DEF outcomeVars, TimedOut, TimeoutReasons
  <2>2. ASSUME NEW c \in Commands, NEW lag \in 0..MaxLag, Apply(c, lag)
        PROVE  FALSE
    <3>1. CASE \/ ApplyAccept(c, lag) \/ ApplyTrying(c, lag) \/ ApplyRepublish(c, lag)
               \/ ApplyConnect(c, lag)
      BY <2>1, <3>1 DEF ApplyAccept, ApplyTrying, ApplyRepublish, ApplyConnect
    <3>2. CASE ApplyReady(c, lag)
      BY <2>0, <3>2 DEF ApplyReady, TimedOut, TimeoutReasons
    <3>3. CASE ApplyDecline(c)
      BY <3>3 DEF ApplyDecline, TerminalUnrated, EndMatch, TimedOut, TimeoutReasons
    <3>4. CASE ApplyReport(c, lag) \/ ApplyAbandon(c, lag)
      <4>1. PICK rep, vt : ResolveEvidence(rep, vt, lag) /\ (rep # report \/ vt # vote)
        <5>1. CASE ApplyReport(c, lag)
          <6>1. report[c.by] = NoReport /\ c.claim # NoReport /\ c.by \in Players
            BY <2>2, <5>1, CommandFields
               DEF Apply, Applicable, ApplyReport, Reports, NoReport
          <6>2. [report EXCEPT ![c.by] = c.claim] # report
            BY <6>1 DEF TypeOK
          <6>3. QED
            BY <5>1, <6>2 DEF ApplyReport
        <5>2. CASE ApplyAbandon(c, lag)
          <6> DEFINE named == IF c.target = "self" THEN c.by ELSE Other(c.by)
          <6>1. vote[c.by] = "none" /\ c.by \in Players /\ named # "none"
            BY <2>2, <5>2, CommandFields, OtherPlayer
               DEF Apply, Applicable, ApplyAbandon, Players
          <6>2. [vote EXCEPT ![c.by] = named] # vote
            BY <6>1 DEF TypeOK
          <6>3. QED
            BY <5>2, <6>2 DEF ApplyAbandon
        <5>3. QED
          BY <3>4, <5>1, <5>2
      <4>2. ~UNCHANGED evidenceVars
        BY <4>1 DEF ResolveEvidence, evidenceVars
      <4>3. reason' \notin TimeoutReasons \/ phase = "Terminal"
        BY <2>0, <4>1 DEF ResolveEvidence, FinalizeUmvc3, EndMatch, outcomeVars, TimeoutReasons
      <4>4. QED
        BY <4>2, <4>3 DEF TimedOut
    <3>5. QED
      BY <2>2, <3>1, <3>2, <3>3, <3>4 DEF Apply
  <2>3. ASSUME NEW v \in Nat, NEW lag \in 0..MaxLag, ExpirePhase(v, lag)
        PROVE  armed /\ left <= 0
    <3>1. armed /\ left + lag <= 0
      BY <2>1, <2>3 DEF ExpirePhase, ExpiryDue
    <3>2. QED
      BY <3>1, MaxLagAssumption DEF TypeOK
  <2>4. CASE Tick
    BY <2>1, <2>4 DEF Tick
  <2>5. QED
    BY <2>1, <2>2, <2>3, <2>4, MatchSteps DEF matchVars
<1>2. QED
  BY <1>1, RatedAlways, TypeCorrect, PTL DEF Spec, ExpiresOnlyAfterDeadline

-----------------------------------------------------------------------------
(***************************************************************************)
(* RankedMatch implements MatchOutcome for every timeout, lag, report      *)
(* content and bound.  Steps of barriers, workflow and time are stutters;  *)
(* a report or a vote is a Testify, whatever follows from it, an expired   *)
(* game a Lapse, a decline or an expired barrier a CallOff.                *)
(***************************************************************************)

\* What two players have told whose evidence is rep and vt.
Claimed(rep, p) == IF rep[p] = NoReport THEN {} ELSE {rep[p].outcome}
Voted(vt, p)    == IF vt[p] = "none" THEN {}
                   ELSE IF vt[p] = p THEN {"concedes"} ELSE {"accuses"}

LEMMA ToldBy == \A p \in Players : ToldOf[p] = Claimed(report, p) \cup Voted(vote, p)
BY DEF ToldOf, ClaimOf, VoteOf, Claimed, Voted

LEMMA ReportsTell ==
  ASSUME NEW r \in Reports
  PROVE  r # NoReport /\ r.outcome \in {"win", "loss", "draw"}
BY DEF Reports, NoReport

-----------------------------------------------------------------------------
(* The evidence rule. *)

\* A verdict that names a winner is one the two agree on.
LEMMA VerdictAgreed ==
  ASSUME NEW rep \in [Players -> Reports \cup {NoReport}],
         NEW vt \in [Players -> Votes]
  PROVE  /\ Verdict(rep, vt) \in Players =>
              LET w == Verdict(rep, vt)
              IN  /\ rep[w].outcome = "win" \/ vt[w] = Other(w)
                  /\ rep[Other(w)].outcome = "loss" \/ vt[Other(w)] = Other(w)
         /\ Verdict(rep, vt) = "draw" => \A p \in Players : rep[p].outcome = "draw"
<1>. DEFINE reporters == {p \in Players : rep[p] # NoReport}
            winner(p) == ClaimedWinner(p, rep[p])
            w == Verdict(rep, vt)
<1>1. \A p \in Players :
        /\ winner(p) = p => rep[p].outcome = "win"
        /\ winner(p) \in {p, Other(p), "nobody"}
  BY OtherPlayer DEF ClaimedWinner, Players, Other
<1>2. SUFFICES ASSUME w \in Players PROVE rep[w].outcome = "win" \/ vt[w] = Other(w)
  BY VerdictConceded
<1>3. CASE reporters = Players
  <2>1. w = winner("a") /\ w = winner("b")
    BY <1>2, <1>3 DEF Verdict, Players
  <2>. QED  BY <1>1, <1>2, <2>1 DEF Players
<1>4. CASE reporters # Players /\ \A p \in Players : vt[p] # "none"
  <2>1. w = Other(vt["a"]) /\ vt["a"] = vt["b"]
    BY <1>2, <1>4 DEF Verdict, Players
  <2>2. vt["a"] \in Players
    BY <1>4 DEF Votes, Players
  <2>. QED  BY <2>1, <2>2 DEF Players, Other
<1>5. CASE /\ reporters # Players
           /\ ~ \A p \in Players : vt[p] # "none"
           /\ \E p \in reporters : vt[Other(p)] # "none"
  <2>. DEFINE p == CHOOSE q \in Players : q \in reporters
  <2>1. p \in reporters /\ \A q \in reporters : q = p
    <3>1. p \in reporters
      BY <1>5
    <3>. QED  BY <1>5, <3>1 DEF Players
  <2>2. vt[Other(p)] \in {p, Other(p)}
    <3>1. vt[Other(p)] \in Votes /\ vt[Other(p)] # "none"
      BY <1>5, <2>1, OtherPlayer
    <3>. QED  BY <3>1, <2>1 DEF Votes, Players, Other
  <2>3. w = winner(p) /\ winner(p) # vt[Other(p)]
    BY <1>2, <1>5 DEF Verdict, Players
  <2>4. w \in {p, Other(p)}
    BY <1>2, <2>1 DEF Players, Other
  <2>5. CASE w = p
    BY <1>1, <2>1, <2>3, <2>5
  <2>6. CASE w = Other(p)
    <3>1. vt[Other(p)] = p /\ Other(Other(p)) = p
      BY <2>1, <2>2, <2>3, <2>6, OtherPlayer
    <3>. QED  BY <2>6, <3>1
  <2>. QED  BY <2>4, <2>5, <2>6
<1>6. CASE /\ reporters # Players
           /\ ~ \A p \in Players : vt[p] # "none"
           /\ ~ \E p \in reporters : vt[Other(p)] # "none"
  BY <1>2, <1>6 DEF Verdict, Players
<1>. QED  BY <1>3, <1>4, <1>5, <1>6

\* The same in the words of MatchOutcome.
LEMMA VerdictTold ==
  ASSUME NEW rep \in [Players -> Reports \cup {NoReport}],
         NEW vt \in [Players -> Votes],
         NEW t, \A p \in Players : t[p] = Claimed(rep, p) \cup Voted(vt, p)
  PROVE  /\ Verdict(rep, vt) \in Players =>
              LET w == Verdict(rep, vt)
              IN  /\ t[w] \cap {"win", "accuses"} # {}
                  /\ \A p \in Players \ {w} : t[p] \cap {"loss", "concedes"} # {}
         /\ Verdict(rep, vt) = "draw" => \A p \in Players : "draw" \in t[p]
<1>. DEFINE w == Verdict(rep, vt)
<1>1. \A p \in Players : rep[p].outcome \in {"win", "loss", "draw"} => rep[p].outcome \in t[p]
  BY DEF Claimed, NoReport
<1>2. \A p \in Players : /\ vt[p] = p => "concedes" \in t[p]
                         /\ vt[p] = Other(p) => "accuses" \in t[p]
  BY DEF Voted, Players, Other
<1>3. CASE w \in Players
  <2>1. t[w] \cap {"win", "accuses"} # {}
    BY <1>1, <1>2, <1>3, VerdictAgreed
  <2>2. t[Other(w)] \cap {"loss", "concedes"} # {}
    BY <1>1, <1>2, <1>3, VerdictAgreed, OtherPlayer
  <2>3. \A p \in Players \ {w} : p = Other(w)
    BY <1>3 DEF Players, Other
  <2>. QED  BY <1>3, <2>1, <2>2, <2>3 DEF Players
<1>4. CASE w = "draw"
  BY <1>1, <1>4, VerdictAgreed DEF Players
<1>. QED  BY <1>3, <1>4

-----------------------------------------------------------------------------
(* How a match ends. *)

\* The steps of the match see it through until it is terminal.
LEMMA OpenStutter ==
  ASSUME phase # "Terminal", phase' # "Terminal",
         UNCHANGED <<evidenceVars, active, mmrWrites>>
  PROVE  UNCHANGED Outcome!vars
<1>1. OutcomeOf' = OutcomeOf
  BY DEF OutcomeOf
<1>2. ToldOf' = ToldOf
  BY DEF ToldOf, ClaimOf, VoteOf, evidenceVars
<1>. QED  BY <1>1, <1>2 DEF Outcome!vars

LEMMA SameStutter ==
  ASSUME UNCHANGED <<phase, result, evidenceVars, active, mmrWrites>>
  PROVE  UNCHANGED Outcome!vars
<1>1. OutcomeOf' = OutcomeOf
  BY DEF OutcomeOf
<1>2. ToldOf' = ToldOf
  BY DEF ToldOf, ClaimOf, VoteOf, evidenceVars
<1>. QED  BY <1>1, <1>2 DEF Outcome!vars

\* The finalizer closes the match with the verdict and counts its rating.
LEMMA FinalizeCloses ==
  ASSUME TypeOK, Rated, phase # "Terminal", NEW steps, NEW verdict \in Verdicts,
         FinalizeUmvc3(steps, verdict)
  PROVE  /\ OutcomeOf' = verdict
         /\ active' = [p \in Players |-> FALSE]
         /\ mmrWrites' = IF verdict = "disputed" THEN mmrWrites ELSE mmrWrites + 1
<1>1. result = "none"
  BY DEF Rated, NoResultYet
<1>2. /\ phase' = "Terminal"
      /\ result' = verdict
      /\ active' = [p \in Players |-> FALSE]
      /\ mmrWrites' = IF verdict = "disputed" THEN mmrWrites ELSE mmrWrites + 1
  BY Zenon, <1>1 DEF FinalizeUmvc3, EndMatch
<1>3. verdict # "none"
  BY DEF Verdicts, Players
<1>. QED  BY <1>2, <1>3 DEF OutcomeOf

LEMMA UnratedCallsOff ==
  ASSUME TypeOK, Rated, NoVerdictLeftUndecided,
         phase \notin {"AwaitingReport", "Terminal"},
         UNCHANGED evidenceVars, NEW why, NEW requeue, TerminalUnrated(why, requeue)
  PROVE  Outcome!CallOff
<1>1. /\ phase' = "Terminal"
      /\ active' = [p \in Players |-> FALSE]
      /\ UNCHANGED <<result, mmrWrites>>
  BY Zenon DEF TerminalUnrated, EndMatch
<1>2. result = "none"
  BY DEF Rated, NoResultYet
<1>3. OutcomeOf = "open" /\ OutcomeOf' = "unrated"
  BY <1>1, <1>2 DEF OutcomeOf
<1>4. \A p \in Players : ToldOf[p] = {}
  BY ToldBy DEF NoVerdictLeftUndecided, Claimed, Voted
<1>5. ToldOf' = ToldOf
  BY DEF ToldOf, ClaimOf, VoteOf, evidenceVars
<1>. QED  BY <1>1, <1>3, <1>4, <1>5 DEF Outcome!CallOff, Outcome!Close

-----------------------------------------------------------------------------
(* Evidence. *)

\* Evidence that adds the statement s of player q to what is told.
LEMMA EvidenceTestifies ==
  ASSUME TypeOK, Rated, phase \in Evidential,
         NEW rep \in [Players -> Reports \cup {NoReport}],
         NEW vt \in [Players -> Votes],
         NEW lag \in 0..MaxLag, ResolveEvidence(rep, vt, lag),
         NEW q \in Players, NEW s \in {"win", "loss", "draw", "concedes", "accuses"},
         ToldOf[q] \cap Outcome!Kind(s) = {},
         \A p \in Players :
           Claimed(rep, p) \cup Voted(vt, p) = IF p = q THEN ToldOf[p] \cup {s} ELSE ToldOf[p]
  PROVE  Outcome!Testify(q, s)
<1>1. report' = rep /\ vote' = vt
  BY DEF ResolveEvidence
<1>2. \A p \in Players : ToldOf'[p] = Claimed(rep, p) \cup Voted(vt, p)
  BY <1>1 DEF ToldOf, ClaimOf, VoteOf, Claimed, Voted
<1>3. ToldOf' = [ToldOf EXCEPT ![q] = @ \cup {s}]
  BY <1>2 DEF ToldOf
<1>4. phase # "Terminal" /\ OutcomeOf = "open"
  BY DEF Evidential, OutcomeOf
<1>5. CASE Verdict(rep, vt) = "none"
  <2>1. phase' # "Terminal"
    BY <1>4, <1>5 DEF ResolveEvidence, TransitionPhase, phaseVars
  <2>2. UNCHANGED <<active, mmrWrites>>
    BY <1>5 DEF ResolveEvidence, outcomeVars, playerVars
  <2>3. Outcome!Undecided
    BY <1>4, <2>1, <2>2 DEF Outcome!Undecided, OutcomeOf
  <2>. QED  BY <1>3, <1>4, <2>3 DEF Outcome!Testify
<1>6. CASE Verdict(rep, vt) # "none"
  <2>. DEFINE v == Verdict(rep, vt)
  <2>1. v \in Verdicts
    BY <1>6, VerdictType
  <2>2. FinalizeUmvc3(IF phase = "Playing" THEN 2 ELSE 1, v)
    BY <1>6 DEF ResolveEvidence
  <2>3. /\ OutcomeOf' = v
        /\ active' = [p \in Players |-> FALSE]
        /\ mmrWrites' = IF v = "disputed" THEN mmrWrites ELSE mmrWrites + 1
    BY <1>4, <2>1, <2>2, FinalizeCloses
  <2>4. CASE v = "disputed"
    BY <1>3, <1>4, <2>3, <2>4 DEF Outcome!Testify, Outcome!Dispute, Outcome!Close
  <2>5. CASE v = "draw"
    <3>1. \A p \in Players : "draw" \in ToldOf'[p]
      BY <1>2, <2>5, VerdictTold
    <3>2. Outcome!Drawn
      BY <2>3, <2>5, <3>1 DEF Outcome!Drawn, Outcome!Close
    <3>. QED  BY <1>3, <1>4, <3>2 DEF Outcome!Testify
  <2>6. CASE v \in Players
    <3>1. /\ ToldOf'[v] \cap {"win", "accuses"} # {}
          /\ \A p \in Players \ {v} : ToldOf'[p] \cap {"loss", "concedes"} # {}
      BY <1>2, <2>6, VerdictTold
    <3>2. v # "disputed"
      BY <2>6 DEF Players
    <3>3. Outcome!Won(v)
      BY <2>3, <3>1, <3>2 DEF Outcome!Won, Outcome!Close
    <3>. QED  BY <1>3, <1>4, <2>6, <3>3 DEF Outcome!Testify
  <2>. QED  BY <2>1, <2>4, <2>5, <2>6 DEF Verdicts
<1>. QED  BY <1>5, <1>6

LEMMA ReportTestifies ==
  ASSUME TypeOK, Rated, NEW c \in Commands, NEW lag \in 0..MaxLag,
         Applicable(c), ApplyReport(c, lag)
  PROVE  Outcome!Next
<1>. DEFINE rep == [report EXCEPT ![c.by] = c.claim]
            s == c.claim.outcome
<1>1. /\ c.by \in Players /\ c.claim \in Reports
      /\ phase \in Evidential /\ report[c.by] = NoReport
  BY CommandFields DEF ApplyReport, Applicable
<1>2. c.claim # NoReport /\ s \in {"win", "loss", "draw"}
  BY <1>1, ReportsTell
<1>3. rep \in [Players -> Reports \cup {NoReport}] /\ vote \in [Players -> Votes]
  BY <1>1 DEF TypeOK
<1>4. ResolveEvidence(rep, vote, lag)
  BY DEF ApplyReport
<1>5. ToldOf[c.by] \cap Outcome!Kind(s) = {}
  <2>1. ToldOf[c.by] \subseteq {"concedes", "accuses"}
    BY <1>1, ToldBy DEF Claimed, Voted
  <2>. QED  BY <1>2, <2>1 DEF Outcome!Kind, Outcome!Claims
<1>6. \A p \in Players :
        Claimed(rep, p) \cup Voted(vote, p) = IF p = c.by THEN ToldOf[p] \cup {s} ELSE ToldOf[p]
  <2>1. \A p \in Players : rep[p] = IF p = c.by THEN c.claim ELSE report[p]
    BY DEF TypeOK
  <2>2. \A p \in Players : Claimed(rep, p) = IF p = c.by THEN {s} ELSE Claimed(report, p)
    BY <1>2, <2>1 DEF Claimed
  <2>3. Claimed(report, c.by) = {}
    BY <1>1 DEF Claimed
  <2>. QED  BY <2>2, <2>3, ToldBy
<1>. HIDE DEF rep, s
<1>7. Outcome!Testify(c.by, s)
  BY <1>1, <1>2, <1>3, <1>4, <1>5, <1>6, EvidenceTestifies
<1>. QED  BY <1>1, <1>2, <1>7 DEF Outcome!Next, Outcome!Claims

LEMMA AbandonTestifies ==
  ASSUME TypeOK, Rated, NEW c \in Commands, NEW lag \in 0..MaxLag,
         Applicable(c), ApplyAbandon(c, lag)
  PROVE  Outcome!Next
<1>. DEFINE named == IF c.target = "self" THEN c.by ELSE Other(c.by)
            vt == [vote EXCEPT ![c.by] = named]
            s == IF named = c.by THEN "concedes" ELSE "accuses"
<1>1. /\ c.by \in Players /\ phase \in Evidential
      /\ vote[c.by] = "none" /\ named \in Players
  BY CommandFields, OtherPlayer DEF ApplyAbandon, Applicable
<1>2. report \in [Players -> Reports \cup {NoReport}] /\ vt \in [Players -> Votes]
  BY <1>1 DEF TypeOK, Votes
<1>3. ResolveEvidence(report, vt, lag)
  BY DEF ApplyAbandon
<1>4. ToldOf[c.by] \cap Outcome!Kind(s) = {}
  <2>1. ToldOf[c.by] \subseteq {"win", "loss", "draw"}
    BY <1>1, <1>2, ToldBy, ReportsTell DEF Claimed, Voted
  <2>. QED  BY <2>1 DEF Outcome!Kind, Outcome!Claims, Outcome!Votes
<1>5. \A p \in Players :
        Claimed(report, p) \cup Voted(vt, p) = IF p = c.by THEN ToldOf[p] \cup {s} ELSE ToldOf[p]
  <2>1. \A p \in Players : vt[p] = IF p = c.by THEN named ELSE vote[p]
    BY DEF TypeOK
  <2>2. \A p \in Players : Voted(vt, p) = IF p = c.by THEN {s} ELSE Voted(vote, p)
    BY <1>1, <2>1 DEF Voted, Players
  <2>3. Voted(vote, c.by) = {}
    BY <1>1 DEF Voted
  <2>. QED  BY <2>2, <2>3, ToldBy
<1>6. s \in {"win", "loss", "draw", "concedes", "accuses"}
  OBVIOUS
<1>. HIDE DEF named, vt, s
<1>7. Outcome!Testify(c.by, s)
  BY <1>1, <1>2, <1>3, <1>4, <1>5, <1>6, EvidenceTestifies
<1>. QED  BY <1>1, <1>6, <1>7 DEF Outcome!Next, Outcome!Claims, Outcome!Votes

-----------------------------------------------------------------------------
(* Every step. *)

LEMMA ApplyKeeps ==
  ASSUME TypeOK, Rated, NoVerdictLeftUndecided,
         NEW c \in Commands, NEW lag \in 0..MaxLag, Apply(c, lag)
  PROVE  [Outcome!Next]_Outcome!vars
<1>1. phase # "Terminal" /\ Applicable(c)
  BY DEF Apply, Applicable
<1>2. CASE ApplyAccept(c, lag) \/ ApplyTrying(c, lag) \/ ApplyRepublish(c, lag)
           \/ ApplyConnect(c, lag) \/ ApplyReady(c, lag)
  <2>1. phase' # "Terminal" /\ UNCHANGED <<evidenceVars, active, mmrWrites>>
    BY <1>1, <1>2 DEF ApplyAccept, ApplyTrying, ApplyRepublish, ApplyConnect, ApplyReady,
                      TransitionPhase, phaseVars, outcomeVars, playerVars
  <2>. QED  BY <1>1, <2>1, OpenStutter
<1>3. CASE ApplyDecline(c)
  <2>1. phase \notin {"AwaitingReport", "Terminal"}
    BY <1>1, <1>3 DEF ApplyDecline, Applicable
  <2>2. Outcome!CallOff
    BY <1>3, <2>1, UnratedCallsOff DEF ApplyDecline
  <2>. QED  BY <2>2 DEF Outcome!Next
<1>4. CASE ApplyReport(c, lag)
  BY <1>1, <1>4, ReportTestifies
<1>5. CASE ApplyAbandon(c, lag)
  BY <1>1, <1>5, AbandonTestifies
<1>. QED  BY <1>2, <1>3, <1>4, <1>5 DEF Apply

LEMMA ExpireKeeps ==
  ASSUME TypeOK, Rated, NoVerdictLeftUndecided,
         NEW v \in Nat, NEW lag \in 0..MaxLag, ExpirePhase(v, lag)
  PROVE  [Outcome!Next]_Outcome!vars
<1>1. CASE ~ExpiryDue(v, lag)
  BY <1>1, SameStutter DEF ExpirePhase, phaseVars, outcomeVars, playerVars
<1>2. CASE ExpiryDue(v, lag) /\ phase \in Evidential
  <2>1. FinalizeUmvc3(1, "disputed") /\ UNCHANGED evidenceVars
    BY <1>2 DEF ExpirePhase
  <2>2. phase # "Terminal" /\ "disputed" \in Verdicts
    BY <1>2 DEF ExpiryDue, Verdicts
  <2>3. OutcomeOf' = "disputed" /\ active' = [p \in Players |-> FALSE] /\ UNCHANGED mmrWrites
    BY <2>1, <2>2, FinalizeCloses
  <2>4. ToldOf' = ToldOf /\ OutcomeOf = "open"
    BY <2>1, <2>2 DEF ToldOf, ClaimOf, VoteOf, evidenceVars, OutcomeOf
  <2>5. Outcome!Lapse
    BY <2>3, <2>4 DEF Outcome!Lapse, Outcome!Dispute, Outcome!Close
  <2>. QED  BY <2>5 DEF Outcome!Next
<1>3. CASE ExpiryDue(v, lag) /\ phase \notin Evidential
  <2>1. phase \notin {"AwaitingReport", "Terminal"}
    BY <1>3 DEF ExpiryDue, Evidential
  <2>2. TerminalUnrated(TimeoutReason, Responders) /\ UNCHANGED evidenceVars
    BY <1>3 DEF ExpirePhase
  <2>3. Outcome!CallOff
    BY <2>1, <2>2, UnratedCallsOff
  <2>. QED  BY <2>3 DEF Outcome!Next
<1>. QED  BY <1>1, <1>2, <1>3

LEMMA StepKeeps ==
  TypeOK /\ Rated /\ NoVerdictLeftUndecided /\ [Next]_vars => [Outcome!Next]_Outcome!vars
<1>. SUFFICES ASSUME TypeOK, Rated, NoVerdictLeftUndecided, [Next]_vars
              PROVE  [Outcome!Next]_Outcome!vars
  OBVIOUS
<1>1. ASSUME NEW c \in Commands, NEW lag \in 0..MaxLag, Apply(c, lag)
      PROVE  [Outcome!Next]_Outcome!vars
  BY <1>1, ApplyKeeps
<1>2. ASSUME NEW v \in Nat, NEW lag \in 0..MaxLag, ExpirePhase(v, lag)
      PROVE  [Outcome!Next]_Outcome!vars
  BY <1>2, ExpireKeeps
<1>3. CASE Tick \/ UNCHANGED matchVars
  <2>1. UNCHANGED <<phase, result, evidenceVars, active, mmrWrites>>
    BY <1>3 DEF Tick, matchVars, phaseVars, outcomeVars, playerVars
  <2>. QED  BY <2>1, SameStutter
<1>. QED  BY <1>1, <1>2, <1>3, MatchSteps

LEMMA InitKeeps == Init => Outcome!Init
<1>. SUFFICES ASSUME Init PROVE Outcome!Init
  OBVIOUS
<1>1. OutcomeOf = "open" /\ mmrWrites = 0 /\ active = [p \in Players |-> TRUE]
  BY DEF Init, OutcomeOf
<1>2. ToldOf = [p \in Players |-> {}]
  BY DEF Init, ToldOf, ClaimOf, VoteOf
<1>. QED  BY <1>1, <1>2 DEF Outcome!Init

\* The ranked match implements MatchOutcome: it is decided, rated and left by
\* both players in one step (finalize_umvc3_in_tx, terminal_unrated), and rated
\* only when the two agree (resolve_evidence).
THEOREM PromiseCorrect == Spec => KeepsItsPromise
<1>1. Spec => []TypeOK /\ []Rated /\ []NoVerdictLeftUndecided
  BY TypeCorrect, RatedAlways, NoVerdictCorrect
<1>. QED  BY <1>1, InitKeeps, StepKeeps, PTL DEF Spec, KeepsItsPromise, Outcome!Spec
=============================================================================
