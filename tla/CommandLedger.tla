---------------------------- MODULE CommandLedger ----------------------------
(***************************************************************************)
(* What dispatch promises of the commands of one session, whatever callers *)
(* repeat, lose or race: a command id stands for the first payload         *)
(* admitted under it, it is processed once, and whoever repeats it is told *)
(* that one receipt, or of the conflict if he says something else.         *)
(***************************************************************************)
EXTENDS Naturals

CONSTANTS
  Keys,     \* command ids
  Payloads, \* payloads, up to their hash
  Receipts  \* receipts, as numbers

VARIABLES
  ledger, \* what each command id stands for
  told    \* the answers callers have been given

NoEntry == [payload |-> "none", receipt |-> 0, status |-> "none"]
Entries == [payload : Payloads, receipt : Receipts,
            status : {"pending", "applied", "rejected"}]

Conflict == 0
Answer(k, p) == IF ledger[k].payload = p THEN ledger[k].receipt ELSE Conflict

Init ==
  /\ ledger = [k \in Keys |-> NoEntry]
  /\ told = {}

Admit(k, p, r) ==
  /\ ledger[k] = NoEntry
  /\ \A other \in Keys : ledger[other].receipt # r
  /\ ledger' = [ledger EXCEPT ![k] = [payload |-> p, receipt |-> r, status |-> "pending"]]
  /\ UNCHANGED told

Process(k, status) ==
  /\ ledger[k].status = "pending"
  /\ ledger' = [ledger EXCEPT ![k].status = status]
  /\ UNCHANGED told

Tell(k, p) ==
  /\ ledger[k] # NoEntry
  /\ told' = told \cup {[key |-> k, payload |-> p, answer |-> Answer(k, p)]}
  /\ UNCHANGED ledger

Next ==
  \E k \in Keys :
    \/ \E p \in Payloads : Tell(k, p) \/ \E r \in Receipts : Admit(k, p, r)
    \/ \E status \in {"applied", "rejected"} : Process(k, status)

Spec == Init /\ [][Next]_<<ledger, told>>
==============================================================================
