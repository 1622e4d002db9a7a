--------------------------- MODULE MCAccountLinks ---------------------------
(* Small instances of AccountLinks for TLC. *)
EXTENDS AccountLinks, TLC

\* The rows and the handlers are interchangeable, and so are users and identities.
Symmetry == Permutations(Users) \cup Permutations(Uids) \cup Permutations(Requests)
              \cup Permutations(Sessions) \cup Permutations(Proofs) \cup Permutations(Intents)
              \cup Permutations(Logins)
=============================================================================
