------------------------- MODULE AccountLinksProofs -------------------------
(***************************************************************************)
(* What holds of accounts, sessions and links for every set of users,      *)
(* identities, requests and rows, and every number of logouts.             *)
(***************************************************************************)
EXTENDS AccountLinks, TLAPS

\* A row is as it was before it was inserted, or refers to rows that are there.
Rows ==
  /\ \A s \in Sessions : session[s] = NoSession \/ session[s].user \in Users
  /\ \A p \in Proofs : proof[p] = NoProof \/ (proof[p].uid \in Uids /\ proof[p].state # "none")
  /\ \A h \in Handoffs : handoff[h] = NoHandoff \/ handoff[h].session \in Sessions
  /\ \A i \in Intents : intent[i] = NoIntent \/
       /\ intent[i].user \in Users /\ intent[i].proof \in Proofs
       /\ intent[i].state # "none" /\ proof[intent[i].proof] # NoProof

\* What a handler refers to is there; what a confirmation has locked stays as it was.
Holds ==
  \A r \in Requests :
    /\ request[r].at \in Operations \cup {"issue", "revalidate", "intend"} =>
         session[request[r].session] # NoSession
    /\ request[r].at \in ConfirmStages =>
         /\ intent[request[r].intent].state = "pending"
         /\ proof[intent[request[r].intent].proof].state = "fresh"

RowsInv == TypeOK /\ Rows /\ Holds

-----------------------------------------------------------------------------
(* Types: what a handler holds where it is. *)

LEMMA StagesApart ==
  /\ "idle" \notin ConfirmStages \cup Operations \cup RevokeStages
  /\ ConfirmStages \cap Operations = {} /\ RevokeStages \cap (ConfirmStages \cup Operations) = {}
  /\ {"verify", "owner", "issue", "revalidate", "intend", "complete"}
        \cap (ConfirmStages \cup Operations \cup RevokeStages) = {}
  /\ TokenStages = Operations \cup {"revalidate", "intend"}
  /\ RevokeStages = {"revoke_native", "raise_version"}
BY DEF ConfirmStages, Operations, RevokeStages, TokenStages

LEMMA HandlingFields ==
  ASSUME TypeOK, NEW r \in Requests
  PROVE  /\ request[r].at = "verify" => request[r].provider \in Providers
         /\ request[r].at = "owner" => request[r].user \in Users /\ request[r].provider \in Providers
         /\ request[r].at \in Operations \cup {"issue", "revalidate", "intend"} => request[r].session \in Sessions
         /\ request[r].at \in TokenStages =>
              request[r] \in [at : TokenStages, session : Sessions, late : BOOLEAN]
         /\ request[r].at = "complete" => request[r].handoff \in Handoffs
         /\ request[r].at \in ConfirmStages =>
              request[r] \in [at : ConfirmStages, intent : Intents, owner : Users \cup {None}]
         /\ request[r].at \in RevokeStages =>
              request[r] \in [at : RevokeStages, user : Users, there : SUBSET Sessions,
                              hit : SUBSET Sessions]
<1>1. request[r] \in Handling
  BY DEF TypeOK
<1>2. \/ request[r] \in [at : {"idle"}] \cup [at : {"verify"}, provider : Providers]
                        \cup [at : {"owner"}, user : Users, provider : Providers]
                        \cup [at : {"issue"}, session : Sessions]
                        \cup [at : {"complete"}, handoff : Handoffs]
      \/ request[r] \in [at : TokenStages, session : Sessions, late : BOOLEAN]
      \/ request[r] \in [at : RevokeStages, user : Users, there : SUBSET Sessions,
                         hit : SUBSET Sessions]
      \/ request[r] \in [at : ConfirmStages, intent : Intents, owner : Users \cup {None}]
  BY <1>1 DEF Handling
<1>3. CASE request[r] \in [at : TokenStages, session : Sessions, late : BOOLEAN]
  BY <1>3, StagesApart
<1>4. CASE request[r] \in [at : RevokeStages, user : Users, there : SUBSET Sessions,
                          hit : SUBSET Sessions]
  BY <1>4, StagesApart
<1>5. CASE request[r] \in [at : ConfirmStages, intent : Intents, owner : Users \cup {None}]
  BY <1>5, StagesApart
<1>6. CASE request[r] \in [at : {"idle"}] \cup [at : {"verify"}, provider : Providers]
                        \cup [at : {"owner"}, user : Users, provider : Providers]
                        \cup [at : {"issue"}, session : Sessions]
                        \cup [at : {"complete"}, handoff : Handoffs]
  BY <1>6, StagesApart
<1>. QED  BY <1>2, <1>3, <1>4, <1>5, <1>6

LEMMA BecomeFact ==
  ASSUME TypeOK, NEW r \in Requests, NEW what, Become(r, what)
  PROVE  /\ request'[r] = what
         /\ \A q \in Requests : q # r => request'[q] = request[q]
         /\ what \in Handling => request' \in [Requests -> Handling]
BY DEF TypeOK, Become

-----------------------------------------------------------------------------
(* Every step keeps the rows. *)

\* What r refers to is there.
HoldsOf(r) ==
  /\ request[r].at \in Operations \cup {"issue", "revalidate", "intend"} =>
       session[request[r].session] # NoSession
  /\ request[r].at \in ConfirmStages =>
       /\ intent[request[r].intent].state = "pending"
       /\ proof[intent[request[r].intent].proof].state = "fresh"

\* Steps of handlers that write no table but the logins' and the users'.
LEMMA HandlerRows ==
  ASSUME RowsInv, NEW r \in Requests, UNCHANGED <<session, loggedOut, linkVars>>,
         \A q \in Requests : q # r => request'[q] = request[q],
         HoldsOf(r)', request' \in [Requests -> Handling],
         registered' \subseteq Users, version' = version,
         login' \in [Logins -> Providers \cup {None, "used"}]
  PROVE  RowsInv'
<1>1. TypeOK'
  BY DEF RowsInv, TypeOK, linkVars
<1>2. Rows'
  BY DEF RowsInv, Rows, linkVars
<1>3. Holds'
  BY DEF RowsInv, Holds, HoldsOf, linkVars
<1>. QED  BY <1>1, <1>2, <1>3 DEF RowsInv

LEMMA EndRows ==
  ASSUME RowsInv, NEW r \in Requests, End(r), UNCHANGED <<sessionVars, login, linkVars>>
  PROVE  RowsInv'
<1>1. /\ request'[r] = Idle
      /\ \A q \in Requests : q # r => request'[q] = request[q]
      /\ request' \in [Requests -> Handling]
  BY BecomeFact DEF RowsInv, End, Idle, Handling
<1>2. HoldsOf(r)'
  BY <1>1, StagesApart DEF HoldsOf, Idle
<1>. QED  BY <1>1, <1>2, HandlerRows DEF RowsInv, TypeOK, sessionVars

LEMMA ConsumeRows ==
  ASSUME RowsInv, NEW r \in Requests, NEW l \in Logins, ConsumeLogin(r, l)
  PROVE  RowsInv'
<1>. DEFINE what == [at |-> "verify", provider |-> login[l]]
<1>1. /\ Become(r, what) /\ login[l] \in Providers
      /\ UNCHANGED <<sessionVars, linkVars>>
      /\ login' = [login EXCEPT ![l] = "used"]
  BY DEF ConsumeLogin, Providers
<1>2. what \in Handling
  BY <1>1 DEF Handling
<1>3. /\ request'[r] = what
      /\ \A q \in Requests : q # r => request'[q] = request[q]
      /\ request' \in [Requests -> Handling]
  BY <1>1, <1>2, BecomeFact DEF RowsInv
<1>4. HoldsOf(r)'
  BY <1>3, StagesApart DEF HoldsOf
<1>. QED  BY <1>1, <1>3, <1>4, HandlerRows DEF RowsInv, TypeOK, sessionVars

LEMMA LoginRows ==
  ASSUME RowsInv, NEW r \in Requests, NEW u \in Users, SteamLogin(r, u) \/ TicketLogin(r, u)
  PROVE  RowsInv'
<1>2. ASSUME NEW provider \in Providers, FindOrCreateUser(r, u, provider)
      PROVE  RowsInv'
  <2>. DEFINE what == [at |-> "owner", user |-> u, provider |-> provider]
  <2>1. /\ Become(r, what) /\ registered' = registered \cup {u}
        /\ UNCHANGED <<version, session, loggedOut, login, linkVars>>
    BY <1>2 DEF FindOrCreateUser
  <2>2. what \in Handling
    BY DEF Handling
  <2>3. /\ request'[r] = what
        /\ \A q \in Requests : q # r => request'[q] = request[q]
        /\ request' \in [Requests -> Handling]
    BY <2>1, <2>2, BecomeFact DEF RowsInv
  <2>4. HoldsOf(r)'
    BY <2>3, StagesApart DEF HoldsOf
  <2>. QED  BY <2>1, <2>3, <2>4, HandlerRows DEF RowsInv, TypeOK
<1>. QED  BY <1>2 DEF SteamLogin, TicketLogin, Providers

LEMMA TokenRows ==
  ASSUME RowsInv, NEW r \in Requests,
         \/ \E s \in Sessions : CheckVersion(r, s)
         \/ \E op \in Operations : CheckSession(r, op)
         \/ \E h \in Handoffs : PeekHandoff(r, h)
  PROVE  RowsInv'
<1>1. ASSUME NEW s \in Sessions, CheckVersion(r, s) PROVE RowsInv'
  <2>. DEFINE what == [at |-> "revalidate", session |-> s, late |-> s \in loggedOut]
  <2>1. Become(r, what) /\ UNCHANGED <<sessionVars, login, linkVars>> /\ session[s].issued
    BY <1>1 DEF CheckVersion
  <2>2. what \in Handling
    BY DEF Handling, TokenStages
  <2>3. /\ request'[r] = what
        /\ \A q \in Requests : q # r => request'[q] = request[q]
        /\ request' \in [Requests -> Handling]
    BY <2>1, <2>2, BecomeFact DEF RowsInv
  <2>4. session[s] # NoSession
    BY <2>1 DEF NoSession
  <2>5. HoldsOf(r)'
    BY <2>1, <2>3, <2>4, StagesApart DEF HoldsOf, sessionVars
  <2>. QED  BY <2>1, <2>3, <2>5, HandlerRows DEF RowsInv, TypeOK, sessionVars
<1>2. ASSUME NEW op \in Operations, CheckSession(r, op) PROVE RowsInv'
  <2>. DEFINE what == [request[r] EXCEPT !.at = op]
  <2>1. CASE End(r) /\ UNCHANGED <<sessionVars, login, linkVars>>
    BY <2>1, EndRows
  <2>2. CASE Become(r, what) /\ UNCHANGED <<sessionVars, login, linkVars>>
    <3>1. /\ request[r] \in [at : TokenStages, session : Sessions, late : BOOLEAN]
          /\ session[request[r].session] # NoSession
      BY <1>2, HandlingFields, StagesApart DEF CheckSession, IsAt, RowsInv, Holds
    <3>2. /\ what \in [at : TokenStages, session : Sessions, late : BOOLEAN]
          /\ what.at = op /\ what.session = request[r].session
      BY <3>1, StagesApart
    <3>3. what \in Handling
      BY <3>2 DEF Handling
    <3>4. /\ request'[r] = what
          /\ \A q \in Requests : q # r => request'[q] = request[q]
          /\ request' \in [Requests -> Handling]
      BY <2>2, <3>3, BecomeFact DEF RowsInv
    <3>5. HoldsOf(r)'
      BY <2>2, <3>1, <3>2, <3>4, StagesApart DEF HoldsOf, sessionVars
    <3>. QED  BY <2>2, <3>4, <3>5, HandlerRows DEF RowsInv, TypeOK, sessionVars
  <2>. QED  BY <1>2, <2>1, <2>2 DEF CheckSession
<1>3. ASSUME NEW h \in Handoffs, PeekHandoff(r, h) PROVE RowsInv'
  <2>. DEFINE what == [at |-> "complete", handoff |-> h]
  <2>1. Become(r, what) /\ UNCHANGED <<sessionVars, login, linkVars>>
    BY <1>3 DEF PeekHandoff
  <2>2. what \in Handling
    BY DEF Handling
  <2>3. /\ request'[r] = what
        /\ \A q \in Requests : q # r => request'[q] = request[q]
        /\ request' \in [Requests -> Handling]
    BY <2>1, <2>2, BecomeFact DEF RowsInv
  <2>4. HoldsOf(r)'
    BY <2>3, StagesApart DEF HoldsOf
  <2>. QED  BY <2>1, <2>3, <2>4, HandlerRows DEF RowsInv, TypeOK, sessionVars
<1>. QED  BY <1>1, <1>2, <1>3

LEMMA IntendRows ==
  ASSUME RowsInv, NEW r \in Requests, CheckIntent(r)
  PROVE  RowsInv'
<1>. DEFINE what == [request[r] EXCEPT !.at = "intend"]
<1>1. Become(r, what) /\ UNCHANGED <<sessionVars, login, linkVars>> /\ request[r].at = "intent"
  BY DEF CheckIntent, IsAt
<1>2. /\ request[r] \in [at : TokenStages, session : Sessions, late : BOOLEAN]
      /\ session[request[r].session] # NoSession
  BY <1>1, HandlingFields DEF RowsInv, Holds, TokenStages, Operations
<1>3. /\ what \in [at : TokenStages, session : Sessions, late : BOOLEAN]
      /\ what.at = "intend" /\ what.session = request[r].session
  BY <1>2, StagesApart
<1>4. what \in Handling
  BY <1>3 DEF Handling
<1>5. /\ request'[r] = what
      /\ \A q \in Requests : q # r => request'[q] = request[q]
      /\ request' \in [Requests -> Handling]
  BY <1>1, <1>4, BecomeFact DEF RowsInv
<1>6. HoldsOf(r)'
  BY <1>1, <1>2, <1>3, <1>5, StagesApart DEF HoldsOf, sessionVars
<1>. QED  BY <1>1, <1>5, <1>6, HandlerRows DEF RowsInv, TypeOK, sessionVars

\* What the first two statements of a logout of all remember.
LEMMA RevokeFacts ==
  ASSUME RowsInv, NEW r \in Requests
  PROVE  /\ RevokeBrowserSessions(r) =>
              /\ request'[r].at = "revoke_native" /\ request'[r].user \in Users
              /\ request'[r].there = SessionsOf(request'[r].user)
              /\ request'[r].hit = OfKind(request'[r].there, "browser")
         /\ RevokeNativeSessions(r) =>
              /\ request[r].at = "revoke_native" /\ request'[r].at = "raise_version"
              /\ request'[r].user = request[r].user /\ request'[r].there = request[r].there
              /\ request'[r].hit = request[r].hit \cup OfKind(SessionsOf(request[r].user), "native")
         /\ RevokeBrowserSessions(r) \/ RevokeNativeSessions(r) =>
              /\ \A q \in Requests : q # r => request'[q] = request[q]
              /\ request' \in [Requests -> Handling]
              /\ UNCHANGED <<sessionVars, login, linkVars>>
<1>. DEFINE u == session[request[r].session].user
            one == [at |-> "revoke_native", user |-> u, there |-> SessionsOf(u),
                    hit |-> OfKind(SessionsOf(u), "browser")]
            two == [request[r] EXCEPT !.at = "raise_version",
                      !.hit = @ \cup OfKind(SessionsOf(request[r].user), "native")]
            Type == [at : RevokeStages, user : Users, there : SUBSET Sessions, hit : SUBSET Sessions]
<1>0. \A v, kind : SessionsOf(v) \in SUBSET Sessions /\ OfKind(SessionsOf(v), kind) \in SUBSET Sessions
  BY DEF SessionsOf, OfKind
<1>1. ASSUME RevokeBrowserSessions(r)
      PROVE  /\ one \in Type /\ Become(r, one) /\ UNCHANGED <<sessionVars, login, linkVars>>
  <2>1. u \in Users
    <3>1. request[r].at \in Operations
      BY <1>1 DEF RevokeBrowserSessions, IsAt, Operations
    <3>. QED  BY <3>1, HandlingFields DEF RowsInv, Rows, Holds
  <2>2. one \in Type
    BY <1>0, <2>1, StagesApart
  <2>. QED  BY <1>1, <2>2 DEF RevokeBrowserSessions
<1>2. ASSUME RevokeNativeSessions(r)
      PROVE  /\ request[r] \in Type /\ Become(r, two) /\ UNCHANGED <<sessionVars, login, linkVars>>
             /\ request[r].at = "revoke_native"
  <2>1. request[r].at = "revoke_native"
    BY <1>2 DEF RevokeNativeSessions, IsAt
  <2>2. request[r] \in Type
    BY <2>1, HandlingFields, StagesApart DEF RowsInv
  <2>. QED  BY <1>2, <2>1, <2>2 DEF RevokeNativeSessions
<1>3. ASSUME request[r] \in Type
      PROVE  /\ two \in Type /\ two.at = "raise_version" /\ two.user = request[r].user
             /\ two.there = request[r].there
             /\ two.hit = request[r].hit \cup OfKind(SessionsOf(request[r].user), "native")
  BY <1>0, <1>3, StagesApart
<1>4. Type \subseteq Handling
  BY DEF Handling
<1>5. ASSUME NEW what \in Type, Become(r, what)
      PROVE  /\ request'[r] = what /\ request' \in [Requests -> Handling]
             /\ \A q \in Requests : q # r => request'[q] = request[q]
  BY <1>4, <1>5, BecomeFact DEF RowsInv
<1>6. /\ one.at = "revoke_native" /\ one.user = u /\ one.there = SessionsOf(u)
      /\ one.hit = OfKind(SessionsOf(u), "browser")
      /\ one \in Type => u \in Users
  OBVIOUS
<1>. HIDE DEF one, two, Type
<1>7. ASSUME RevokeBrowserSessions(r)
      PROVE  /\ request'[r] = one /\ request' \in [Requests -> Handling] /\ u \in Users
             /\ \A q \in Requests : q # r => request'[q] = request[q]
             /\ UNCHANGED <<sessionVars, login, linkVars>>
  <2>1. one \in Type /\ Become(r, one) /\ UNCHANGED <<sessionVars, login, linkVars>>
    BY <1>1, <1>7
  <2>2. /\ request'[r] = one /\ request' \in [Requests -> Handling]
        /\ \A q \in Requests : q # r => request'[q] = request[q]
    BY <2>1, <1>5
  <2>. QED  BY <2>1, <2>2, <1>6
<1>8. ASSUME RevokeNativeSessions(r)
      PROVE  /\ request'[r] = two /\ request' \in [Requests -> Handling]
             /\ request[r].at = "revoke_native" /\ request[r] \in Type
             /\ \A q \in Requests : q # r => request'[q] = request[q]
             /\ UNCHANGED <<sessionVars, login, linkVars>>
  <2>1. two \in Type /\ Become(r, two)
    BY <1>2, <1>3, <1>8
  <2>2. /\ request'[r] = two /\ request' \in [Requests -> Handling]
        /\ \A q \in Requests : q # r => request'[q] = request[q]
    BY <2>1, <1>5
  <2>. QED  BY <2>2, <1>2, <1>8
<1>9. RevokeBrowserSessions(r) =>
        /\ request'[r].at = "revoke_native" /\ request'[r].user \in Users
        /\ request'[r].there = SessionsOf(request'[r].user)
        /\ request'[r].hit = OfKind(request'[r].there, "browser")
  BY <1>6, <1>7
<1>10. RevokeNativeSessions(r) =>
         /\ request[r].at = "revoke_native" /\ request'[r].at = "raise_version"
         /\ request'[r].user = request[r].user /\ request'[r].there = request[r].there
         /\ request'[r].hit = request[r].hit \cup OfKind(SessionsOf(request[r].user), "native")
  BY <1>3, <1>8
<1>. QED  BY <1>7, <1>8, <1>9, <1>10

LEMMA RevokeRows ==
  ASSUME RowsInv, NEW r \in Requests, RevokeBrowserSessions(r) \/ RevokeNativeSessions(r)
  PROVE  RowsInv'
<1>1. /\ request'[r].at \in RevokeStages
      /\ \A q \in Requests : q # r => request'[q] = request[q]
      /\ request' \in [Requests -> Handling]
      /\ UNCHANGED <<sessionVars, login, linkVars>>
  BY RevokeFacts, StagesApart
<1>2. HoldsOf(r)'
  BY <1>1, StagesApart DEF HoldsOf
<1>. QED  BY <1>1, <1>2, HandlerRows DEF RowsInv, TypeOK, sessionVars

\* A confirmation that stays where it may be in the way of nobody else.
LEMMA StepRows ==
  ASSUME RowsInv, NEW r \in Requests, NEW to \in ConfirmStages, NEW owner \in Users \cup {None},
         request[r].at \in ConfirmStages, NEW what,
         what \in {[request[r] EXCEPT !.at = to],
                   [request[r] EXCEPT !.at = to, !.owner = owner]},
         Become(r, what), UNCHANGED <<sessionVars, login, linkVars>>
  PROVE  RowsInv' /\ request'[r].at = to /\ request'[r].intent = request[r].intent
<1>1. request[r] \in [at : ConfirmStages, intent : Intents, owner : Users \cup {None}]
  BY HandlingFields DEF RowsInv
<1>2. /\ what \in [at : ConfirmStages, intent : Intents, owner : Users \cup {None}]
      /\ what.at = to /\ what.intent = request[r].intent
  BY <1>1
<1>3. what \in Handling
  BY <1>2 DEF Handling
<1>4. /\ request'[r] = what
      /\ \A q \in Requests : q # r => request'[q] = request[q]
      /\ request' \in [Requests -> Handling]
  BY <1>3, BecomeFact DEF RowsInv
<1>5. HoldsOf(r)
  BY DEF RowsInv, Holds, HoldsOf
<1>6. HoldsOf(r)'
  BY <1>2, <1>4, <1>5, StagesApart DEF HoldsOf, linkVars, ConfirmStages, Operations
<1>7. RowsInv'
  BY <1>4, <1>6, HandlerRows DEF RowsInv, TypeOK, sessionVars
<1>. QED  BY <1>2, <1>4, <1>7

LEMMA OwnerType == \A uid : OwnerOf(uid) \in Users \cup {None}
BY DEF OwnerOf

LEMMA LockRows ==
  ASSUME RowsInv, NEW r \in Requests, NEW i \in Intents, LockIntent(r, i)
  PROVE  RowsInv'
<1>. DEFINE what == [at |-> "locked", intent |-> i, owner |-> None]
<1>1. /\ Become(r, what) /\ UNCHANGED <<sessionVars, login, linkVars>>
      /\ intent[i].state = "pending" /\ proof[intent[i].proof].state = "fresh"
  BY DEF LockIntent
<1>2. what \in Handling
  BY DEF Handling, ConfirmStages
<1>3. /\ request'[r] = what
      /\ \A q \in Requests : q # r => request'[q] = request[q]
      /\ request' \in [Requests -> Handling]
  BY <1>1, <1>2, BecomeFact DEF RowsInv
<1>4. HoldsOf(r)'
  BY <1>1, <1>3, StagesApart DEF HoldsOf, linkVars, Operations
<1>. QED  BY <1>1, <1>3, <1>4, HandlerRows DEF RowsInv, TypeOK, sessionVars

LEMMA ConfirmRows ==
  ASSUME RowsInv, NEW r \in Requests,
         \/ CheckAccount(r) \/ ReadOwner(r) \/ ReadExisting(r) \/ InsertLink(r)
  PROVE  RowsInv'
<1>1. CASE CheckAccount(r)
  BY <1>1, StepRows DEF CheckAccount, Step, IsAt, ConfirmStages
<1>2. CASE ReadOwner(r)
  BY <1>2, StepRows, OwnerType DEF ReadOwner, IsAt, ConfirmStages
<1>3. CASE ReadExisting(r)
  BY <1>3, StepRows DEF ReadExisting, Step, IsAt, ConfirmStages
<1>4. CASE InsertLink(r)
  BY <1>4, StepRows DEF InsertLink, Step, IsAt, ConfirmStages
<1>. QED  BY <1>1, <1>2, <1>3, <1>4

-----------------------------------------------------------------------------
(* Steps that write sessions. *)

\* A session that is there stays its user's.
LEMMA SessionRows ==
  ASSUME RowsInv, TypeOK',
         UNCHANGED <<proof, handoff, intent>>,
         \A s \in Sessions : /\ session'[s] = NoSession \/ session'[s].user \in Users
                             /\ session'[s] = NoSession => session[s] = NoSession,
         \A q \in Requests : \/ request'[q] = request[q] \/ request'[q] = Idle
                             \/ /\ request'[q].at = "issue"
                                /\ session'[request'[q].session] # NoSession
  PROVE  RowsInv'
<1>1. Rows'
  BY DEF RowsInv, Rows
<1>2. Holds'
  <2>. SUFFICES ASSUME NEW q \in Requests PROVE HoldsOf(q)'
    BY DEF Holds, HoldsOf
  <2>1. CASE request'[q] = request[q]
    BY <2>1, HandlingFields DEF RowsInv, Holds, HoldsOf
  <2>2. CASE request'[q] = Idle
    BY <2>2, StagesApart DEF HoldsOf, Idle
  <2>3. CASE request'[q].at = "issue" /\ session'[request'[q].session] # NoSession
    BY <2>3, StagesApart DEF HoldsOf
  <2>. QED  BY <2>1, <2>2, <2>3
<1>. QED  BY <1>1, <1>2 DEF RowsInv

SessionType == [user : Users \cup {None}, provider : Providers \cup {None},
                live : BOOLEAN, issued : BOOLEAN, version : 0 .. MaxLogouts]

LEMMA CreateRows ==
  ASSUME RowsInv, NEW r \in Requests, NEW s \in Sessions, CreateSession(r, s)
  PROVE  RowsInv'
<1>. DEFINE what == [at |-> "issue", session |-> s]
            new  == [user |-> request[r].user, provider |-> request[r].provider,
                     live |-> TRUE, issued |-> FALSE, version |-> 0]
<1>1. /\ request[r].user \in Users /\ request[r].provider \in Providers
      /\ session' = [session EXCEPT ![s] = new] /\ Become(r, what)
      /\ UNCHANGED <<registered, version, loggedOut, login, linkVars>>
  BY HandlingFields DEF CreateSession, IsAt, RowsInv
<1>2. new \in SessionType /\ new # NoSession /\ new.user \in Users
  BY <1>1, LogoutsAssumption DEF SessionType, NoSession
<1>3. session \in [Sessions -> SessionType]
  BY DEF RowsInv, TypeOK, SessionType
<1>. HIDE DEF new
<1>4. /\ session' \in [Sessions -> SessionType] /\ session'[s] = new
      /\ \A t \in Sessions : t # s => session'[t] = session[t]
  BY <1>1, <1>2, <1>3
<1>5. what \in Handling
  BY DEF Handling
<1>6. /\ request'[r] = what
      /\ \A q \in Requests : q # r => request'[q] = request[q]
      /\ request' \in [Requests -> Handling]
  BY <1>1, <1>5, BecomeFact DEF RowsInv
<1>7. TypeOK'
  BY <1>1, <1>4, <1>6 DEF RowsInv, TypeOK, SessionType, linkVars
<1>8. \A t \in Sessions : /\ session'[t] = NoSession \/ session'[t].user \in Users
                          /\ session'[t] = NoSession => session[t] = NoSession
  BY <1>2, <1>4 DEF RowsInv, Rows
<1>. QED  BY <1>1, <1>2, <1>4, <1>6, <1>7, <1>8, SessionRows DEF linkVars

\* A token's version, or a session that is no longer live, is all that is new.
LEMMA SameUserRows ==
  ASSUME RowsInv, NEW r \in Requests, End(r), UNCHANGED <<registered, login, proof, handoff, intent>>,
         version' \in [Users -> 0 .. MaxLogouts], loggedOut' \subseteq Sessions,
         links' \subseteq links, session' \in [Sessions -> SessionType],
         \A s \in Sessions : \/ session'[s] = session[s]
                             \/ /\ session[s] # NoSession
                                /\ session'[s].user = session[s].user
  PROVE  RowsInv'
<1>1. /\ request'[r] = Idle
      /\ \A q \in Requests : q # r => request'[q] = request[q]
      /\ request' \in [Requests -> Handling]
  BY BecomeFact DEF RowsInv, End, Idle, Handling
<1>2. TypeOK'
  BY <1>1 DEF RowsInv, TypeOK, SessionType
<1>3. \A s \in Sessions : /\ session'[s] = NoSession \/ session'[s].user \in Users
                          /\ session'[s] = NoSession => session[s] = NoSession
  <2>. SUFFICES ASSUME NEW s \in Sessions, session[s] # NoSession, session'[s].user = session[s].user
                PROVE  session'[s].user \in Users /\ session'[s] # NoSession
    BY DEF RowsInv, Rows
  <2>1. session'[s].user \in Users
    BY DEF RowsInv, Rows
  <2>2. NoSession.user = None
    BY DEF NoSession
  <2>. QED  BY <2>1, <2>2, NoneAssumption
<1>. QED  BY <1>1, <1>2, <1>3, SessionRows

LEMMA EndLive ==
  ASSUME TypeOK, NEW S \in SUBSET Sessions,
         session' = [s \in Sessions |-> IF s \in S THEN [session[s] EXCEPT !.live = FALSE]
                                                   ELSE session[s]]
  PROVE  /\ session' \in [Sessions -> SessionType]
         /\ \A s \in Sessions : /\ s \notin S => session'[s] = session[s]
                                /\ s \in S => session'[s].live = FALSE
                                /\ session'[s].user = session[s].user
                                /\ session'[s].provider = session[s].provider
                                /\ session'[s].live => session[s].live
<1>1. \A s \in Sessions : session[s] \in SessionType
  BY DEF TypeOK, SessionType
<1>2. ASSUME NEW x \in SessionType
      PROVE  /\ [x EXCEPT !.live = FALSE] \in SessionType
             /\ [x EXCEPT !.live = FALSE].user = x.user
             /\ [x EXCEPT !.live = FALSE].provider = x.provider
             /\ [x EXCEPT !.live = FALSE].live = FALSE
  BY DEF SessionType
<1>. QED  BY <1>1, <1>2

LEMMA IssueRows ==
  ASSUME RowsInv, NEW r \in Requests, IssueToken(r)
  PROVE  RowsInv'
<1>. DEFINE t == request[r].session
            new == [session[t] EXCEPT !.issued = TRUE, !.version = version[session[t].user]]
<1>1. t \in Sessions /\ session[t] # NoSession
  BY HandlingFields DEF IssueToken, IsAt, RowsInv, Holds
<1>2. session[t] \in SessionType /\ version[session[t].user] \in 0 .. MaxLogouts
  BY <1>1 DEF RowsInv, TypeOK, Rows, SessionType
<1>3. new \in SessionType /\ new.user = session[t].user
  BY <1>2 DEF SessionType
<1>4. session' = [session EXCEPT ![t] = new]
  BY DEF IssueToken
<1>. HIDE DEF new
<1>5. /\ session' \in [Sessions -> SessionType] /\ session'[t] = new
      /\ \A s \in Sessions : s # t => session'[s] = session[s]
  BY <1>1, <1>3, <1>4 DEF RowsInv, TypeOK, SessionType
<1>6. \A s \in Sessions : \/ session'[s] = session[s]
                          \/ session[s] # NoSession /\ session'[s].user = session[s].user
  BY <1>1, <1>3, <1>5
<1>7. /\ End(r) /\ UNCHANGED <<registered, login, proof, handoff, intent>>
      /\ version' \in [Users -> 0 .. MaxLogouts] /\ loggedOut' \subseteq Sessions
      /\ links' \subseteq links
  BY DEF IssueToken, RowsInv, TypeOK, linkVars
<1>. QED  BY <1>5, <1>6, <1>7, SameUserRows

LEMMA UsersSessions ==
  ASSUME RowsInv, NEW u \in Users
  PROVE  \A s \in SessionsOf(u) : s \in Sessions /\ session[s] # NoSession
<1>1. NoSession.user = None
  BY DEF NoSession
<1>. QED  BY <1>1, NoneAssumption DEF SessionsOf

LEMMA LogoutRows ==
  ASSUME RowsInv, NEW r \in Requests, Logout(r) \/ RaiseVersion(r) \/ RevokeLink(r)
  PROVE  RowsInv'
<1>. DEFINE t == request[r].session
            u == session[t].user
<1>1. request[r].at \in Operations => t \in Sessions /\ session[t] # NoSession /\ u \in Users
  BY HandlingFields DEF RowsInv, Rows, Holds
<1>2. CASE Logout(r)
  <2>0. t \in Sessions /\ session[t] # NoSession
    BY <1>1, <1>2 DEF Logout, IsAt, Operations
  <2>1. session' = [s \in Sessions |-> IF s \in {t} THEN [session[s] EXCEPT !.live = FALSE]
                                                     ELSE session[s]]
    BY <2>0, <1>2 DEF Logout, RowsInv, TypeOK
  <2>2. /\ End(r) /\ UNCHANGED <<registered, login, proof, handoff, intent>>
        /\ version' \in [Users -> 0 .. MaxLogouts] /\ loggedOut' \subseteq Sessions
        /\ links' \subseteq links
    BY <1>2 DEF Logout, RowsInv, TypeOK, linkVars
  <2>3. {t} \in SUBSET Sessions
    BY <2>0
  <2>4. /\ session' \in [Sessions -> SessionType]
        /\ \A s \in Sessions : \/ session'[s] = session[s]
                               \/ session[s] # NoSession /\ session'[s].user = session[s].user
    BY <2>0, <2>1, <2>3, EndLive DEF RowsInv
  <2>. QED  BY <2>2, <2>4, SameUserRows
<1>3. CASE RaiseVersion(r)
  <2>. DEFINE v == request[r].user
  <2>1. v \in Users /\ request[r].hit \in SUBSET Sessions /\ request[r].there \in SUBSET Sessions
    BY <1>3, HandlingFields, StagesApart DEF RaiseVersion, IsAt, RowsInv
  <2>2. version' \in [Users -> 0 .. MaxLogouts]
    BY <1>3, <2>1, LogoutsAssumption DEF RaiseVersion, RowsInv, TypeOK
  <2>3. /\ End(r) /\ UNCHANGED <<registered, login, proof, handoff, intent>>
        /\ loggedOut' \subseteq Sessions /\ links' \subseteq links
    BY <1>3, <2>1 DEF RaiseVersion, RowsInv, TypeOK, linkVars
  <2>4. Revoke(request[r].hit)
    BY <1>3 DEF RaiseVersion
  <2>5. session' \in [Sessions -> SessionType]
    BY <2>1, <2>4, EndLive DEF RowsInv, Revoke
  <2>6. \A s \in Sessions : \/ session'[s] = session[s]
                            \/ session[s] # NoSession /\ session'[s].user = session[s].user
    <3>1. [NoSession EXCEPT !.live = FALSE] = NoSession
      <4>1. NoSession.live = FALSE /\ "live" \in DOMAIN NoSession
        BY DEF NoSession
      <4>2. NoSession = [f \in {"user", "provider", "live", "issued", "version"} |-> NoSession[f]]
        BY DEF NoSession
      <4>. QED  BY <4>1, <4>2
    <3>2. \A s \in Sessions : session'[s] \in {session[s], [session[s] EXCEPT !.live = FALSE]}
      BY <2>4 DEF Revoke
    <3>. QED  BY <2>1, <2>4, <3>1, <3>2, EndLive DEF RowsInv, Revoke
  <2>. QED  BY <2>2, <2>3, <2>5, <2>6, SameUserRows
<1>4. CASE RevokeLink(r)
  <2>. DEFINE S == {s \in SessionsOf(u) : session[s].provider = "discord"}
  <2>1. session' = [s \in Sessions |-> IF s \in S THEN [session[s] EXCEPT !.live = FALSE]
                                                   ELSE session[s]]
    BY <1>4 DEF RevokeLink, Revoke
  <2>2. /\ End(r) /\ UNCHANGED <<registered, login, proof, handoff, intent>>
        /\ version' \in [Users -> 0 .. MaxLogouts] /\ loggedOut' \subseteq Sessions
        /\ links' \subseteq links
    BY <1>4 DEF RevokeLink, RowsInv, TypeOK
  <2>3. S \subseteq Sessions /\ \A s \in S : session[s] # NoSession
    <3>1. u \in Users
      BY <1>1, <1>4 DEF RevokeLink, IsAt, Operations
    <3>. QED  BY <3>1, UsersSessions DEF SessionsOf
  <2>. QED  BY <2>1, <2>2, <2>3, EndLive, SameUserRows DEF RowsInv
<1>. QED  BY <1>2, <1>3, <1>4

-----------------------------------------------------------------------------
(* Steps that write proofs, handoffs and intents. *)

\* A new proof, handoff or intent takes a row nobody refers to; one confirmation
\* at a time spends a proof.
LEMMA IntentRows ==
  ASSUME RowsInv, TypeOK', NEW r \in Requests, End(r), UNCHANGED session,
         \A p \in Proofs : \/ proof'[p] = proof[p]
                           \/ /\ proof'[p].uid \in Uids /\ proof'[p].state # "none"
                              /\ proof'[p] # NoProof
                              /\ \/ proof[p] = NoProof
                                 \/ \A q \in Requests : q # r /\ request[q].at \in ConfirmStages
                                       => intent[request[q].intent].proof # p,
         \A h \in Handoffs : handoff'[h] = handoff[h] \/ handoff'[h].session \in Sessions,
         \A i \in Intents : \/ intent'[i] = intent[i]
                            \/ /\ intent'[i].user \in Users /\ intent'[i].proof \in Proofs
                               /\ intent'[i].state # "none" /\ proof'[intent'[i].proof] # NoProof
                               /\ \/ intent[i] = NoIntent
                                  \/ \A q \in Requests : q # r /\ request[q].at \in ConfirmStages
                                       => request[q].intent # i
  PROVE  RowsInv'
<1>1. /\ request'[r] = Idle
      /\ \A q \in Requests : q # r => request'[q] = request[q]
  BY BecomeFact DEF RowsInv, End
<1>2. Rows'
  BY DEF RowsInv, Rows
<1>3. Holds'
  <2>. SUFFICES ASSUME NEW q \in Requests PROVE HoldsOf(q)'
    BY DEF Holds, HoldsOf
  <2>1. CASE q = r
    BY <1>1, <2>1, StagesApart DEF HoldsOf, Idle
  <2>2. CASE q # r /\ request[q].at \in ConfirmStages
    <3>. DEFINE i == request[q].intent
    <3>1. i \in Intents /\ intent[i].state = "pending" /\ proof[intent[i].proof].state = "fresh"
      BY <2>2, HandlingFields DEF RowsInv, Holds
    <3>2. intent[i] # NoIntent /\ intent[i].proof \in Proofs
      BY <3>1 DEF RowsInv, Rows, NoIntent
    <3>3. intent'[i] = intent[i]
      BY <2>2, <3>1, <3>2
    <3>4. proof[intent[i].proof] # NoProof
      BY <3>1 DEF NoProof
    <3>5. proof'[intent[i].proof] = proof[intent[i].proof]
      BY <2>2, <3>2, <3>4
    <3>. QED  BY <1>1, <2>2, <3>1, <3>3, <3>5, StagesApart DEF HoldsOf, Operations, ConfirmStages
  <2>3. CASE q # r /\ request[q].at \notin ConfirmStages
    BY <1>1, <2>3 DEF RowsInv, Holds, HoldsOf
  <2>. QED  BY <2>1, <2>2, <2>3
<1>. QED  BY <1>2, <1>3 DEF RowsInv

ProofType  == [uid : Uids \cup {None}, state : {"none", "fresh", "spent"}]
IntentType == [user : Users \cup {None}, session : Sessions \cup {None},
               proof : Proofs \cup {None}, state : {"none", "pending", "committed"}]

\* The type of a step that ends a request and writes rows of their types.
LEMMA EndTyped ==
  ASSUME RowsInv, NEW r \in Requests, End(r), UNCHANGED <<sessionVars, login>>,
         links' \subseteq Uids \X Users,
         proof' \in [Proofs -> ProofType], intent' \in [Intents -> IntentType],
         handoff' \in [Handoffs -> [session : Sessions \cup {None}, state : {"none", "open", "used"}]]
  PROVE  TypeOK'
<1>1. request' \in [Requests -> Handling]
  BY BecomeFact DEF RowsInv, End, Idle, Handling
<1>. QED  BY <1>1 DEF RowsInv, TypeOK, sessionVars, ProofType, IntentType

LEMMA NewProof ==
  ASSUME RowsInv, NEW p \in Proofs, NEW uid \in Uids,
         proof' = [proof EXCEPT ![p] = [uid |-> uid, state |-> "fresh"]]
  PROVE  /\ proof' \in [Proofs -> ProofType]
         /\ proof'[p].uid = uid /\ proof'[p].state = "fresh" /\ proof'[p] # NoProof
         /\ \A q \in Proofs : q # p => proof'[q] = proof[q]
BY DEF RowsInv, TypeOK, ProofType, NoProof

LEMMA NewIntent ==
  ASSUME RowsInv, NEW i \in Intents, NEW u \in Users, NEW s \in Sessions, NEW p \in Proofs,
         intent' = [intent EXCEPT ![i] =
           [user |-> u, session |-> s, proof |-> p, state |-> "pending"]]
  PROVE  /\ intent' \in [Intents -> IntentType]
         /\ intent'[i].user = u /\ intent'[i].proof = p /\ intent'[i].state = "pending"
         /\ \A j \in Intents : j # i => intent'[j] = intent[j]
BY DEF RowsInv, TypeOK, IntentType

LEMMA DiscordRows ==
  ASSUME RowsInv, NEW r \in Requests, NEW uid \in Uids, DiscordLogin(r, uid)
  PROVE  RowsInv'
<1>1. ASSUME NEW u \in registered,
             Become(r, [at |-> "owner", user |-> u, provider |-> "discord"]), UNCHANGED proof
      PROVE  RowsInv'
  <2>. DEFINE what == [at |-> "owner", user |-> u, provider |-> "discord"]
  <2>1. what \in Handling
    BY DEF Handling, Providers, RowsInv, TypeOK
  <2>2. /\ request'[r] = what
        /\ \A q \in Requests : q # r => request'[q] = request[q]
        /\ request' \in [Requests -> Handling]
    BY <1>1, <2>1, BecomeFact DEF RowsInv
  <2>3. HoldsOf(r)'
    BY <2>2, StagesApart DEF HoldsOf
  <2>4. UNCHANGED <<sessionVars, login, linkVars>>
    BY <1>1 DEF DiscordLogin, linkVars
  <2>. QED  BY <2>2, <2>3, <2>4, HandlerRows DEF RowsInv, TypeOK, sessionVars
<1>2. ASSUME NEW p \in Proofs, proof[p] = NoProof, End(r),
             proof' = [proof EXCEPT ![p] = [uid |-> uid, state |-> "fresh"]]
      PROVE  RowsInv'
  <2>1. UNCHANGED <<sessionVars, login, links, handoff, intent>>
    BY DEF DiscordLogin
  <2>2. TypeOK'
    BY <1>2, <2>1, NewProof, EndTyped DEF RowsInv, TypeOK, IntentType
  <2>. QED  BY <1>2, <2>1, <2>2, NewProof, IntentRows DEF sessionVars
<1>. QED  BY <1>1, <1>2 DEF DiscordLogin

LEMMA CreateIntentRows ==
  ASSUME RowsInv, NEW r \in Requests, NEW p \in Proofs, NEW i \in Intents, CreateIntent(r, p, i)
  PROVE  RowsInv'
<1>. DEFINE s == request[r].session
<1>1. s \in Sessions /\ session[s] # NoSession
  BY HandlingFields DEF CreateIntent, IsAt, RowsInv, Holds
<1>2. /\ session[s].user \in Users /\ End(r) /\ intent[i] = NoIntent
      /\ intent' = [intent EXCEPT ![i] =
           [user |-> session[s].user, session |-> s, proof |-> p, state |-> "pending"]]
      /\ UNCHANGED <<sessionVars, login, links, proof, handoff>>
      /\ proof[p].state = "fresh"
  BY <1>1 DEF CreateIntent, RowsInv, Rows
<1>3. /\ intent' \in [Intents -> IntentType]
      /\ intent'[i].user \in Users /\ intent'[i].proof = p /\ intent'[i].state = "pending"
      /\ \A j \in Intents : j # i => intent'[j] = intent[j]
  BY <1>1, <1>2, NewIntent
<1>4. TypeOK'
  BY <1>2, <1>3, EndTyped DEF RowsInv, TypeOK, ProofType
<1>5. proof'[p] # NoProof
  BY <1>2 DEF NoProof
<1>. QED  BY <1>2, <1>3, <1>4, <1>5, IntentRows DEF sessionVars

LEMMA CreateHandoffRows ==
  ASSUME RowsInv, NEW r \in Requests, NEW h \in Handoffs, CreateHandoff(r, h)
  PROVE  RowsInv'
<1>. DEFINE s == request[r].session
<1>1. s \in Sessions
  BY HandlingFields DEF CreateHandoff, IsAt, Operations, RowsInv
<1>2. /\ End(r) /\ UNCHANGED <<sessionVars, login, links, proof, intent>>
      /\ handoff' = [handoff EXCEPT ![h] = [session |-> s, state |-> "open"]]
  BY DEF CreateHandoff
<1>3. /\ handoff' \in [Handoffs -> [session : Sessions \cup {None}, state : {"none", "open", "used"}]]
      /\ handoff'[h].session = s
      /\ \A g \in Handoffs : g # h => handoff'[g] = handoff[g]
  BY <1>1, <1>2 DEF RowsInv, TypeOK
<1>4. TypeOK'
  BY <1>2, <1>3, EndTyped DEF RowsInv, TypeOK, ProofType, IntentType
<1>. QED  BY <1>1, <1>2, <1>3, <1>4, IntentRows DEF sessionVars

LEMMA CompleteRows ==
  ASSUME RowsInv, NEW r \in Requests, NEW uid \in Uids, NEW p \in Proofs, NEW i \in Intents,
         CompleteHandoff(r, uid, p, i)
  PROVE  RowsInv'
<1>. DEFINE h == request[r].handoff
            s == handoff[h].session
<1>1. h \in Handoffs /\ handoff[h].state = "open" /\ session[s].live
  BY HandlingFields DEF CompleteHandoff, Open, IsAt, RowsInv
<1>2. s \in Sessions
  BY <1>1 DEF RowsInv, Rows, NoHandoff
<1>3. session[s].user \in Users
  BY <1>1, <1>2 DEF RowsInv, Rows, NoSession
<1>4. /\ End(r) /\ proof[p] = NoProof /\ intent[i] = NoIntent
      /\ proof' = [proof EXCEPT ![p] = [uid |-> uid, state |-> "fresh"]]
      /\ intent' = [intent EXCEPT ![i] =
           [user |-> session[s].user, session |-> s, proof |-> p, state |-> "pending"]]
      /\ handoff' = [handoff EXCEPT ![h].state = "used"]
      /\ UNCHANGED <<sessionVars, login, links>>
  BY DEF CompleteHandoff
<1>5. /\ handoff' \in [Handoffs -> [session : Sessions \cup {None}, state : {"none", "open", "used"}]]
      /\ handoff'[h].session = s
      /\ \A g \in Handoffs : g # h => handoff'[g] = handoff[g]
  BY <1>1, <1>2, <1>4 DEF RowsInv, TypeOK
<1>6. /\ proof' \in [Proofs -> ProofType]
      /\ proof'[p].uid = uid /\ proof'[p].state = "fresh" /\ proof'[p] # NoProof
      /\ \A q \in Proofs : q # p => proof'[q] = proof[q]
  BY <1>4, NewProof
<1>7. /\ intent' \in [Intents -> IntentType]
      /\ intent'[i].user \in Users /\ intent'[i].proof = p /\ intent'[i].state = "pending"
      /\ \A j \in Intents : j # i => intent'[j] = intent[j]
  BY <1>2, <1>3, <1>4, NewIntent
<1>8. TypeOK'
  BY <1>4, <1>5, <1>6, <1>7, EndTyped DEF RowsInv, TypeOK
<1>. QED  BY <1>2, <1>4, <1>5, <1>6, <1>7, <1>8, IntentRows DEF sessionVars

-----------------------------------------------------------------------------
(* The commit of a link: no other confirmation holds the intent or its proof. *)

Apart ==
  \A q, r \in Requests :
    /\ request[q].at \in ConfirmStages /\ request[r].at \in ConfirmStages
    /\ intent[request[q].intent].proof = intent[request[r].intent].proof
    => q = r

LEMMA CommitFacts ==
  ASSUME RowsInv, NEW r \in Requests, CommitLink(r)
  PROVE  LET i == request[r].intent
             p == intent[i].proof
         IN /\ i \in Intents /\ p \in Proofs /\ request[r].at \in ConfirmStages
            /\ intent[i].state = "pending" /\ proof[p].state = "fresh"
            /\ intent[i].user \in Users /\ proof[p].uid \in Uids
            /\ proof' \in [Proofs -> ProofType] /\ intent' \in [Intents -> IntentType]
            /\ proof'[p].uid = proof[p].uid /\ proof'[p].state = "spent"
            /\ \A q \in Proofs : q # p => proof'[q] = proof[q]
            /\ intent'[i].user = intent[i].user /\ intent'[i].proof = p
            /\ intent'[i].state = "committed"
            /\ \A j \in Intents : j # i => intent'[j] = intent[j]
<1>. DEFINE i == request[r].intent
            p == intent[i].proof
<1>1. request[r].at \in ConfirmStages
  BY DEF CommitLink, ConfirmStages
<1>2. i \in Intents /\ intent[i].state = "pending" /\ proof[p].state = "fresh"
  BY <1>1, HandlingFields DEF RowsInv, Holds
<1>3. intent[i].user \in Users /\ p \in Proofs /\ proof[p] # NoProof
  BY <1>2 DEF RowsInv, Rows, NoIntent, NoProof
<1>4. proof[p].uid \in Uids
  BY <1>3 DEF RowsInv, Rows
<1>5. /\ proof' \in [Proofs -> ProofType]
      /\ proof'[p].uid = proof[p].uid /\ proof'[p].state = "spent"
      /\ \A q \in Proofs : q # p => proof'[q] = proof[q]
  BY <1>3 DEF CommitLink, RowsInv, TypeOK, ProofType
<1>6. /\ intent' \in [Intents -> IntentType]
      /\ intent'[i].user = intent[i].user /\ intent'[i].proof = p
      /\ intent'[i].state = "committed"
      /\ \A j \in Intents : j # i => intent'[j] = intent[j]
  BY <1>2 DEF CommitLink, RowsInv, TypeOK, IntentType
<1>. QED  BY <1>1, <1>2, <1>3, <1>4, <1>5, <1>6

LEMMA CommitRows ==
  ASSUME RowsInv, Apart, NEW r \in Requests, CommitLink(r)
  PROVE  RowsInv'
<1>. DEFINE i == request[r].intent
            p == intent[i].proof
<1>1. /\ i \in Intents /\ p \in Proofs /\ request[r].at \in ConfirmStages
      /\ intent[i].user \in Users /\ proof[p].uid \in Uids
      /\ proof' \in [Proofs -> ProofType] /\ intent' \in [Intents -> IntentType]
      /\ proof'[p].uid = proof[p].uid /\ proof'[p].state = "spent"
      /\ \A q \in Proofs : q # p => proof'[q] = proof[q]
      /\ intent'[i].user = intent[i].user /\ intent'[i].proof = p
      /\ intent'[i].state = "committed"
      /\ \A j \in Intents : j # i => intent'[j] = intent[j]
  BY CommitFacts
<1>2. End(r) /\ UNCHANGED <<sessionVars, login, handoff>>
  BY DEF CommitLink
<1>3. links' \subseteq Uids \X Users
  BY <1>1 DEF CommitLink, RowsInv, TypeOK, Uid, User
<1>4. TypeOK'
  BY <1>1, <1>2, <1>3, EndTyped DEF RowsInv, TypeOK
<1>5. \A q \in Requests : q # r /\ request[q].at \in ConfirmStages
        => intent[request[q].intent].proof # p /\ request[q].intent # i
  BY <1>1 DEF Apart
<1>6. proof'[p] # NoProof
  BY <1>1 DEF NoProof
<1>. QED  BY <1>1, <1>2, <1>4, <1>5, <1>6, IntentRows DEF sessionVars

LEMMA BeginRows ==
  ASSUME RowsInv, NEW l \in Logins, NEW provider \in Providers, BeginLogin(l, provider)
  PROVE  RowsInv'
<1>1. login' \in [Logins -> Providers \cup {None, "used"}]
  BY DEF BeginLogin, RowsInv, TypeOK
<1>2. UNCHANGED <<sessionVars, linkVars, request>>
  BY DEF BeginLogin
<1>3. TypeOK' /\ Rows' /\ Holds'
  BY <1>1, <1>2 DEF RowsInv, TypeOK, Rows, Holds, sessionVars, linkVars
<1>. QED  BY <1>3 DEF RowsInv

LEMMA NextRows ==
  ASSUME RowsInv, Apart, Next
  PROVE  RowsInv'
<1>1. ASSUME NEW r \in Requests, Abandon(r) PROVE RowsInv'
  BY <1>1, EndRows DEF Abandon
<1>2. ASSUME NEW r \in Requests, Confirm(r) PROVE RowsInv'
  BY <1>2, LockRows, ConfirmRows, CommitRows DEF Confirm
<1>. QED  BY <1>1, <1>2, BeginRows, ConsumeRows, LoginRows, DiscordRows, CreateRows, IssueRows, TokenRows,
             LogoutRows, RevokeRows, IntendRows, CreateIntentRows, CreateHandoffRows, CompleteRows
         DEF Next, RevokeAllSessions

-----------------------------------------------------------------------------
(* What a confirmation has seen of the links, and the links. *)

Seen ==
  \A r \in Requests :
    /\ request[r].at = "owned" /\ request[r].owner # None => <<Uid(r), request[r].owner>> \in links
    /\ request[r].at = "linked" => <<Uid(r), User(r)>> \in links

OneToOne(rows) ==
  \A one, other \in rows : one[1] = other[1] \/ one[2] = other[2] => one = other

Spent ==
  \A i \in Intents : intent[i].state = "committed" => proof[intent[i].proof].state = "spent"

\* The links are one-to-one with the inserts that are not committed yet, because
\* an insert waits for those; a proof is spent once because it is locked with the
\* intent and looked at under the lock.
LinksInv ==
  /\ RowsInv /\ Apart /\ Seen /\ Spent /\ ProofSpentOnce
  /\ OneToOne(links \cup PendingInserts)

LEMMA LinksInit == Init => LinksInv
<1>. SUFFICES ASSUME Init PROVE LinksInv
  OBVIOUS
<1>1. \A r \in Requests : request[r].at = "idle"
  BY DEF Init, Idle
<1>2. /\ session \in [Sessions -> SessionType] /\ login \in [Logins -> Providers \cup {None, "used"}]
      /\ version \in [Users -> 0 .. MaxLogouts]
  BY LogoutsAssumption DEF Init, SessionType, NoSession
<1>3. /\ proof \in [Proofs -> ProofType] /\ intent \in [Intents -> IntentType]
      /\ handoff \in [Handoffs -> [session : Sessions \cup {None}, state : {"none", "open", "used"}]]
  BY DEF Init, ProofType, NoProof, IntentType, NoIntent, NoHandoff
<1>4. request \in [Requests -> Handling]
  BY DEF Init, Idle, Handling
<1>5. TypeOK
  BY <1>2, <1>3, <1>4 DEF Init, TypeOK, SessionType, ProofType, IntentType
<1>6. Rows
  BY DEF Init, Rows
<1>7. Holds /\ Apart /\ Seen
  BY <1>1, StagesApart DEF Holds, Apart, Seen
<1>8. Spent /\ ProofSpentOnce
  BY DEF Init, Spent, ProofSpentOnce, NoIntent
<1>9. links = {} /\ PendingInserts = {}
  BY <1>1 DEF Init, PendingInserts, IsAt
<1>. QED  BY <1>5, <1>6, <1>7, <1>8, <1>9 DEF LinksInv, RowsInv, OneToOne

\* The rows a confirmation holds.
LEMMA HeldRows ==
  ASSUME RowsInv, NEW q \in Requests, request[q].at \in ConfirmStages
  PROVE  /\ request[q].intent \in Intents /\ intent[request[q].intent] # NoIntent
         /\ intent[request[q].intent].state = "pending"
         /\ intent[request[q].intent].proof \in Proofs
         /\ proof[intent[request[q].intent].proof] # NoProof
         /\ proof[intent[request[q].intent].proof].state = "fresh"
<1>1. request[q].intent \in Intents /\ intent[request[q].intent].state = "pending"
  BY HandlingFields DEF RowsInv, Holds
<1>2. intent[request[q].intent] # NoIntent
  BY <1>1 DEF NoIntent
<1>. QED  BY <1>1, <1>2 DEF RowsInv, Rows, Holds

\* Steps that leave the confirmations at work alone, and the links they have seen.
LEMMA AsideLinks ==
  ASSUME LinksInv, RowsInv',
         \A q \in Requests : request'[q] = request[q] \/ request'[q].at \notin ConfirmStages,
         \A p \in Proofs : proof'[p] = proof[p] \/ proof[p] = NoProof,
         \A i \in Intents : \/ intent'[i] = intent[i]
                            \/ intent[i] = NoIntent /\ intent'[i].state # "committed",
         links' \subseteq links, \A row \in links : row \in links' \/ ~LocksLink(row[2])
  PROVE  LinksInv'
<1>. USE DEF LinksInv
<1>1. ASSUME NEW q \in Requests, request'[q].at \in ConfirmStages
      PROVE  /\ request'[q] = request[q]
             /\ intent'[request[q].intent] = intent[request[q].intent]
             /\ proof'[intent[request[q].intent].proof] = proof[intent[request[q].intent].proof]
  <2>1. request'[q] = request[q]
    BY <1>1
  <2>. QED  BY <1>1, <2>1, HeldRows
<1>2. Apart'
  BY <1>1 DEF Apart
<1>3. Seen'
  <2>. SUFFICES ASSUME NEW q \in Requests, request'[q].at \in {"owned", "linked"}
                PROVE  /\ request'[q].at = "owned" /\ request'[q].owner # None
                            => <<Uid(q)', request'[q].owner>> \in links'
                       /\ request'[q].at = "linked" => <<Uid(q)', User(q)'>> \in links'
    BY DEF Seen
  <2>1. /\ request'[q] = request[q] /\ Uid(q)' = Uid(q) /\ User(q)' = User(q)
    BY <1>1 DEF Uid, User, ConfirmStages
  <2>2. CASE request[q].at = "owned" /\ request[q].owner # None
    <3>1. <<Uid(q), request[q].owner>> \in links
      BY <2>2 DEF Seen
    <3>2. LocksLink(request[q].owner)
      BY <2>2 DEF LocksLink, IsAt
    <3>. QED  BY <2>1, <2>2, <3>1, <3>2
  <2>3. CASE request[q].at = "linked"
    <3>1. <<Uid(q), User(q)>> \in links
      BY <2>3 DEF Seen
    <3>2. LocksLink(User(q))
      BY <2>3 DEF LocksLink, IsAt
    <3>. QED  BY <2>1, <2>3, <3>1, <3>2
  <2>. QED  BY <2>1, <2>2, <2>3
<1>4. \A i \in Intents : intent'[i].state = "committed" =>
        intent'[i] = intent[i] /\ proof'[intent[i].proof] = proof[intent[i].proof]
  <2>. SUFFICES ASSUME NEW i \in Intents, intent'[i].state = "committed", intent'[i] = intent[i]
                PROVE  proof'[intent[i].proof] = proof[intent[i].proof]
    OBVIOUS
  <2>1. intent[i] # NoIntent
    BY DEF NoIntent
  <2>2. intent[i].proof \in Proofs /\ proof[intent[i].proof] # NoProof
    BY <2>1 DEF RowsInv, Rows
  <2>. QED  BY <2>2
<1>5. Spent' /\ ProofSpentOnce'
  BY <1>4 DEF Spent, ProofSpentOnce
<1>6. PendingInserts' \subseteq PendingInserts
  <2>. SUFFICES ASSUME NEW q \in Requests, request'[q].at = "inserted"
                PROVE  /\ request[q].at = "inserted" /\ Uid(q)' = Uid(q) /\ User(q)' = User(q)
    BY DEF PendingInserts, IsAt
  <2>. QED  BY <1>1 DEF Uid, User, ConfirmStages
<1>7. OneToOne(links \cup PendingInserts)'
  BY <1>6 DEF OneToOne
<1>. QED  BY <1>2, <1>3, <1>5, <1>7

\* What a confirmation becomes in a step that commits nothing.
LEMMA ConfirmStep ==
  ASSUME RowsInv, NEW r \in Requests,
         CheckAccount(r) \/ ReadOwner(r) \/ ReadExisting(r) \/ InsertLink(r)
  PROVE  /\ request[r].at \in ConfirmStages /\ request'[r].at \in ConfirmStages
         /\ request'[r].intent = request[r].intent
         /\ ~ReadOwner(r) => request'[r].owner = request[r].owner
         /\ CheckAccount(r) => request'[r].at = "checked"
         /\ ReadOwner(r) => request'[r].at = "owned" /\ request'[r].owner = OwnerOf(Uid(r))
         /\ ReadExisting(r) => request[r].at = "owned" /\
              request'[r].at = IF request[r].owner = None THEN "insert" ELSE "linked"
         /\ InsertLink(r) => request'[r].at = IF Clash(links, r) THEN "linked" ELSE "inserted"
         /\ \A q \in Requests : q # r => request'[q] = request[q]
         /\ UNCHANGED <<sessionVars, login, linkVars>>
<1>1. request[r].at \in ConfirmStages
  BY DEF CheckAccount, ReadOwner, ReadExisting, InsertLink, Step, IsAt, ConfirmStages
<1>2. request[r] \in [at : ConfirmStages, intent : Intents, owner : Users \cup {None}]
  BY <1>1, HandlingFields DEF RowsInv
<1>3. ASSUME NEW to \in ConfirmStages, NEW from, Step(r, from, to)
      PROVE  /\ request'[r].at = to /\ request'[r].intent = request[r].intent
             /\ request'[r].owner = request[r].owner
             /\ \A q \in Requests : q # r => request'[q] = request[q]
             /\ UNCHANGED <<sessionVars, login, linkVars>> /\ request[r].at = from
  <2>. DEFINE what == [request[r] EXCEPT !.at = to]
  <2>1. Become(r, what)
    BY <1>3 DEF Step
  <2>2. request'[r] = what /\ \A q \in Requests : q # r => request'[q] = request[q]
    BY <2>1, BecomeFact DEF RowsInv
  <2>. QED  BY <1>2, <1>3, <2>2 DEF Step, IsAt
<1>4. CASE ReadOwner(r)
  <2>. DEFINE what == [request[r] EXCEPT !.at = "owned", !.owner = OwnerOf(Uid(r))]
  <2>1. /\ Become(r, what) /\ UNCHANGED <<sessionVars, login, linkVars>> /\ request[r].at = "checked"
    BY <1>4 DEF ReadOwner, IsAt
  <2>2. request'[r] = what /\ \A q \in Requests : q # r => request'[q] = request[q]
    BY <2>1, BecomeFact DEF RowsInv
  <2>3. /\ request'[r].at = "owned" /\ request'[r].owner = OwnerOf(Uid(r))
        /\ request'[r].intent = request[r].intent
    BY <1>2, <2>2
  <2>4. ~CheckAccount(r) /\ ~ReadExisting(r) /\ ~InsertLink(r)
    BY <2>1 DEF CheckAccount, ReadExisting, InsertLink, IsAt
  <2>. QED  BY <1>1, <1>4, <2>1, <2>2, <2>3, <2>4 DEF ConfirmStages
<1>5. CASE CheckAccount(r)
  <2>1. Step(r, "locked", "checked") /\ "checked" \in ConfirmStages /\ request[r].at = "locked"
    BY <1>5 DEF CheckAccount, ConfirmStages, IsAt
  <2>2. ~ReadOwner(r) /\ ~ReadExisting(r) /\ ~InsertLink(r)
    BY <2>1 DEF ReadOwner, ReadExisting, InsertLink, IsAt
  <2>. QED  BY <1>1, <1>3, <1>5, <2>1, <2>2
<1>6. CASE ReadExisting(r)
  <2>. DEFINE to == IF request[r].owner = None THEN "insert" ELSE "linked"
  <2>1. Step(r, "owned", to) /\ to \in ConfirmStages /\ request[r].at = "owned"
    BY <1>6 DEF ReadExisting, ConfirmStages, IsAt
  <2>2. ~ReadOwner(r) /\ ~CheckAccount(r) /\ ~InsertLink(r)
    BY <2>1 DEF ReadOwner, CheckAccount, InsertLink, IsAt
  <2>. HIDE DEF to
  <2>3. request'[r].at = to
    BY <1>3, <2>1
  <2>. QED  BY <1>1, <1>3, <1>6, <2>1, <2>2, <2>3 DEF to
<1>7. CASE InsertLink(r)
  <2>. DEFINE to == IF Clash(links, r) THEN "linked" ELSE "inserted"
  <2>1. Step(r, "insert", to) /\ to \in ConfirmStages /\ request[r].at = "insert"
    BY <1>7 DEF InsertLink, ConfirmStages, IsAt
  <2>2. ~ReadOwner(r) /\ ~CheckAccount(r) /\ ~ReadExisting(r)
    BY <2>1 DEF ReadOwner, CheckAccount, ReadExisting, IsAt
  <2>. HIDE DEF to
  <2>3. request'[r].at = to
    BY <1>3, <2>1
  <2>. QED  BY <1>1, <1>3, <1>7, <2>1, <2>2, <2>3 DEF to
<1>. QED  BY <1>4, <1>5, <1>6, <1>7

LEMMA OwnerIsLinked ==
  ASSUME NEW uid, OwnerOf(uid) # None
  PROVE  <<uid, OwnerOf(uid)>> \in links
BY DEF OwnerOf

LEMMA ConfirmLinks ==
  ASSUME LinksInv, NEW r \in Requests,
         CheckAccount(r) \/ ReadOwner(r) \/ ReadExisting(r) \/ InsertLink(r)
  PROVE  LinksInv'
<1>. USE DEF LinksInv
<1>1. RowsInv'
  BY ConfirmRows
<1>2. /\ request[r].at \in ConfirmStages /\ request'[r].intent = request[r].intent
      /\ \A q \in Requests : q # r => request'[q] = request[q]
      /\ UNCHANGED <<links, proof, intent>>
  BY ConfirmStep DEF linkVars
<1>3. Apart'
  BY <1>2 DEF Apart
<1>4. Spent' /\ ProofSpentOnce'
  BY <1>2 DEF Spent, ProofSpentOnce
<1>5. \A q \in Requests : Uid(q)' = Uid(q) /\ User(q)' = User(q)
  BY <1>2 DEF Uid, User
<1>6. request'[r].at = "owned" /\ request'[r].owner # None => <<Uid(r), request'[r].owner>> \in links
  <2>1. request'[r].at = "owned" => ReadOwner(r)
    BY ConfirmStep
  <2>. QED  BY <2>1, ConfirmStep, OwnerIsLinked
<1>7. request'[r].at = "linked" => <<Uid(r), User(r)>> \in links
  <2>1. request'[r].at = "linked" => ReadExisting(r) \/ InsertLink(r)
    BY ConfirmStep
  <2>2. ASSUME ReadExisting(r), request'[r].at = "linked" PROVE <<Uid(r), User(r)>> \in links
    <3>1. request[r].at = "owned" /\ request[r].owner # None /\ request[r].owner = User(r)
      BY <2>2, ConfirmStep DEF ReadExisting
    <3>. QED  BY <3>1 DEF Seen
  <2>3. ASSUME InsertLink(r), request'[r].at = "linked" PROVE <<Uid(r), User(r)>> \in links
    BY <2>3, ConfirmStep DEF InsertLink
  <2>. QED  BY <2>1, <2>2, <2>3
<1>8. Seen'
  BY <1>2, <1>5, <1>6, <1>7 DEF Seen
<1>9. CASE request'[r].at # "inserted"
  <2>1. PendingInserts' \subseteq PendingInserts
    BY <1>2, <1>5, <1>9 DEF PendingInserts, IsAt
  <2>2. OneToOne(links \cup PendingInserts)'
    BY <1>2, <2>1 DEF OneToOne
  <2>. QED  BY <1>1, <1>3, <1>4, <1>8, <2>2
<1>10. CASE request'[r].at = "inserted"
  <2>1. InsertLink(r) /\ ~Clash(links, r) /\ ~Clash(PendingInserts, r)
    BY <1>10, ConfirmStep DEF InsertLink
  <2>2. PendingInserts' \subseteq PendingInserts \cup {<<Uid(r), User(r)>>}
    BY <1>2, <1>5 DEF PendingInserts, IsAt
  <2>3. \A row \in links \cup PendingInserts : row[1] # Uid(r) /\ row[2] # User(r)
    BY <2>1 DEF Clash
  <2>4. OneToOne(links \cup PendingInserts)'
    BY <1>2, <2>2, <2>3 DEF OneToOne
  <2>. QED  BY <1>1, <1>3, <1>4, <1>8, <2>4
<1>. QED  BY <1>9, <1>10

LEMMA LockLinks ==
  ASSUME LinksInv, NEW r \in Requests, NEW i \in Intents, LockIntent(r, i)
  PROVE  LinksInv'
<1>. USE DEF LinksInv
<1>. DEFINE what == [at |-> "locked", intent |-> i, owner |-> None]
<1>1. /\ request'[r] = what
      /\ \A q \in Requests : q # r => request'[q] = request[q]
      /\ UNCHANGED <<links, proof, intent>> /\ ~LocksProof(intent[i].proof)
  BY BecomeFact DEF LockIntent, RowsInv, linkVars
<1>2. RowsInv'
  BY LockRows
<1>3. Apart'
  BY <1>1 DEF Apart, LocksProof
<1>4. Spent' /\ ProofSpentOnce'
  BY <1>1 DEF Spent, ProofSpentOnce
<1>5. \A q \in Requests : q # r => Uid(q)' = Uid(q) /\ User(q)' = User(q)
  BY <1>1 DEF Uid, User
<1>6. Seen'
  BY <1>1, <1>5 DEF Seen
<1>7. PendingInserts' \subseteq PendingInserts
  BY <1>1, <1>5 DEF PendingInserts, IsAt
<1>8. OneToOne(links \cup PendingInserts)'
  BY <1>1, <1>7 DEF OneToOne
<1>. QED  BY <1>2, <1>3, <1>4, <1>6, <1>8

LEMMA CommitLinks ==
  ASSUME LinksInv, NEW r \in Requests, CommitLink(r)
  PROVE  LinksInv'
<1>. USE DEF LinksInv
<1>. DEFINE i == request[r].intent
            p == intent[i].proof
<1>1. /\ i \in Intents /\ p \in Proofs /\ request[r].at \in ConfirmStages
      /\ proof[p].state = "fresh"
      /\ proof'[p].uid = proof[p].uid /\ proof'[p].state = "spent"
      /\ \A q \in Proofs : q # p => proof'[q] = proof[q]
      /\ intent'[i].user = intent[i].user /\ intent'[i].proof = p
      /\ intent'[i].state = "committed"
      /\ \A j \in Intents : j # i => intent'[j] = intent[j]
  BY CommitFacts
<1>2. /\ request'[r] = Idle
      /\ \A q \in Requests : q # r => request'[q] = request[q]
  BY BecomeFact DEF CommitLink, End, RowsInv
<1>3. RowsInv'
  BY CommitRows
<1>4. ASSUME NEW q \in Requests, request'[q].at \in ConfirmStages
      PROVE  /\ q # r /\ request'[q] = request[q]
             /\ intent'[request[q].intent] = intent[request[q].intent]
             /\ proof'[intent[request[q].intent].proof] = proof[intent[request[q].intent].proof]
  <2>1. q # r /\ request'[q] = request[q]
    BY <1>2, <1>4, StagesApart DEF Idle
  <2>2. intent[request[q].intent].proof # p /\ request[q].intent # i
    BY <1>1, <1>4, <2>1 DEF Apart
  <2>. QED  BY <1>1, <1>4, <2>1, <2>2, HeldRows
<1>5. Apart'
  BY <1>4 DEF Apart
<1>6. \A q \in Requests : request'[q].at \in ConfirmStages =>
        request'[q] = request[q] /\ Uid(q)' = Uid(q) /\ User(q)' = User(q)
  BY <1>4 DEF Uid, User
<1>7. links \subseteq links' /\ links' \subseteq links \cup PendingInserts
  BY DEF CommitLink, PendingInserts, IsAt
<1>8. Seen'
  BY <1>6, <1>7 DEF Seen, ConfirmStages
<1>9. ASSUME NEW j \in Intents, j # i, intent'[j].state = "committed"
      PROVE  intent'[j] = intent[j] /\ intent[j].proof # p /\ intent[j].proof \in Proofs
  <2>1. intent'[j] = intent[j]
    BY <1>1, <1>9
  <2>2. proof[intent[j].proof].state = "spent"
    BY <1>9, <2>1 DEF Spent
  <2>3. intent[j] # NoIntent
    BY <1>9, <2>1 DEF NoIntent
  <2>. QED  BY <1>1, <2>1, <2>2, <2>3 DEF RowsInv, Rows
<1>10. Spent'
  BY <1>1, <1>9 DEF Spent
<1>11. ProofSpentOnce'
  BY <1>1, <1>9 DEF ProofSpentOnce
<1>12. PendingInserts' \subseteq PendingInserts
  BY <1>6 DEF PendingInserts, IsAt, ConfirmStages
<1>13. OneToOne(links \cup PendingInserts)'
  BY <1>7, <1>12 DEF OneToOne
<1>. QED  BY <1>3, <1>5, <1>8, <1>10, <1>11, <1>13

\* No request but a confirmation takes or keeps a confirmation's locks.
LEMMA OutsideConfirm ==
  ASSUME RowsInv, NEW r \in Requests, NEW what, Become(r, what), what.at \notin ConfirmStages
  PROVE  \A q \in Requests : request'[q] = request[q] \/ request'[q].at \notin ConfirmStages
BY BecomeFact DEF RowsInv

LEMMA EndOutside ==
  ASSUME RowsInv, NEW r \in Requests, End(r)
  PROVE  \A q \in Requests : request'[q] = request[q] \/ request'[q].at \notin ConfirmStages
BY OutsideConfirm, StagesApart DEF End, Idle

\* The steps that write no table of links.
LEMMA PlainLinks ==
  ASSUME LinksInv, RowsInv', NEW r \in Requests,
         \/ \E l \in Logins : ConsumeLogin(r, l)
         \/ \E u \in Users : SteamLogin(r, u) \/ TicketLogin(r, u)
         \/ \E s \in Sessions : CreateSession(r, s) \/ CheckVersion(r, s)
         \/ \E op \in Operations : CheckSession(r, op)
         \/ \E h \in Handoffs : PeekHandoff(r, h)
         \/ IssueToken(r) \/ Logout(r) \/ RevokeAllSessions(r) \/ CheckIntent(r) \/ Abandon(r)
  PROVE  LinksInv'
<1>1. \A q \in Requests : request'[q] = request[q] \/ request'[q].at \notin ConfirmStages
  <2>1. ASSUME NEW l \in Logins, ConsumeLogin(r, l)
        PROVE  \A q \in Requests : request'[q] = request[q] \/ request'[q].at \notin ConfirmStages
    BY <2>1, OutsideConfirm, StagesApart DEF ConsumeLogin, LinksInv
  <2>2. ASSUME NEW u \in Users, SteamLogin(r, u) \/ TicketLogin(r, u)
        PROVE  \A q \in Requests : request'[q] = request[q] \/ request'[q].at \notin ConfirmStages
    BY <2>2, OutsideConfirm, StagesApart DEF SteamLogin, TicketLogin, FindOrCreateUser, LinksInv
  <2>3. ASSUME NEW s \in Sessions, CreateSession(r, s) \/ CheckVersion(r, s)
        PROVE  \A q \in Requests : request'[q] = request[q] \/ request'[q].at \notin ConfirmStages
    BY <2>3, OutsideConfirm, StagesApart DEF CreateSession, CheckVersion, LinksInv
  <2>4. ASSUME NEW op \in Operations, CheckSession(r, op)
        PROVE  \A q \in Requests : request'[q] = request[q] \/ request'[q].at \notin ConfirmStages
    <3>1. request[r] \in [at : TokenStages, session : Sessions, late : BOOLEAN]
      BY <2>4, HandlingFields, StagesApart DEF CheckSession, IsAt, LinksInv, RowsInv
    <3>2. [request[r] EXCEPT !.at = op].at = op
      BY <3>1
    <3>. QED  BY <2>4, <3>2, OutsideConfirm, EndOutside, StagesApart DEF CheckSession, LinksInv
  <2>5. ASSUME NEW h \in Handoffs, PeekHandoff(r, h)
        PROVE  \A q \in Requests : request'[q] = request[q] \/ request'[q].at \notin ConfirmStages
    BY <2>5, OutsideConfirm, StagesApart DEF PeekHandoff, LinksInv
  <2>6. ASSUME IssueToken(r) \/ Logout(r) \/ RaiseVersion(r) \/ Abandon(r)
        PROVE  \A q \in Requests : request'[q] = request[q] \/ request'[q].at \notin ConfirmStages
    BY <2>6, EndOutside DEF IssueToken, Logout, RaiseVersion, Abandon, LinksInv
  <2>7. ASSUME RevokeBrowserSessions(r) \/ RevokeNativeSessions(r)
        PROVE  \A q \in Requests : request'[q] = request[q] \/ request'[q].at \notin ConfirmStages
    <3>1. request'[r].at \in RevokeStages /\ \A q \in Requests : q # r => request'[q] = request[q]
      BY <2>7, RevokeFacts, StagesApart DEF LinksInv
    <3>. QED  BY <3>1, StagesApart
  <2>8. ASSUME CheckIntent(r)
        PROVE  \A q \in Requests : request'[q] = request[q] \/ request'[q].at \notin ConfirmStages
    <3>1. request[r] \in [at : TokenStages, session : Sessions, late : BOOLEAN]
      BY <2>8, HandlingFields DEF CheckIntent, IsAt, LinksInv, RowsInv, TokenStages, Operations
    <3>2. [request[r] EXCEPT !.at = "intend"].at = "intend"
      BY <3>1
    <3>. QED  BY <2>8, <3>2, OutsideConfirm, StagesApart DEF CheckIntent, LinksInv
  <2>. QED  BY <2>1, <2>2, <2>3, <2>4, <2>5, <2>6, <2>7, <2>8 DEF RevokeAllSessions
<1>2. UNCHANGED linkVars
  BY DEF ConsumeLogin, SteamLogin, TicketLogin, FindOrCreateUser, CreateSession, CheckVersion,
         CheckSession, PeekHandoff, IssueToken, Logout, RevokeAllSessions, RevokeBrowserSessions,
         RevokeNativeSessions, RaiseVersion, CheckIntent, Abandon
<1>. QED  BY <1>1, <1>2, AsideLinks DEF linkVars

\* The steps that write proofs, handoffs and intents, or remove a link.
LEMMA WritingLinks ==
  ASSUME LinksInv, RowsInv', NEW r \in Requests,
         \/ \E uid \in Uids : DiscordLogin(r, uid)
         \/ \E p \in Proofs, i \in Intents : CreateIntent(r, p, i)
         \/ \E h \in Handoffs : CreateHandoff(r, h)
         \/ \E uid \in Uids, p \in Proofs, i \in Intents : CompleteHandoff(r, uid, p, i)
         \/ RevokeLink(r)
  PROVE  LinksInv'
<1>. USE DEF LinksInv
<1>1. ASSUME NEW uid \in Uids, DiscordLogin(r, uid) PROVE LinksInv'
  <2>1. \A q \in Requests : request'[q] = request[q] \/ request'[q].at \notin ConfirmStages
    BY <1>1, OutsideConfirm, EndOutside, StagesApart DEF DiscordLogin
  <2>2. \A p \in Proofs : proof'[p] = proof[p] \/ proof[p] = NoProof
    BY <1>1, NewProof DEF DiscordLogin
  <2>3. UNCHANGED <<links, intent>>
    BY <1>1 DEF DiscordLogin
  <2>. QED  BY <2>1, <2>2, <2>3, AsideLinks
<1>2. ASSUME NEW p \in Proofs, NEW i \in Intents, CreateIntent(r, p, i) PROVE LinksInv'
  <2>. DEFINE s == request[r].session
  <2>1. /\ s \in Sessions /\ session[s].user \in Users
    BY <1>2, HandlingFields DEF CreateIntent, IsAt, RowsInv, Rows, Holds
  <2>2. /\ intent[i] = NoIntent /\ intent'[i].state = "pending"
        /\ \A j \in Intents : j # i => intent'[j] = intent[j]
    BY <1>2, <2>1, NewIntent DEF CreateIntent
  <2>3. End(r) /\ UNCHANGED <<links, proof>>
    BY <1>2 DEF CreateIntent
  <2>. QED  BY <2>2, <2>3, EndOutside, AsideLinks
<1>3. ASSUME NEW h \in Handoffs, CreateHandoff(r, h) PROVE LinksInv'
  BY <1>3, EndOutside, AsideLinks DEF CreateHandoff
<1>4. ASSUME NEW uid \in Uids, NEW p \in Proofs, NEW i \in Intents, CompleteHandoff(r, uid, p, i)
      PROVE  LinksInv'
  <2>1. /\ End(r) /\ UNCHANGED links /\ proof[p] = NoProof /\ intent[i] = NoIntent
        /\ proof' = [proof EXCEPT ![p] = [uid |-> uid, state |-> "fresh"]]
    BY <1>4 DEF CompleteHandoff
  <2>2. \A q \in Proofs : q # p => proof'[q] = proof[q]
    BY <2>1, NewProof
  <2>3. intent'[i].state = "pending" /\ \A j \in Intents : j # i => intent'[j] = intent[j]
    BY <1>4 DEF CompleteHandoff, RowsInv, TypeOK
  <2>. QED  BY <2>1, <2>2, <2>3, EndOutside, AsideLinks
<1>5. ASSUME RevokeLink(r) PROVE LinksInv'
  <2>1. /\ End(r) /\ UNCHANGED <<proof, intent>> /\ links' \subseteq links
        /\ \A row \in links : row \in links' \/ ~LocksLink(row[2])
    BY <1>5 DEF RevokeLink, Revoke
  <2>. QED  BY <2>1, EndOutside, AsideLinks
<1>. QED  BY <1>1, <1>2, <1>3, <1>4, <1>5

LEMMA StutterRows == RowsInv /\ UNCHANGED vars => RowsInv'
BY DEF RowsInv, TypeOK, Rows, Holds, vars, sessionVars, linkVars

LEMMA NextLinks == LinksInv /\ [Next]_vars => LinksInv'
<1>. SUFFICES ASSUME LinksInv, [Next]_vars PROVE LinksInv'
  OBVIOUS
<1>1. CASE UNCHANGED vars
  <2>1. RowsInv'
    BY <1>1, StutterRows DEF LinksInv
  <2>. QED  BY <1>1, <2>1, AsideLinks DEF vars, linkVars
<1>2. CASE Next
  <2>1. RowsInv'
    BY <1>2, NextRows DEF LinksInv
  <2>2. ASSUME NEW l \in Logins, NEW provider \in Providers, BeginLogin(l, provider)
        PROVE  LinksInv'
    BY <2>1, <2>2, AsideLinks DEF BeginLogin, linkVars
  <2>3. ASSUME NEW r \in Requests, Confirm(r) PROVE LinksInv'
    BY <2>3, LockLinks, ConfirmLinks, CommitLinks DEF Confirm
  <2>. QED  BY <1>2, <2>1, <2>2, <2>3, PlainLinks, WritingLinks DEF Next
<1>. QED  BY <1>1, <1>2

\* A confirmation that commits has its row in the links, its own or the one it has seen.
LEMMA CommitIsLinked ==
  ASSUME LinksInv, [Next]_vars, NEW i \in Intents,
         intent[i].state # "committed", intent'[i].state = "committed"
  PROVE  <<proof[intent[i].proof].uid, intent[i].user>> \in links'
<1>. USE DEF LinksInv
<1>1. PICK r \in Requests : CommitLink(r)
  <2>1. intent'[i] # intent[i]
    OBVIOUS
  <2>2. \E r \in Requests : \/ CommitLink(r)
                            \/ \E p \in Proofs, j \in Intents : CreateIntent(r, p, j)
                            \/ \E uid \in Uids, p \in Proofs, j \in Intents : CompleteHandoff(r, uid, p, j)
    BY <2>1 DEF Next, vars, linkVars, BeginLogin, ConsumeLogin, SteamLogin, TicketLogin,
       FindOrCreateUser, DiscordLogin, CreateSession, IssueToken, CheckVersion, CheckSession,
       Logout, RevokeAllSessions, RevokeBrowserSessions, RevokeNativeSessions, RaiseVersion,
       CheckIntent, CreateHandoff, PeekHandoff, Confirm, LockIntent, CheckAccount,
       ReadOwner, ReadExisting, InsertLink, Step, RevokeLink, Abandon
  <2>3. ASSUME NEW r \in Requests, NEW p \in Proofs, NEW j \in Intents, CreateIntent(r, p, j)
        PROVE  FALSE
    BY <2>1, <2>3 DEF CreateIntent, RowsInv, TypeOK
  <2>4. ASSUME NEW r \in Requests, NEW uid \in Uids, NEW p \in Proofs, NEW j \in Intents,
               CompleteHandoff(r, uid, p, j)
        PROVE  FALSE
    BY <2>1, <2>4 DEF CompleteHandoff, RowsInv, TypeOK
  <2>. QED  BY <2>2, <2>3, <2>4
<1>2. i = request[r].intent
  BY <1>1, CommitFacts
<1>3. <<Uid(r), User(r)>> \in links'
  BY <1>1 DEF CommitLink, Seen, IsAt
<1>. QED  BY <1>2, <1>3 DEF Uid, User

-----------------------------------------------------------------------------
(* Sessions that a logout of all has ended. *)

\* A session there was at the logout is there and not live; a request that passed
\* the first statement of revalidation with one is late.
Gone == \A s \in loggedOut : session[s] # NoSession /\ ~session[s].live
Late == \A r \in Requests : request[r].at = "revalidate" /\ request[r].late
                              => request[r].session \in loggedOut

\* The sessions there were when a logout of all began are there, their user's, and
\* among those its statements have hit, the native ones from the second on.
Revoking ==
  \A r \in Requests : request[r].at \in RevokeStages =>
    \A s \in request[r].there :
      /\ session[s] # NoSession /\ session[s].user = request[r].user
      /\ request[r].at = "raise_version" \/ Kind(s) = "browser" => s \in request[r].hit

LogoutInv == RowsInv /\ Gone /\ Late /\ Revoking /\ LoggedOutForGood

\* Where a handler holds something of which Late, Revoking or LoggedOutForGood speaks.
Watched == Operations \cup {"revalidate"} \cup RevokeStages

\* A session that is there stays the user's it was made for, and of its kind.
Kept == \A s \in Sessions : session[s] # NoSession =>
          /\ session'[s] # NoSession /\ session'[s].user = session[s].user
          /\ session'[s].provider = session[s].provider

\* A step after which no session is live that was not, of those there were, and
\* no request is at work that was not but one that has just ended or begun.
LEMMA StillGone ==
  ASSUME LogoutInv, RowsInv', Kept,
         loggedOut \subseteq loggedOut',
         \A s \in loggedOut' : session'[s] # NoSession /\ ~session'[s].live,
         \A q \in Requests : request'[q] = request[q] \/ request'[q].at \notin Watched
  PROVE  LogoutInv'
<1>1. Gone'
  BY DEF Gone
<1>2. Late'
  BY DEF Late, LogoutInv, Watched
<1>3. LoggedOutForGood'
  BY DEF LoggedOutForGood, LogoutInv, Watched
<1>4. Revoking'
  <2>. SUFFICES ASSUME NEW q \in Requests, request'[q].at \in RevokeStages, NEW s \in request'[q].there
                PROVE  /\ session'[s] # NoSession /\ session'[s].user = request'[q].user
                       /\ request'[q].at = "raise_version" \/ Kind(s)' = "browser" => s \in request'[q].hit
    BY DEF Revoking
  <2>1. request'[q] = request[q]
    BY DEF Watched
  <2>2. s \in Sessions
    BY <2>1, HandlingFields DEF LogoutInv, RowsInv
  <2>3. /\ session[s] # NoSession /\ session[s].user = request[q].user
        /\ request[q].at = "raise_version" \/ Kind(s) = "browser" => s \in request[q].hit
    BY <2>1 DEF LogoutInv, Revoking
  <2>4. Kind(s)' = Kind(s)
    BY <2>2, <2>3 DEF Kept, Kind
  <2>. QED  BY <2>1, <2>2, <2>3, <2>4 DEF Kept
<1>. QED  BY <1>1, <1>2, <1>3, <1>4 DEF LogoutInv

\* A request that turns to something but an operation with a token.
LEMMA Elsewhere ==
  ASSUME RowsInv, NEW r \in Requests, NEW what, Become(r, what),
         what.at \notin Watched
  PROVE  \A q \in Requests : request'[q] = request[q] \/ request'[q].at \notin Watched
BY BecomeFact DEF RowsInv

LEMMA EndElsewhere ==
  ASSUME RowsInv, NEW r \in Requests, End(r)
  PROVE  \A q \in Requests : request'[q] = request[q] \/ request'[q].at \notin Watched
BY Elsewhere, StagesApart DEF End, Idle, Watched

LEMMA ConfirmElsewhere ==
  ASSUME RowsInv, NEW r \in Requests, Confirm(r)
  PROVE  \A q \in Requests : request'[q] = request[q] \/ request'[q].at \notin Watched
<1>1. CASE \E i \in Intents : LockIntent(r, i)
  <2>1. PICK i \in Intents : Become(r, [at |-> "locked", intent |-> i, owner |-> None])
    BY <1>1 DEF LockIntent
  <2>2. [at |-> "locked", intent |-> i, owner |-> None].at \notin Watched
    BY DEF Operations, Watched, RevokeStages
  <2>. QED  BY <2>1, <2>2, Elsewhere
<1>2. CASE CommitLink(r)
  BY <1>2, EndElsewhere DEF CommitLink
<1>3. CASE CheckAccount(r) \/ ReadOwner(r) \/ ReadExisting(r) \/ InsertLink(r)
  <2>1. /\ request'[r].at \in ConfirmStages
        /\ \A q \in Requests : q # r => request'[q] = request[q]
    BY <1>3, ConfirmStep
  <2>. QED  BY <2>1, StagesApart DEF Watched
<1>. QED  BY <1>1, <1>2, <1>3 DEF Confirm

LEMMA SessionsGone ==
  ASSUME LogoutInv, RowsInv', NEW r \in Requests,
         \/ \E s \in Sessions : CreateSession(r, s)
         \/ IssueToken(r) \/ Logout(r) \/ RaiseVersion(r) \/ RevokeLink(r)
  PROVE  LogoutInv'
<1>. USE DEF LogoutInv
<1>. DEFINE t == request[r].session
            u == session[t].user
<1>1. ASSUME NEW s \in Sessions, CreateSession(r, s) PROVE LogoutInv'
  <2>1. /\ session[s] = NoSession /\ loggedOut' = loggedOut
        /\ \A x \in Sessions : x # s => session'[x] = session[x]
    BY <1>1 DEF CreateSession, RowsInv, TypeOK
  <2>2. loggedOut \subseteq Sessions /\ s \notin loggedOut
    BY <2>1 DEF Gone, RowsInv, TypeOK
  <2>3. \A q \in Requests : request'[q] = request[q] \/ request'[q].at \notin Watched
    BY <1>1, Elsewhere, StagesApart DEF CreateSession, Watched
  <2>4. Kept
    BY <2>1 DEF Kept
  <2>. QED  BY <2>1, <2>2, <2>3, <2>4, StillGone DEF Gone
<1>2. ASSUME IssueToken(r) PROVE LogoutInv'
  <2>1. t \in Sessions /\ session[t] # NoSession /\ session[t] \in SessionType
    BY <1>2, HandlingFields DEF IssueToken, IsAt, RowsInv, Holds, TypeOK, SessionType
  <2>. DEFINE new == [session[t] EXCEPT !.issued = TRUE, !.version = version[u]]
  <2>2. /\ new.live = session[t].live /\ new.issued
        /\ new.user = session[t].user /\ new.provider = session[t].provider
    BY <2>1 DEF SessionType
  <2>3. new # NoSession
    BY <2>2 DEF NoSession
  <2>4. session' = [session EXCEPT ![t] = new] /\ loggedOut' = loggedOut
    BY <1>2 DEF IssueToken
  <2>. HIDE DEF new
  <2>5. \A x \in Sessions : session'[x] = IF x = t THEN new ELSE session[x]
    BY <2>4 DEF RowsInv, TypeOK
  <2>6. \A x \in loggedOut' : session'[x] # NoSession /\ ~session'[x].live
    BY <2>2, <2>3, <2>4, <2>5 DEF Gone, RowsInv, TypeOK
  <2>7. Kept
    BY <2>2, <2>3, <2>5 DEF Kept
  <2>. QED  BY <1>2, <2>4, <2>6, <2>7, EndElsewhere, StillGone DEF IssueToken
<1>3. ASSUME NEW S \in SUBSET Sessions, Revoke(S), End(r),
             \/ loggedOut' = loggedOut
             \/ /\ loggedOut' = loggedOut \cup request[r].there
                /\ request[r].there \subseteq S
                /\ \A s \in request[r].there : session[s] # NoSession
      PROVE  LogoutInv'
  <2>1. \A s \in Sessions : /\ s \notin S => session'[s] = session[s]
                            /\ s \in S => session'[s].live = FALSE
                            /\ session'[s].user = session[s].user
                            /\ session'[s].provider = session[s].provider
    BY <1>3, EndLive DEF RowsInv, Revoke
  <2>2. NoSession.user = None
    BY DEF NoSession
  <2>3. Kept
    BY <2>1, <2>2, NoneAssumption DEF Kept, RowsInv, Rows
  <2>4. \A s \in loggedOut' : session'[s] # NoSession /\ ~session'[s].live
    <3>1. loggedOut \subseteq Sessions
      BY DEF RowsInv, TypeOK
    <3>2. \A s \in loggedOut : session'[s] # NoSession /\ ~session'[s].live
      BY <2>1, <2>3, <3>1 DEF Gone, Kept
    <3>3. \A s \in S : session[s] # NoSession => session'[s] # NoSession /\ ~session'[s].live
      BY <2>1, <2>3 DEF Kept
    <3>. QED  BY <1>3, <3>2, <3>3
  <2>. QED  BY <1>3, <2>3, <2>4, EndElsewhere, StillGone
<1>4. CASE Logout(r)
  <2>1. t \in Sessions
    BY <1>4, HandlingFields DEF Logout, IsAt, Operations, RowsInv
  <2>2. Revoke({t})
    BY <1>4, <2>1 DEF Logout, Revoke, RowsInv, TypeOK
  <2>. QED  BY <1>3, <1>4, <2>1, <2>2 DEF Logout
<1>5. CASE RaiseVersion(r)
  <2>1. request[r].at = "raise_version" /\ request[r].hit \in SUBSET Sessions
    BY <1>5, HandlingFields, StagesApart DEF RaiseVersion, IsAt, RowsInv
  <2>2. /\ request[r].there \subseteq request[r].hit
        /\ \A s \in request[r].there : session[s] # NoSession
    BY <2>1, StagesApart DEF Revoking
  <2>. QED  BY <1>3, <1>5, <2>1, <2>2 DEF RaiseVersion
<1>6. CASE RevokeLink(r)
  <2>. DEFINE S == {s \in SessionsOf(u) : session[s].provider = "discord"}
  <2>1. S \in SUBSET Sessions
    BY DEF SessionsOf
  <2>2. Revoke(S) /\ End(r) /\ loggedOut' = loggedOut
    BY <1>6 DEF RevokeLink
  <2>. QED  BY <1>3, <2>1, <2>2
<1>. QED  BY <1>1, <1>2, <1>4, <1>5, <1>6

\* The first two statements of a logout of all: what was there is hit, by its kind.
LEMMA RevokingGone ==
  ASSUME LogoutInv, RowsInv', NEW r \in Requests,
         RevokeBrowserSessions(r) \/ RevokeNativeSessions(r)
  PROVE  LogoutInv'
<1>. USE DEF LogoutInv
<1>1. /\ request'[r].at \in RevokeStages /\ \A q \in Requests : q # r => request'[q] = request[q]
      /\ session' = session /\ loggedOut' = loggedOut
  BY RevokeFacts, StagesApart DEF sessionVars
<1>2. Gone' /\ Late' /\ LoggedOutForGood'
  BY <1>1, StagesApart DEF Gone, Late, LoggedOutForGood
<1>3. \A s : Kind(s)' = Kind(s)
  BY <1>1 DEF Kind
<1>4. \A s \in request'[r].there :
        /\ session[s] # NoSession /\ session[s].user = request'[r].user
        /\ request'[r].at = "raise_version" \/ Kind(s) = "browser" => s \in request'[r].hit
  <2>1. CASE RevokeBrowserSessions(r)
    <3>1. /\ request'[r].at = "revoke_native" /\ request'[r].user \in Users
          /\ request'[r].there = SessionsOf(request'[r].user)
          /\ request'[r].hit = OfKind(request'[r].there, "browser")
      BY <2>1, RevokeFacts
    <3>. QED  BY <3>1, UsersSessions DEF SessionsOf, OfKind
  <2>2. CASE RevokeNativeSessions(r)
    <3>1. /\ request[r].at = "revoke_native" /\ request'[r].at = "raise_version"
          /\ request'[r].user = request[r].user /\ request'[r].there = request[r].there
          /\ request'[r].hit = request[r].hit \cup OfKind(SessionsOf(request[r].user), "native")
      BY <2>2, RevokeFacts
    <3>2. \A s \in request[r].there :
            /\ s \in Sessions /\ session[s] # NoSession /\ session[s].user = request[r].user
            /\ Kind(s) = "browser" => s \in request[r].hit
      BY <3>1, HandlingFields, StagesApart DEF Revoking, RowsInv
    <3>3. \A s : Kind(s) \in {"browser", "native"}
      BY DEF Kind
    <3>. QED  BY <3>1, <3>2, <3>3 DEF SessionsOf, OfKind
  <2>. QED  BY <2>1, <2>2
<1>5. Revoking'
  BY <1>1, <1>3, <1>4 DEF Revoking
<1>. QED  BY <1>2, <1>5

\* The two statements of revalidation: a session in loggedOut fails the second.
LEMMA RevalidateGone ==
  ASSUME LogoutInv, RowsInv', NEW r \in Requests,
         \/ \E s \in Sessions : CheckVersion(r, s)
         \/ \E op \in Operations : CheckSession(r, op)
  PROVE  LogoutInv'
<1>. USE DEF LogoutInv
<1>1. ASSUME NEW s \in Sessions, CheckVersion(r, s) PROVE LogoutInv'
  <2>1. /\ request'[r] = [at |-> "revalidate", session |-> s, late |-> s \in loggedOut]
        /\ \A q \in Requests : q # r => request'[q] = request[q]
        /\ UNCHANGED <<session, loggedOut>>
    BY <1>1, BecomeFact DEF CheckVersion, RowsInv, sessionVars
  <2>2. Gone' /\ Late'
    <3>1. request'[r].session = s
      BY <2>1
    <3>2. ASSUME s \notin loggedOut PROVE ~request'[r].late
      <4>1. (s \in loggedOut) = FALSE
        BY <3>2
      <4>2. request'[r] = [at |-> "revalidate", session |-> s, late |-> FALSE]
        BY <2>1, <4>1, Zenon
      <4>. QED  BY <4>2
    <3>. QED  BY <2>1, <3>1, <3>2 DEF Gone, Late
  <2>3. LoggedOutForGood' /\ Revoking'
    BY <2>1, StagesApart DEF LoggedOutForGood, Revoking, Kind
  <2>. QED  BY <2>2, <2>3
<1>2. ASSUME NEW op \in Operations, CheckSession(r, op) PROVE LogoutInv'
  <2>1. /\ request[r].at = "revalidate" /\ request[r].session \in Sessions
        /\ request[r] \in [at : TokenStages, session : Sessions, late : BOOLEAN]
    BY <1>2, HandlingFields, StagesApart DEF CheckSession, IsAt, RowsInv
  <2>2. UNCHANGED <<session, loggedOut>>
    BY <1>2 DEF CheckSession, sessionVars
  <2>3. CASE session[request[r].session].live
    <3>1. ~request[r].late
      BY <2>1, <2>3 DEF Late, Gone
    <3>2. /\ request'[r] = [request[r] EXCEPT !.at = op]
          /\ \A q \in Requests : q # r => request'[q] = request[q]
      BY <1>2, <2>3, BecomeFact DEF CheckSession, RowsInv
    <3>3. request'[r].at = op /\ ~request'[r].late
      BY <2>1, <3>1, <3>2
    <3>. HIDE DEF LogoutInv
    <3>4. Gone'
      BY <2>2 DEF LogoutInv, Gone
    <3>5. Late' /\ LoggedOutForGood'
      BY <2>2, <3>2, <3>3 DEF LogoutInv, Late, LoggedOutForGood
    <3>6. Revoking'
      <4>1. op \notin RevokeStages /\ \A s : Kind(s)' = Kind(s)
        BY <2>2, StagesApart DEF Kind
      <4>2. \A q \in Requests : request'[q].at \in RevokeStages => q # r
        BY <3>3, <4>1
      <4>3. \A q \in Requests : request'[q].at \in RevokeStages => request'[q] = request[q]
        BY <3>2, <4>2
      <4>. QED  BY <2>2, <4>1, <4>3 DEF LogoutInv, Revoking
    <3>. QED  BY <3>4, <3>5, <3>6 DEF LogoutInv
  <2>4. CASE End(r)
    BY <2>2, <2>4, EndElsewhere, StillGone DEF Gone, Kept
  <2>. QED  BY <1>2, <2>3, <2>4 DEF CheckSession
<1>. QED  BY <1>1, <1>2

LEMMA NextGone == LogoutInv /\ LinksInv /\ [Next]_vars => LogoutInv'
<1>. SUFFICES ASSUME LogoutInv, LinksInv, [Next]_vars PROVE LogoutInv'
  OBVIOUS
<1>. USE DEF LogoutInv
<1>1. CASE UNCHANGED vars
  <2>1. RowsInv'
    BY <1>1, StutterRows
  <2>2. Gone' /\ Late' /\ LoggedOutForGood' /\ Revoking'
    BY <1>1 DEF Gone, Late, LoggedOutForGood, Revoking, Kind, vars, sessionVars
  <2>. QED  BY <2>1, <2>2
<1>2. CASE Next
  <2>. DEFINE Others == \A q \in Requests : request'[q] = request[q] \/ request'[q].at \notin Watched
  <2>1. RowsInv'
    BY <1>2, NextRows DEF LinksInv
  <2>2. UNCHANGED <<session, loggedOut>> /\ Others => LogoutInv'
    BY <2>1, StillGone DEF Gone, Kept
  <2>3. ASSUME NEW l \in Logins, NEW provider \in Providers, BeginLogin(l, provider)
        PROVE  LogoutInv'
    BY <2>2, <2>3 DEF BeginLogin, sessionVars
  <2>4. ASSUME NEW r \in Requests, NEW l \in Logins, ConsumeLogin(r, l) PROVE LogoutInv'
    BY <2>2, <2>4, Elsewhere, StagesApart DEF ConsumeLogin, sessionVars, Watched
  <2>5. ASSUME NEW r \in Requests, NEW u \in Users, SteamLogin(r, u) \/ TicketLogin(r, u)
        PROVE  LogoutInv'
    <3>1. PICK provider : FindOrCreateUser(r, u, provider)
      BY <2>5 DEF SteamLogin, TicketLogin
    <3>. QED  BY <2>2, <3>1, Elsewhere, StagesApart DEF FindOrCreateUser, Watched
  <2>6. ASSUME NEW r \in Requests, NEW uid \in Uids, DiscordLogin(r, uid) PROVE LogoutInv'
    BY <2>2, <2>6, Elsewhere, EndElsewhere, StagesApart DEF DiscordLogin, sessionVars, Watched
  <2>7. ASSUME NEW r \in Requests, NEW h \in Handoffs, CreateHandoff(r, h) \/ PeekHandoff(r, h)
        PROVE  LogoutInv'
    BY <2>2, <2>7, Elsewhere, EndElsewhere, StagesApart DEF CreateHandoff, PeekHandoff, sessionVars, Watched
  <2>8. ASSUME NEW r \in Requests, NEW p \in Proofs, NEW i \in Intents,
               CreateIntent(r, p, i) \/ (\E uid \in Uids : CompleteHandoff(r, uid, p, i))
        PROVE  LogoutInv'
    BY <2>2, <2>8, EndElsewhere DEF CreateIntent, CompleteHandoff, sessionVars
  <2>9. ASSUME NEW r \in Requests, Confirm(r) PROVE LogoutInv'
    BY <2>2, <2>9, ConfirmElsewhere
       DEF Confirm, LockIntent, CheckAccount, ReadOwner, ReadExisting, InsertLink, CommitLink,
           Step, sessionVars
  <2>10. ASSUME NEW r \in Requests, Abandon(r) PROVE LogoutInv'
    BY <2>2, <2>10, EndElsewhere DEF Abandon, sessionVars
  <2>11. ASSUME NEW r \in Requests, CheckIntent(r) PROVE LogoutInv'
    <3>1. request[r] \in [at : TokenStages, session : Sessions, late : BOOLEAN]
      BY <2>11, HandlingFields DEF CheckIntent, IsAt, RowsInv, TokenStages, Operations
    <3>2. [request[r] EXCEPT !.at = "intend"].at = "intend"
      BY <3>1
    <3>. QED  BY <2>2, <2>11, <3>2, Elsewhere, StagesApart DEF CheckIntent, sessionVars, Watched
  <2>. QED  BY <1>2, <2>1, <2>3, <2>4, <2>5, <2>6, <2>7, <2>8, <2>9, <2>10, <2>11,
               SessionsGone, RevokingGone, RevalidateGone DEF Next, RevokeAllSessions
<1>. QED  BY <1>1, <1>2

-----------------------------------------------------------------------------
LEMMA LinksAlways == Spec => []LinksInv
BY LinksInit, NextLinks, PTL DEF Spec

LEMMA LogoutAlways == Spec => []LogoutInv
<1>1. Init => LogoutInv
  BY LinksInit, StagesApart
     DEF LogoutInv, LinksInv, Init, Gone, Late, Revoking, LoggedOutForGood, Idle
<1>. QED  BY <1>1, LinksAlways, NextGone, PTL DEF Spec

\* Every variable keeps to its domain, whatever requests interleave.
THEOREM LinksTypeCorrect == Spec => []TypeOK
<1>1. LinksInv => TypeOK
  BY DEF LinksInv, RowsInv
<1>. QED  BY <1>1, LinksAlways, PTL

\* However many confirmations read that there is no link and insert one, a user
\* has one Discord identity at most, and an identity one user.
THEOREM OneOwnerCorrect == Spec => []OneOwner
<1>1. LinksInv => OneOwner
  BY DEF LinksInv, OneToOne, OneOwner
<1>. QED  BY <1>1, LinksAlways, PTL

\* Of the intents a browser makes of one proof, one at most is committed.
THEOREM ProofSpentOnceCorrect == Spec => []ProofSpentOnce
<1>1. LinksInv => ProofSpentOnce
  BY DEF LinksInv
<1>. QED  BY <1>1, LinksAlways, PTL

\* When a confirmation commits, the row it answers for is there, whatever was
\* inserted or revoked between its statements.
THEOREM CommittedCorrect == Spec => CommittedMeansLinked
<1>. DEFINE Good == \A i \in Intents : intent[i].state # "committed" /\ intent'[i].state = "committed"
                      => <<proof[intent[i].proof].uid, intent[i].user>> \in links'
<1>1. LinksInv /\ [Next]_vars => [Good]_vars
  BY CommitIsLinked
<1>. HIDE DEF Good
<1>2. Spec => [][Good]_vars
  BY <1>1, LinksAlways, PTL DEF Spec
<1>. QED  BY <1>2 DEF CommittedMeansLinked, Good

\* A logout of all sessions is final for those there were when it began: none passes
\* both statements of revalidation once it has committed, whenever its token was issued.
THEOREM LoggedOutCorrect == Spec => []LoggedOutForGood
<1>1. LogoutInv => LoggedOutForGood
  BY DEF LogoutInv
<1>. QED  BY <1>1, LogoutAlways, PTL

=============================================================================
