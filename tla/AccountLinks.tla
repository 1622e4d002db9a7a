---------------------------- MODULE AccountLinks ----------------------------
(***************************************************************************)
(* Accounts backed by Steam: logins, the sessions and tokens they issue,   *)
(* logouts, and the linking of a Discord identity to an account.  A user   *)
(* is the Steam identity the account was made for.                         *)
(*                                                                         *)
(* Requests of any kind run at once, each a sequence of statements and of  *)
(* transactions.  A transaction is one step where nothing it has not       *)
(* locked can change between its statements; confirm_discord_link and      *)
(* revoke_all_sessions see what others commit meanwhile and take a step    *)
(* per statement.                                                          *)
(*                                                                         *)
(* What a client must know to make a request (cookies, nonces, tokens) is  *)
(* left out, and so are the identity providers.                            *)
(***************************************************************************)
EXTENDS Integers

CONSTANTS
  Users, Uids,  \* accounts, and subjects of the provider discord
  Requests,     \* handlers that may be at work at a time
  Sessions, Logins, Handoffs, Proofs, Intents, \* bounds: rows of each table
  MaxLogouts    \* bound: logouts of all sessions, per user

None == "none"

ASSUME NoneAssumption == None \notin Users \cup Uids \cup Sessions \cup Proofs
ASSUME LogoutsAssumption == MaxLogouts \in Nat

VARIABLES
  registered, \* users with an account row for steam
  version,    \* users.token_version
  session,    \* browser_sessions and native_sessions, with the token issued
  login,      \* oauth_login_states
  links,      \* account rows of discord
  proof,      \* provider_sessions
  handoff,    \* oauth_handoffs
  intent,     \* link_intents
  request,    \* what each handler is at
  loggedOut   \* history: sessions that were there before their user, in a logout that
              \* has committed, began to revoke them all

sessionVars == <<registered, version, session, loggedOut>>
linkVars    == <<links, proof, handoff, intent>>
vars == <<sessionVars, login, linkVars, request>>

Kinds == {"browser", "native"}
Providers == {"steam", "discord", "ticket"}
Operations == {"logout", "logout_all", "intent", "handoff", "confirm", "revoke_link"}

\* A row that has not been inserted.
NoSession == [user |-> None, provider |-> None, live |-> FALSE, issued |-> FALSE, version |-> 0]
NoProof   == [uid |-> None, state |-> "none"]
NoHandoff == [session |-> None, state |-> "none"]
NoIntent  == [user |-> None, session |-> None, proof |-> None, state |-> "none"]
Idle      == [at |-> "idle"]

\* What a handler is at, and what it holds there.
TokenStages   == Operations \cup {"revalidate", "intend"}
RevokeStages  == {"revoke_native", "raise_version"}
ConfirmStages == {"locked", "checked", "owned", "insert", "inserted", "linked"}
Handling ==
  [at : {"idle"}] \cup [at : {"verify"}, provider : Providers]
  \cup [at : {"owner"}, user : Users, provider : Providers]
  \cup [at : {"issue"}, session : Sessions]
  \cup [at : TokenStages, session : Sessions, late : BOOLEAN]
  \cup [at : RevokeStages, user : Users, there : SUBSET Sessions, hit : SUBSET Sessions]
  \cup [at : {"complete"}, handoff : Handoffs]
  \cup [at : ConfirmStages, intent : Intents, owner : Users \cup {None}]

Kind(s) == IF session[s].provider = "ticket" THEN "native" ELSE "browser"

Init ==
  /\ registered = {} /\ version = [u \in Users |-> 0]
  /\ session = [s \in Sessions |-> NoSession]
  /\ login = [l \in Logins |-> None]
  /\ links = {}
  /\ proof = [p \in Proofs |-> NoProof]
  /\ handoff = [h \in Handoffs |-> NoHandoff]
  /\ intent = [i \in Intents |-> NoIntent]
  /\ request = [r \in Requests |-> Idle]
  /\ loggedOut = {}

Become(r, what) == request' = [request EXCEPT ![r] = what]
End(r) == Become(r, Idle)
IsAt(r, stage) == request[r].at = stage

-----------------------------------------------------------------------------
(* Logins. *)

BeginLogin(l, provider) ==
  /\ login[l] = None /\ provider \in {"steam", "discord"}
  /\ login' = [login EXCEPT ![l] = provider]
  /\ UNCHANGED <<sessionVars, linkVars, request>>

\* The callback of a login consumes its state, once, and goes to the provider.
ConsumeLogin(r, l) ==
  /\ IsAt(r, "idle") /\ login[l] \in {"steam", "discord"}
  /\ login' = [login EXCEPT ![l] = "used"]
  /\ Become(r, [at |-> "verify", provider |-> login[l]])
  /\ UNCHANGED <<sessionVars, linkVars>>

\* find_or_create_user: the rows of users and accounts are unique by the
\* Steam id, and whoever loses the race to insert one uses the winner's.
FindOrCreateUser(r, u, provider) ==
  /\ registered' = registered \cup {u}
  /\ Become(r, [at |-> "owner", user |-> u, provider |-> provider])
  /\ UNCHANGED <<version, session, loggedOut, login, linkVars>>

SteamLogin(r, u) ==
  /\ IsAt(r, "verify") /\ request[r].provider = "steam"
  /\ FindOrCreateUser(r, u, "steam")

TicketLogin(r, u) == IsAt(r, "idle") /\ FindOrCreateUser(r, u, "ticket")

\* login_linked_account: the identity's owner logs in; one without an owner
\* gets a proof that it was verified.
DiscordLogin(r, uid) ==
  /\ IsAt(r, "verify") /\ request[r].provider = "discord"
  /\ \/ \E u \in registered :
          /\ <<uid, u>> \in links
          /\ Become(r, [at |-> "owner", user |-> u, provider |-> "discord"])
          /\ UNCHANGED proof
     \/ /\ \A u \in registered : <<uid, u>> \notin links
        /\ \E p \in Proofs : /\ proof[p] = NoProof
                             /\ proof' = [proof EXCEPT ![p] = [uid |-> uid, state |-> "fresh"]]
        /\ End(r)
  /\ UNCHANGED <<sessionVars, login, links, handoff, intent>>

\* issue_browser, issue_native: the session, then a token with the version.
CreateSession(r, s) ==
  /\ IsAt(r, "owner") /\ session[s] = NoSession
  /\ session' = [session EXCEPT ![s] =
       [user |-> request[r].user, provider |-> request[r].provider,
        live |-> TRUE, issued |-> FALSE, version |-> 0]]
  /\ Become(r, [at |-> "issue", session |-> s])
  /\ UNCHANGED <<registered, version, loggedOut, login, linkVars>>

IssueToken(r) ==
  /\ IsAt(r, "issue")
  /\ LET s == request[r].session IN
     session' = [session EXCEPT ![s].issued = TRUE, ![s].version = version[session[s].user]]
  /\ End(r)
  /\ UNCHANGED <<registered, version, loggedOut, login, linkVars>>

-----------------------------------------------------------------------------
(* Requests with a token. *)

\* revalidate_session reads the version, and in a second statement the session.
CheckVersion(r, s) ==
  /\ IsAt(r, "idle") /\ session[s].issued
  /\ session[s].version = version[session[s].user]
  /\ Become(r, [at |-> "revalidate", session |-> s, late |-> s \in loggedOut])
  /\ UNCHANGED <<sessionVars, login, linkVars>>

CheckSession(r, op) ==
  /\ IsAt(r, "revalidate")
  /\ IF session[request[r].session].live THEN Become(r, [request[r] EXCEPT !.at = op])
                                         ELSE End(r)
  /\ UNCHANGED <<sessionVars, login, linkVars>>

Logout(r) ==
  /\ IsAt(r, "logout") /\ End(r)
  /\ session' = [session EXCEPT ![request[r].session].live = FALSE]
  /\ UNCHANGED <<registered, version, loggedOut, login, linkVars>>

\* revoke_all_sessions: the statements of one transaction, each of which sees what
\* was committed when it begins; a session inserted after that is not revoked.
SessionsOf(u) == {s \in Sessions : session[s].user = u}
OfKind(S, kind) == {s \in S : Kind(s) = kind}

RevokeBrowserSessions(r) ==
  /\ IsAt(r, "logout_all")
  /\ LET u == session[request[r].session].user IN
     Become(r, [at |-> "revoke_native", user |-> u, there |-> SessionsOf(u),
                hit |-> OfKind(SessionsOf(u), "browser")])
  /\ UNCHANGED <<sessionVars, login, linkVars>>

RevokeNativeSessions(r) ==
  /\ IsAt(r, "revoke_native")
  /\ Become(r, [request[r] EXCEPT !.at = "raise_version",
                   !.hit = @ \cup OfKind(SessionsOf(request[r].user), "native")])
  /\ UNCHANGED <<sessionVars, login, linkVars>>

Revoke(S) == session' = [s \in Sessions |-> IF s \in S THEN [session[s] EXCEPT !.live = FALSE]
                                                       ELSE session[s]]

\* Mutant of RaiseVersion: the new version alone is to end the sessions.
RaiseVersionOnly(r) ==
  /\ IsAt(r, "raise_version") /\ End(r)
  /\ version[request[r].user] < MaxLogouts
  /\ version' = [version EXCEPT ![request[r].user] = @ + 1]
  /\ loggedOut' = loggedOut \cup request[r].there
  /\ UNCHANGED <<registered, session, login, linkVars>>

\* The third statement and the commit, which shows what the first two did.
RaiseVersion(r) ==
  /\ IsAt(r, "raise_version") /\ End(r)
  /\ version[request[r].user] < MaxLogouts
  /\ version' = [version EXCEPT ![request[r].user] = @ + 1]
  /\ Revoke(request[r].hit)
  /\ loggedOut' = loggedOut \cup request[r].there
  /\ UNCHANGED <<registered, login, linkVars>>

RevokeAllSessions(r) ==
  RevokeBrowserSessions(r) \/ RevokeNativeSessions(r) \/ RaiseVersion(r)

-----------------------------------------------------------------------------
(* Intents to link: by a browser with a proof, or by a native client's handoff. *)

\* A confirmation holds the rows of an intent and of its proof.
LocksProof(p) == \E r \in Requests : /\ request[r].at \in ConfirmStages
                                     /\ intent[request[r].intent].proof = p

\* The session is looked at first, and then the proof's row is waited for.
CheckIntent(r) ==
  LET s == request[r].session IN
  /\ IsAt(r, "intent") /\ Kind(s) = "browser"
  /\ session[s].live /\ session[s].user \in registered
  /\ Become(r, [request[r] EXCEPT !.at = "intend"])
  /\ UNCHANGED <<sessionVars, login, linkVars>>

CreateIntent(r, p, i) ==
  LET s == request[r].session IN
  /\ IsAt(r, "intend") /\ End(r)
  /\ intent[i] = NoIntent /\ ~LocksProof(p) /\ proof[p].state = "fresh"
  /\ intent' = [intent EXCEPT ![i] =
       [user |-> session[s].user, session |-> s, proof |-> p, state |-> "pending"]]
  /\ UNCHANGED <<sessionVars, login, links, proof, handoff>>

CreateHandoff(r, h) ==
  /\ IsAt(r, "handoff") /\ Kind(request[r].session) = "native" /\ End(r)
  /\ handoff[h] = NoHandoff
  /\ handoff' = [handoff EXCEPT ![h] = [session |-> request[r].session, state |-> "open"]]
  /\ UNCHANGED <<sessionVars, login, links, proof, intent>>

Open(h) == handoff[h].state = "open" /\ session[handoff[h].session].live

\* The callback peeks at the handoff, then goes to the provider.
PeekHandoff(r, h) ==
  /\ IsAt(r, "idle") /\ Open(h)
  /\ Become(r, [at |-> "complete", handoff |-> h])
  /\ UNCHANGED <<sessionVars, login, linkVars>>

\* One transaction makes the proof and the intent, and uses the handoff up.
CompleteHandoff(r, uid, p, i) ==
  LET h == request[r].handoff IN
  /\ IsAt(r, "complete") /\ Open(h) /\ End(r)
  /\ proof[p] = NoProof /\ intent[i] = NoIntent
  /\ proof' = [proof EXCEPT ![p] = [uid |-> uid, state |-> "fresh"]]
  /\ intent' = [intent EXCEPT ![i] =
       [user |-> session[handoff[h].session].user, session |-> handoff[h].session,
        proof |-> p, state |-> "pending"]]
  /\ handoff' = [handoff EXCEPT ![h].state = "used"]
  /\ UNCHANGED <<sessionVars, login, links>>

-----------------------------------------------------------------------------
(* confirm_discord_link and revoke_discord_link. *)

Step(r, from, to) ==
  /\ IsAt(r, from)
  /\ Become(r, [request[r] EXCEPT !.at = to])
  /\ UNCHANGED <<sessionVars, login, linkVars>>

User(r) == intent[request[r].intent].user
Uid(r)  == proof[intent[request[r].intent].proof].uid

\* Mutant of LockIntent: the proof's own state is not looked at.
LockIntentOnly(r, i) ==
  /\ IsAt(r, "confirm") /\ ~LocksProof(intent[i].proof)
  /\ intent[i].state = "pending" /\ intent[i].session = request[r].session
  /\ Become(r, [at |-> "locked", intent |-> i, owner |-> None])
  /\ UNCHANGED <<sessionVars, login, linkVars>>

\* The intent and its proof are locked together and looked at as they are then.
LockIntent(r, i) ==
  /\ IsAt(r, "confirm") /\ ~LocksProof(intent[i].proof)
  /\ intent[i].state = "pending" /\ intent[i].session = request[r].session
  /\ proof[intent[i].proof].state = "fresh"
  /\ Become(r, [at |-> "locked", intent |-> i, owner |-> None])
  /\ UNCHANGED <<sessionVars, login, linkVars>>

CheckAccount(r) ==
  /\ IsAt(r, "locked")
  /\ session[intent[request[r].intent].session].live /\ User(r) \in registered
  /\ Step(r, "locked", "checked")

OwnerOf(uid) == IF \E u \in Users : <<uid, u>> \in links
                THEN CHOOSE u \in Users : <<uid, u>> \in links ELSE None

\* The owner's row, if there is one, stays locked to the end.
ReadOwner(r) ==
  /\ IsAt(r, "checked")
  /\ Become(r, [request[r] EXCEPT !.at = "owned", !.owner = OwnerOf(Uid(r))])
  /\ UNCHANGED <<sessionVars, login, linkVars>>

ReadExisting(r) ==
  /\ IsAt(r, "owned")
  /\ request[r].owner \in {None, User(r)}
  /\ \A uid \in Uids : <<uid, User(r)>> \in links => uid = Uid(r)
  /\ Step(r, "owned", IF request[r].owner = None THEN "insert" ELSE "linked")

\* Two rows clash that have an identity or a user in common.
PendingInserts == {<<Uid(r), User(r)>> : r \in {q \in Requests : IsAt(q, "inserted")}}
Clash(rows, r) == \E row \in rows : row[1] = Uid(r) \/ row[2] = User(r)

\* Mutant of InsertLink: whatever the row clashes with is taken for its own.
InsertAnyway(r) ==
  /\ IsAt(r, "insert")
  /\ ~Clash(PendingInserts, r)
  /\ Step(r, "insert", IF Clash(links, r) THEN "linked" ELSE "inserted")

\* Mutant of InsertLink: the table is unique by the user alone.
InsertByUser(r) ==
  /\ IsAt(r, "insert")
  /\ \A row \in PendingInserts \cup links : row[2] # User(r)
  /\ Step(r, "insert", "inserted")

\* The insert waits for one that clashes and is not committed.  After a clash
\* the rows are read again: the identity may be the user's own by now.
InsertLink(r) ==
  /\ IsAt(r, "insert")
  /\ ~Clash(PendingInserts, r)
  /\ Clash(links, r) => <<Uid(r), User(r)>> \in links
  /\ Step(r, "insert", IF Clash(links, r) THEN "linked" ELSE "inserted")

CommitLink(r) ==
  /\ request[r].at \in {"inserted", "linked"} /\ End(r)
  /\ links' = IF IsAt(r, "inserted") THEN links \cup {<<Uid(r), User(r)>>} ELSE links
  /\ proof' = [proof EXCEPT ![intent[request[r].intent].proof].state = "spent"]
  /\ intent' = [intent EXCEPT ![request[r].intent].state = "committed"]
  /\ UNCHANGED <<sessionVars, login, handoff>>

LocksLink(u) == \E r \in Requests : /\ request[r].at \in {"owned", "linked"}
                                    /\ IF IsAt(r, "linked") THEN User(r) = u
                                       ELSE request[r].owner = u

RevokeLink(r) ==
  LET u == session[request[r].session].user IN
  /\ IsAt(r, "revoke_link") /\ Kind(request[r].session) = "browser" /\ u \in registered
  /\ ~LocksLink(u) /\ End(r)
  /\ links' = {row \in links : row[2] # u}
  /\ Revoke({s \in SessionsOf(u) : session[s].provider = "discord"})
  /\ UNCHANGED <<registered, version, loggedOut, login, proof, handoff, intent>>

-----------------------------------------------------------------------------
(* What happens to a request from outside. *)

\* A request ends where it is: it is refused for a row that has expired or for a
\* check that fails, or its caller hangs up.  What its open transaction did is
\* undone.  A row that expires is one whose requests are refused from then on.
Abandon(r) ==
  /\ ~IsAt(r, "idle") /\ End(r)
  /\ UNCHANGED <<sessionVars, login, linkVars>>

Confirm(r) ==
  \/ \E i \in Intents : LockIntent(r, i)
  \/ CheckAccount(r) \/ ReadOwner(r) \/ ReadExisting(r) \/ InsertLink(r) \/ CommitLink(r)

Next ==
  \/ \E l \in Logins, provider \in Providers : BeginLogin(l, provider)
  \/ \E r \in Requests :
       \/ \E l \in Logins : ConsumeLogin(r, l)
       \/ \E u \in Users : SteamLogin(r, u) \/ TicketLogin(r, u)
       \/ \E uid \in Uids : DiscordLogin(r, uid)
       \/ \E s \in Sessions : CreateSession(r, s)
       \/ IssueToken(r)
       \/ \E s \in Sessions : CheckVersion(r, s)
       \/ \E op \in Operations : CheckSession(r, op)
       \/ Logout(r) \/ RevokeAllSessions(r)
       \/ CheckIntent(r) \/ \E p \in Proofs, i \in Intents : CreateIntent(r, p, i)
       \/ \E h \in Handoffs : CreateHandoff(r, h) \/ PeekHandoff(r, h)
       \/ \E uid \in Uids, p \in Proofs, i \in Intents : CompleteHandoff(r, uid, p, i)
       \/ Confirm(r) \/ RevokeLink(r) \/ Abandon(r)

Spec == Init /\ [][Next]_vars

-----------------------------------------------------------------------------
(* Properties. *)

\* Every variable keeps to its domain; what a request holds depends on where it is.
TypeOK ==
  /\ registered \subseteq Users /\ version \in [Users -> 0 .. MaxLogouts]
  /\ session \in [Sessions -> [user : Users \cup {None}, provider : Providers \cup {None},
                               live : BOOLEAN, issued : BOOLEAN, version : 0 .. MaxLogouts]]
  /\ login \in [Logins -> Providers \cup {None, "used"}]
  /\ links \subseteq Uids \X Users /\ loggedOut \subseteq Sessions
  /\ proof \in [Proofs -> [uid : Uids \cup {None}, state : {"none", "fresh", "spent"}]]
  /\ handoff \in [Handoffs -> [session : Sessions \cup {None}, state : {"none", "open", "used"}]]
  /\ intent \in [Intents -> [user : Users \cup {None}, session : Sessions \cup {None},
                             proof : Proofs \cup {None},
                             state : {"none", "pending", "committed"}]]
  /\ request \in [Requests -> Handling]

\* A user has one Discord identity at most, and an identity one user, however
\* many confirmations read that there is none and insert at once.
OneOwner ==
  \A one, other \in links : one[1] = other[1] \/ one[2] = other[2] => one = other

\* A proof is spent by one intent at most, though a browser may make several
\* intents of it and confirm them at once.
ProofSpentOnce ==
  \A i, j \in Intents : /\ intent[i].state = "committed" /\ intent[j].state = "committed"
                         /\ intent[i].proof = intent[j].proof
                         => i = j

\* A confirmation that answers yes has linked the two: the row is there when
\* the intent is committed, also when another's insert or a revocation came
\* between its statements.
CommittedMeansLinked ==
  [][\A i \in Intents : intent[i].state # "committed" /\ intent'[i].state = "committed"
       => <<proof[intent[i].proof].uid, intent[i].user>> \in links']_vars

\* Sessions that were there when their user began to log out of all never pass
\* revalidation once that has committed, not even one whose token is issued
\* afterwards.  (One inserted while the logout is at work may escape it.)
LoggedOutForGood ==
  \A r \in Requests : request[r].at \in Operations => ~request[r].late
==============================================================================
