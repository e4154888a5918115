--------------------------------- MODULE SignIn ---------------------------------
(***************************************************************************)
(* Signing in with a wallet (apps/api/src/routes/auth.ts, auth-session.ts, *)
(* packages/auth, the auth repository).  A nonce is issued, signed by a    *)
(* wallet and exchanged for a session by requests that run side by side; a *)
(* wallet that signs in for the first time gets a user.  A request waits   *)
(* for the database between its steps, and may die there.                  *)
(***************************************************************************)
EXTENDS Integers, Sequences, FiniteSets

CONSTANTS
    Requests,           \* concurrent requests
    Nonces,             \* the nonces that are issued
    Wallets,
    Users,              \* the ids of user rows
    None,
    Conflicts,          \* how the driver may report a unique violation
    MaxExpiries         \* bound: nonces and sessions that expire

ASSUME SignInAssumption ==
    /\ None \notin Users \cup (Nonces \X Wallets)
    /\ Conflicts \subseteq {"bare", "wrapped"}
    /\ MaxExpiries \in Nat

VARIABLES
    nonce, late,        \* siwe_nonces, and those that have expired
    users, owner,       \* users, and user_wallets, which is unique by address
    sessions,           \* the rows of sessions, in the order of insertion
    pc, signed, user,   \* a request, the nonce and wallet of its message
    session,            \* the session a request logs out of
    expiries

request == <<pc, signed, user, session>>
tables == <<nonce, users, owner, sessions>>
vars == <<nonce, late, users, owner, sessions, request, expiries>>

Row == [nonce : Nonces, wallet : Wallets, user : Users,
        expired : BOOLEAN, revoked : BOOLEAN]

TypeOK ==
    /\ nonce \in [Nonces -> {"none", "issued", "consumed"}]
    /\ late \subseteq Nonces
    /\ users \subseteq Users
    /\ owner \in [Wallets -> Users \cup {None}]
    /\ sessions \in Seq(Row)
    /\ pc \in [Requests -> {"idle", "validated", "consumed", "unowned",
                            "inserting", "conflict", "owned", "leaving"}]
    /\ signed \in [Requests -> Nonces \X Wallets \cup {None}]
    /\ user \in [Requests -> Users \cup {None}]
    /\ session \in [Requests -> Nat]
    /\ expiries \in 0 .. MaxExpiries

Init ==
    /\ nonce = [n \in Nonces |-> "none"]
    /\ late = {}
    /\ users = {}
    /\ owner = [w \in Wallets |-> None]
    /\ sessions = <<>>
    /\ pc = [r \in Requests |-> "idle"]
    /\ signed = [r \in Requests |-> None]
    /\ user = [r \in Requests |-> None]
    /\ session = [r \in Requests |-> 0]
    /\ expiries = 0

Goto(r, where) == pc' = [pc EXCEPT ![r] = where]

\* The request is over, with an answer or an error.
Return(r) ==
    /\ Goto(r, "idle")
    /\ signed' = [signed EXCEPT ![r] = None]
    /\ user' = [user EXCEPT ![r] = None]
    /\ session' = [session EXCEPT ![r] = 0]

Own(r, id) ==
    /\ Goto(r, "owned")
    /\ user' = [user EXCEPT ![r] = id]
    /\ UNCHANGED <<signed, session>>

-------------------------------------------------------------------------------
(* POST /auth/siwe/nonce and /auth/siwe/verify                             *)

IssueNonce(n) ==
    /\ nonce[n] = "none"
    /\ nonce' = [nonce EXCEPT ![n] = "issued"]
    /\ UNCHANGED <<late, users, owner, sessions, request, expiries>>

\* getSiweNonce, and validateSiwe of a message with a good signature.
Validate(r, n, w) ==
    /\ pc[r] = "idle"
    /\ nonce[n] = "issued"
    /\ n \notin late
    /\ Goto(r, "validated")
    /\ signed' = [signed EXCEPT ![r] = <<n, w>>]
    /\ UNCHANGED <<tables, late, user, session, expiries>>

\* Bug: the nonce was found unconsumed when it was validated.
ConsumeWhatWasValidated(r) ==
    /\ pc[r] = "validated"
    /\ nonce' = [nonce EXCEPT ![signed[r][1]] = "consumed"]
    /\ Goto(r, "consumed")
    /\ UNCHANGED <<late, users, owner, sessions, signed, user, session, expiries>>

\* consumeSiweNonce: the update finds the nonce unconsumed.  It compares with
\* the time the request began, so expiry in between does not matter.
Consume(r) ==
    /\ pc[r] = "validated"
    /\ nonce[signed[r][1]] = "issued"
    /\ nonce' = [nonce EXCEPT ![signed[r][1]] = "consumed"]
    /\ Goto(r, "consumed")
    /\ UNCHANGED <<late, users, owner, sessions, signed, user, session, expiries>>

Replayed(r) ==
    /\ pc[r] = "validated"
    /\ nonce[signed[r][1]] = "consumed"
    /\ Return(r)
    /\ UNCHANGED <<tables, late, expiries>>

\* getUserWalletOwner
Owner(r) == owner[signed[r][2]]

\* provisionUserForWallet looks the owner up, once more in its transaction,
\* and once again after a unique violation.
FindOwner(r) ==
    /\ pc[r] \in {"consumed", "unowned", "conflict"}
    /\ Owner(r) # None
    /\ Own(r, Owner(r))
    /\ UNCHANGED <<tables, late, expiries>>

FindNoOwner(r) ==
    /\ pc[r] \in {"consumed", "unowned"}
    /\ Owner(r) = None
    /\ Goto(r, IF pc[r] = "consumed" THEN "unowned" ELSE "inserting")
    /\ UNCHANGED <<tables, late, signed, user, session, expiries>>

\* Bug: no unique index; the later wallet row is the one that is found.
InsertUserAgain(r) ==
    /\ pc[r] = "inserting"
    /\ \E id \in Users \ users :
        /\ users' = users \cup {id}
        /\ owner' = [owner EXCEPT ![signed[r][2]] = id]
        /\ Own(r, id)
    /\ UNCHANGED <<nonce, late, sessions, expiries>>

\* The user and the wallet are inserted in one transaction, which the unique
\* index of user_wallets ends when another request has committed first.
InsertUser(r) ==
    /\ pc[r] = "inserting"
    /\ Owner(r) = None
    /\ \E id \in Users \ users :
        /\ users' = users \cup {id}
        /\ owner' = [owner EXCEPT ![signed[r][2]] = id]
        /\ Own(r, id)
    /\ UNCHANGED <<nonce, late, sessions, expiries>>

\* The catch looks for code 23505 on the error itself; an error the driver
\* wraps has it on the cause, and is thrown again.
LoseInsert(r) ==
    /\ pc[r] = "inserting"
    /\ Owner(r) # None
    /\ \E form \in Conflicts :
        IF form = "bare"
        THEN Goto(r, "conflict") /\ UNCHANGED <<signed, user, session>>
        ELSE Return(r)
    /\ UNCHANGED <<tables, late, expiries>>

InsertSession(r) ==
    /\ pc[r] = "owned"
    /\ sessions' = Append(sessions,
            [nonce |-> signed[r][1], wallet |-> signed[r][2], user |-> user[r],
             expired |-> FALSE, revoked |-> FALSE])
    /\ Return(r)
    /\ UNCHANGED <<nonce, late, users, owner, expiries>>

-------------------------------------------------------------------------------
(* POST /auth/logout, failures and time                                    *)

Live(s) == ~sessions[s].expired /\ ~sessions[s].revoked

\* authenticate
Enter(r, s) ==
    /\ pc[r] = "idle"
    /\ Live(s)
    /\ Goto(r, "leaving")
    /\ session' = [session EXCEPT ![r] = s]
    /\ UNCHANGED <<tables, late, signed, user, expiries>>

Revoke(r) ==
    /\ pc[r] = "leaving"
    /\ sessions' = [sessions EXCEPT ![session[r]].revoked = TRUE]
    /\ Return(r)
    /\ UNCHANGED <<nonce, late, users, owner, expiries>>

\* A statement fails, or the process dies.
Abort(r) ==
    /\ pc[r] # "idle"
    /\ Return(r)
    /\ UNCHANGED <<tables, late, expiries>>

ExpireNonce(n) ==
    /\ expiries < MaxExpiries
    /\ nonce[n] # "none"
    /\ n \notin late
    /\ late' = late \cup {n}
    /\ expiries' = expiries + 1
    /\ UNCHANGED <<tables, request>>

ExpireSession(s) ==
    /\ expiries < MaxExpiries
    /\ ~sessions[s].expired
    /\ sessions' = [sessions EXCEPT ![s].expired = TRUE]
    /\ expiries' = expiries + 1
    /\ UNCHANGED <<nonce, late, users, owner, request>>

Next ==
    \/ \E n \in Nonces : IssueNonce(n) \/ ExpireNonce(n)
    \/ \E s \in DOMAIN sessions : ExpireSession(s)
    \/ \E r \in Requests :
        \/ \E n \in Nonces, w \in Wallets : Validate(r, n, w)
        \/ Consume(r) \/ Replayed(r) \/ FindOwner(r) \/ FindNoOwner(r)
        \/ InsertUser(r) \/ LoseInsert(r) \/ InsertSession(r)
        \/ \E s \in DOMAIN sessions : Enter(r, s)
        \/ Revoke(r) \/ Abort(r)

Spec == Init /\ [][Next]_vars

-------------------------------------------------------------------------------
(* Properties                                                              *)

\* A nonce signs in once, though any number of requests may have found it
\* unconsumed before one of them consumed it (routes/auth.ts:130).
NonceSignsInOnce ==
    \A s, t \in DOMAIN sessions : sessions[s].nonce = sessions[t].nonce => s = t

\* First sign-ins that race for a wallet end with one user: whoever signed in
\* with the wallet is its owner, and no user is left without a wallet
\* (auth-repository.ts:253).
OneUserPerWallet ==
    /\ \A s \in DOMAIN sessions : sessions[s].user = owner[sessions[s].wallet]
    /\ \A id \in users : \E w \in Wallets : owner[w] = id
    /\ \A v, w \in Wallets : owner[v] = owner[w] /\ owner[v] # None => v = w
===============================================================================
