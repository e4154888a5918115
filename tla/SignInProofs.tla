------------------------------ MODULE SignInProofs ------------------------------
(***************************************************************************)
(* Proofs about SignIn, for every set of requests, nonces, wallets and     *)
(* users, and however the driver reports a unique violation.               *)
(***************************************************************************)
EXTENDS SignIn, SequenceTheorems, TLAPS

\* The requests that have consumed their nonce.
Holding(r) == pc[r] \in {"consumed", "unowned", "inserting", "conflict", "owned"}

\* A nonce that was consumed is held by one request, or has one session.
NonceInv ==
    /\ \A r \in Requests : pc[r] = "validated" \/ Holding(r) => signed[r] # None
    /\ \A r \in Requests : Holding(r) => nonce[signed[r][1]] = "consumed"
    /\ \A q, r \in Requests :
        Holding(q) /\ Holding(r) /\ signed[q][1] = signed[r][1] => q = r
    /\ \A s \in DOMAIN sessions : nonce[sessions[s].nonce] = "consumed"
    /\ \A s \in DOMAIN sessions, r \in Requests :
        Holding(r) => sessions[s].nonce # signed[r][1]
    /\ NonceSignsInOnce

\* A request that found an owner found the owner, and owners do not change.
OwnerInv ==
    /\ \A r \in Requests : pc[r] = "owned" => user[r] # None /\ user[r] = Owner(r)
    /\ \A r \in Requests : pc[r] = "leaving" => session[r] \in DOMAIN sessions
    /\ \A w \in Wallets : owner[w] # None => owner[w] \in users
    /\ OneUserPerWallet

\* The inductive invariant.
IInv == TypeOK /\ NonceInv /\ OwnerInv

LEMMA RowType ==
    ASSUME TypeOK, NEW s \in DOMAIN sessions
    PROVE  /\ sessions[s] \in Row
           /\ sessions[s].nonce \in Nonces
           /\ sessions[s].wallet \in Wallets
           /\ sessions[s].user \in Users
  <1>1. sessions \in Seq(Row) /\ s \in 1 .. Len(sessions)
    BY DEF TypeOK
  <1>2. sessions[s] \in Row
    BY <1>1, ElementOfSeq
  <1> QED BY <1>2 DEF Row

LEMMA ReturnInv ==
    ASSUME TypeOK, NonceInv, OwnerInv, NEW r \in Requests, Return(r),
           UNCHANGED <<tables, late, expiries>>
    PROVE  IInv'
  <1>1. TypeOK'
    BY DEF TypeOK, Return, Goto, tables
  <1>2. \A q \in Requests : Holding(q)' => q # r /\ Holding(q) /\ signed'[q] = signed[q]
    BY DEF Return, Goto, Holding, TypeOK
  <1>3. NonceInv'
    <2>1. \A q \in Requests : pc'[q] = "validated" => q # r /\ pc[q] = "validated" /\ signed'[q] = signed[q]
      BY DEF Return, Goto, TypeOK
    <2> QED BY <1>2, <2>1 DEF NonceInv, NonceSignsInOnce, tables
  <1>4. OwnerInv'
    BY DEF OwnerInv, OneUserPerWallet, Owner, Return, Goto, TypeOK, tables
  <1> QED BY <1>1, <1>3, <1>4 DEF IInv

\* A step of a request that keeps its message, and neither gains nor loses a
\* nonce, keeps what is said of nonces.
LEMMA MoveInv ==
    ASSUME TypeOK, NonceInv, NEW r \in Requests,
           signed' = signed, nonce' = nonce, sessions' = sessions,
           \A q \in Requests : Holding(q)' <=> Holding(q),
           \A q \in Requests : pc'[q] = "validated" => pc[q] = "validated"
    PROVE  NonceInv'
  BY DEF NonceInv, NonceSignsInOnce

LEMMA IssueNonceInv ==
    ASSUME IInv, NEW n \in Nonces, IssueNonce(n)
    PROVE  IInv'
  <1>1. TypeOK'
    BY DEF IInv, IssueNonce, TypeOK, request
  <1>2. \A m \in Nonces : nonce[m] = "consumed" => nonce'[m] = "consumed"
    BY DEF IInv, IssueNonce, TypeOK
  <1>3. NonceInv'
    <2>1. \A r \in Requests : Holding(r)' <=> Holding(r)
      BY DEF IssueNonce, request, Holding
    <2>2. \A r \in Requests : Holding(r) => signed[r][1] \in Nonces
      BY DEF IInv, NonceInv, TypeOK
    <2>3. \A s \in DOMAIN sessions : sessions[s].nonce \in Nonces
      BY RowType DEF IInv
    <2>4. UNCHANGED <<pc, signed, sessions>>
      BY DEF IssueNonce, request
    <2>5. \A r \in Requests : Holding(r)' => nonce'[signed'[r][1]] = "consumed"
      BY <1>2, <2>1, <2>2, <2>4 DEF IInv, NonceInv
    <2>6. \A s \in DOMAIN sessions' : nonce'[sessions'[s].nonce] = "consumed"
      BY <1>2, <2>3, <2>4 DEF IInv, NonceInv
    <2> QED BY <2>1, <2>4, <2>5, <2>6 DEF IInv, NonceInv, NonceSignsInOnce
  <1>4. OwnerInv'
    BY DEF IInv, OwnerInv, OneUserPerWallet, Owner, IssueNonce, request
  <1> QED BY <1>1, <1>3, <1>4 DEF IInv

LEMMA ValidateInv ==
    ASSUME IInv, NEW r \in Requests, NEW n \in Nonces, NEW w \in Wallets, Validate(r, n, w)
    PROVE  IInv'
  <1>1. TypeOK'
    BY DEF IInv, Validate, TypeOK, Goto, tables
  <1>2. NonceInv'
    <2>1. \A q \in Requests : Holding(q)' => q # r /\ Holding(q) /\ signed'[q] = signed[q]
      BY DEF IInv, TypeOK, Validate, Goto, Holding
    <2>2. \A q \in Requests : pc'[q] = "validated" => signed'[q] # None
      <3>1. <<n, w>> # None
        BY SignInAssumption DEF IInv, TypeOK
      <3> QED BY <3>1 DEF IInv, TypeOK, NonceInv, Validate, Goto
    <2> QED BY <2>1, <2>2 DEF IInv, NonceInv, NonceSignsInOnce, Validate, tables
  <1>3. OwnerInv'
    BY DEF IInv, TypeOK, OwnerInv, OneUserPerWallet, Owner, Validate, Goto, tables
  <1> QED BY <1>1, <1>2, <1>3 DEF IInv

LEMMA ConsumeInv ==
    ASSUME IInv, NEW r \in Requests, Consume(r)
    PROVE  IInv'
  <1> DEFINE n == signed[r][1]
  <1>1. n \in Nonces /\ nonce[n] = "issued" /\ ~Holding(r)
    BY DEF IInv, TypeOK, NonceInv, Consume, Holding
  <1>2. TypeOK'
    BY <1>1 DEF IInv, Consume, TypeOK, Goto
  <1>3. NonceInv'
    <2>1. \A q \in Requests \ {r} : Holding(q)' <=> Holding(q)
      BY DEF IInv, TypeOK, Consume, Goto, Holding
    <2>2. \A q \in Requests : Holding(q) => signed[q][1] # n
      BY <1>1 DEF IInv, NonceInv
    <2>3. \A s \in DOMAIN sessions : sessions[s].nonce # n /\ sessions[s].nonce \in Nonces
      BY <1>1, RowType DEF IInv, NonceInv
    <2>4. \A m \in Nonces : nonce'[m] = IF m = n THEN "consumed" ELSE nonce[m]
      BY DEF IInv, TypeOK, Consume
    <2>5. \A q \in Requests : signed[q] # None => signed[q][1] \in Nonces
      BY DEF IInv, TypeOK
    <2>6. \A q \in Requests : pc'[q] = "validated" => pc[q] = "validated"
      BY DEF IInv, TypeOK, Consume, Goto
    <2>7. signed' = signed /\ sessions' = sessions /\ signed[r] # None
      BY DEF IInv, NonceInv, Consume
    <2> HIDE DEF n
    <2>8. \A q \in Requests : Holding(q)' => signed'[q] # None /\ nonce'[signed'[q][1]] = "consumed"
      <3>1. nonce'[signed[r][1]] = "consumed"
        BY <1>1, <2>4 DEF n
      <3> QED BY <2>1, <2>2, <2>4, <2>5, <2>7, <3>1 DEF IInv, NonceInv
    <2>9. \A q \in Requests \ {r} : Holding(q)' => signed[q][1] # signed[r][1]
      BY <2>1, <2>2 DEF n
    <2>10. \A s \in DOMAIN sessions : nonce'[sessions[s].nonce] = "consumed"
      BY <2>3, <2>4 DEF IInv, NonceInv
    <2>11. \A s \in DOMAIN sessions, q \in Requests :
             Holding(q)' => sessions[s].nonce # signed[q][1]
      BY <2>1, <2>3 DEF IInv, NonceInv, n
    <2>12. \A p, q \in Requests :
             Holding(p)' /\ Holding(q)' /\ signed[p][1] = signed[q][1] => p = q
      BY <2>1, <2>9 DEF IInv, NonceInv
    <2> QED BY <2>6, <2>7, <2>8, <2>10, <2>11, <2>12 DEF IInv, NonceInv, NonceSignsInOnce
  <1>4. OwnerInv'
    BY DEF IInv, TypeOK, OwnerInv, OneUserPerWallet, Owner, Consume, Goto
  <1> QED BY <1>2, <1>3, <1>4 DEF IInv

LEMMA FindOwnerInv ==
    ASSUME IInv, NEW r \in Requests, FindOwner(r)
    PROVE  IInv'
  <1>1. TypeOK'
    BY DEF IInv, NonceInv, Holding, FindOwner, Own, Owner, Goto, TypeOK, tables
  <1>2. NonceInv'
    <2>1. \A q \in Requests : Holding(q)' <=> Holding(q)
      BY DEF IInv, TypeOK, FindOwner, Own, Goto, Holding
    <2>2. \A q \in Requests : pc'[q] = "validated" => pc[q] = "validated"
      BY DEF IInv, TypeOK, FindOwner, Own, Goto
    <2> QED BY <2>1, <2>2, MoveInv DEF IInv, FindOwner, Own, tables
  <1>3. OwnerInv'
    BY DEF IInv, TypeOK, OwnerInv, OneUserPerWallet, Owner, FindOwner, Own, Goto, tables
  <1> QED BY <1>1, <1>2, <1>3 DEF IInv

\* A step that only moves a request within its sign-in.
LEMMA GotoInv ==
    ASSUME IInv, NEW r \in Requests, NEW where \in {"unowned", "inserting", "conflict"},
           Holding(r), Goto(r, where),
           UNCHANGED <<tables, late, signed, user, session, expiries>>
    PROVE  IInv'
  <1>1. TypeOK'
    BY DEF IInv, Goto, TypeOK, tables
  <1>2. NonceInv'
    <2>1. \A q \in Requests : Holding(q)' <=> Holding(q)
      BY DEF IInv, TypeOK, Goto, Holding
    <2>2. \A q \in Requests : pc'[q] = "validated" => pc[q] = "validated"
      BY DEF IInv, TypeOK, Goto
    <2> QED BY <2>1, <2>2, MoveInv DEF IInv, tables
  <1>3. OwnerInv'
    BY DEF IInv, TypeOK, OwnerInv, OneUserPerWallet, Owner, Goto, tables
  <1> QED BY <1>1, <1>2, <1>3 DEF IInv

LEMMA InsertUserInv ==
    ASSUME IInv, NEW r \in Requests, InsertUser(r)
    PROVE  IInv'
  <1> PICK id \in Users \ users :
        /\ users' = users \cup {id}
        /\ owner' = [owner EXCEPT ![signed[r][2]] = id]
        /\ Own(r, id)
    BY DEF InsertUser
  <1> DEFINE w == signed[r][2]
  <1>1. w \in Wallets /\ owner[w] = None /\ id # None
    BY SignInAssumption DEF IInv, TypeOK, NonceInv, Holding, InsertUser, Owner
  <1>2. UNCHANGED <<nonce, late, sessions, expiries, signed, session>>
    BY DEF InsertUser, Own
  <1>3. pc' = [pc EXCEPT ![r] = "owned"] /\ user' = [user EXCEPT ![r] = id]
        /\ pc[r] = "inserting"
    BY DEF InsertUser, Own, Goto
  <1>4. TypeOK'
    BY <1>1, <1>2, <1>3 DEF IInv, TypeOK
  <1>5. NonceInv'
    <2>1. \A q \in Requests : Holding(q)' <=> Holding(q)
      BY <1>3 DEF IInv, TypeOK, Holding
    <2>2. \A q \in Requests : pc'[q] = "validated" => pc[q] = "validated"
      BY <1>3 DEF IInv, TypeOK
    <2> QED BY <1>2, <2>1, <2>2, MoveInv DEF IInv
  <1>6. \A v \in Wallets : owner'[v] = IF v = w THEN id ELSE owner[v]
    BY DEF IInv, TypeOK
  <1>7. \A q \in Requests : pc[q] = "owned" => signed[q][2] \in Wallets /\ signed[q][2] # w
    BY <1>1 DEF IInv, TypeOK, NonceInv, Holding, OwnerInv, Owner
  <1>8. OwnerInv'
    <2>1. \A q \in Requests : pc'[q] = "owned" => user'[q] # None /\ user'[q] = owner'[signed[q][2]]
      BY <1>1, <1>3, <1>6, <1>7 DEF IInv, TypeOK, OwnerInv, Owner
    <2>2. \A q \in Requests : pc'[q] = "leaving" => session'[q] \in DOMAIN sessions'
      BY <1>2, <1>3 DEF IInv, TypeOK, OwnerInv
    <2>3. \A v \in Wallets : owner'[v] # None => owner'[v] \in users'
      BY <1>6 DEF IInv, OwnerInv
    <2>4. \A s \in DOMAIN sessions' : sessions'[s].user = owner'[sessions'[s].wallet]
      <3>1. \A s \in DOMAIN sessions : sessions[s].wallet # w
        BY <1>1, RowType, SignInAssumption DEF IInv, OwnerInv, OneUserPerWallet
      <3>2. \A s \in DOMAIN sessions : sessions[s].wallet \in Wallets
        BY RowType DEF IInv
      <3> QED BY <1>2, <1>6, <3>1, <3>2 DEF IInv, OwnerInv, OneUserPerWallet
    <2>5. \A x \in users' : \E v \in Wallets : owner'[v] = x
      <3>1. ASSUME NEW x \in users
            PROVE  \E v \in Wallets : owner'[v] = x
        <4> PICK v \in Wallets : owner[v] = x
          BY DEF IInv, OwnerInv, OneUserPerWallet
        <4>1. x # None
          BY SignInAssumption DEF IInv, TypeOK
        <4> QED BY <1>1, <1>6, <4>1
      <3> QED BY <1>1, <1>6, <3>1
    <2>6. \A u, v \in Wallets : owner'[u] = owner'[v] /\ owner'[u] # None => u = v
      BY <1>6 DEF IInv, OwnerInv, OneUserPerWallet
    <2> HIDE DEF w
    <2> QED BY <1>2, <2>1, <2>2, <2>3, <2>4, <2>5, <2>6 DEF OwnerInv, OneUserPerWallet, Owner
  <1> QED BY <1>4, <1>5, <1>8 DEF IInv

LEMMA InsertSessionInv ==
    ASSUME IInv, NEW r \in Requests, InsertSession(r)
    PROVE  IInv'
  <1> DEFINE n == signed[r][1]
             w == signed[r][2]
             new == [nonce |-> n, wallet |-> w, user |-> user[r],
                     expired |-> FALSE, revoked |-> FALSE]
  <1>1. n \in Nonces /\ w \in Wallets /\ user[r] \in Users /\ user[r] = owner[w]
        /\ nonce[n] = "consumed" /\ Holding(r)
    BY DEF IInv, TypeOK, NonceInv, Holding, OwnerInv, InsertSession, Owner
  <1>2. sessions' = Append(sessions, new) /\ Return(r)
        /\ UNCHANGED <<nonce, late, users, owner, expiries>>
    BY DEF InsertSession
  <1>3. new \in Row /\ new.nonce = n /\ new.wallet = w /\ new.user = user[r]
    BY <1>1 DEF Row
  <1> HIDE DEF new
  <1>4. /\ sessions' \in Seq(Row)
        /\ DOMAIN sessions' = DOMAIN sessions \cup {Len(sessions) + 1}
        /\ Len(sessions) + 1 \notin DOMAIN sessions
        /\ \A s \in DOMAIN sessions : sessions'[s] = sessions[s]
        /\ sessions'[Len(sessions) + 1] = new
    BY <1>2, <1>3, AppendProperties DEF IInv, TypeOK
  <1>5. TypeOK'
    BY <1>2, <1>4 DEF IInv, TypeOK, Return, Goto
  <1>6. \A q \in Requests : Holding(q)' => q # r /\ Holding(q) /\ signed'[q] = signed[q]
    BY <1>2 DEF Return, Goto, Holding, IInv, TypeOK
  <1>7. NonceInv'
    <2>1. \A q \in Requests : pc'[q] = "validated" => pc[q] = "validated" /\ signed'[q] = signed[q]
      BY <1>2 DEF Return, Goto, IInv, TypeOK
    <2>2. \A q \in Requests : pc'[q] = "validated" \/ Holding(q)' => signed'[q] # None
      BY <1>6, <2>1 DEF IInv, NonceInv
    <2>3. \A q \in Requests : Holding(q)' => signed'[q][1] # n
      BY <1>1, <1>6 DEF IInv, NonceInv
    <2>4. \A s \in DOMAIN sessions : sessions[s].nonce # n
      BY <1>1 DEF IInv, NonceInv
    <2>5. \A s \in DOMAIN sessions' : nonce'[sessions'[s].nonce] = "consumed"
      BY <1>1, <1>2, <1>3, <1>4 DEF IInv, NonceInv
    <2>6. \A s \in DOMAIN sessions', q \in Requests :
            Holding(q)' => sessions'[s].nonce # signed'[q][1]
      BY <1>3, <1>4, <1>6, <2>3 DEF IInv, NonceInv
    <2>7. NonceSignsInOnce'
      BY <1>3, <1>4, <2>4 DEF IInv, NonceInv, NonceSignsInOnce
    <2> HIDE DEF n
    <2> QED BY <1>2, <1>6, <2>2, <2>5, <2>6, <2>7 DEF IInv, NonceInv
  <1>8. OwnerInv'
    <2>1. \A q \in Requests : pc'[q] = "owned" => user'[q] # None /\ user'[q] = owner'[signed'[q][2]]
      BY <1>2 DEF Return, Goto, IInv, TypeOK, OwnerInv, Owner
    <2>2. \A q \in Requests : pc'[q] = "leaving" => session'[q] \in DOMAIN sessions'
      BY <1>2, <1>4 DEF Return, Goto, IInv, TypeOK, OwnerInv
    <2>3. \A s \in DOMAIN sessions' : sessions'[s].user = owner'[sessions'[s].wallet]
      BY <1>1, <1>2, <1>3, <1>4 DEF IInv, OwnerInv, OneUserPerWallet
    <2> QED BY <1>2, <2>1, <2>2, <2>3 DEF IInv, OwnerInv, OneUserPerWallet, Owner
  <1> QED BY <1>5, <1>7, <1>8 DEF IInv

\* A row that only gets a mark.
LEMMA MarkInv ==
    ASSUME IInv, NEW s \in DOMAIN sessions,
           \/ sessions' = [sessions EXCEPT ![s].revoked = TRUE]
           \/ sessions' = [sessions EXCEPT ![s].expired = TRUE]
    PROVE  /\ sessions' \in Seq(Row)
           /\ DOMAIN sessions' = DOMAIN sessions
           /\ \A t \in DOMAIN sessions :
                /\ sessions'[t].nonce = sessions[t].nonce
                /\ sessions'[t].wallet = sessions[t].wallet
                /\ sessions'[t].user = sessions[t].user
  <1>1. sessions \in Seq(Row) /\ \A t \in DOMAIN sessions : sessions[t] \in Row
    BY RowType DEF IInv, TypeOK
  <1>2. \A x \in Row : [x EXCEPT !.revoked = TRUE] \in Row /\ [x EXCEPT !.expired = TRUE] \in Row
    BY DEF Row
  <1>3. PICK x \in Row : /\ sessions' = [sessions EXCEPT ![s] = x]
                         /\ x.nonce = sessions[s].nonce
                         /\ x.wallet = sessions[s].wallet
                         /\ x.user = sessions[s].user
    <2>1. CASE sessions' = [sessions EXCEPT ![s].revoked = TRUE]
      <3>1. [sessions[s] EXCEPT !.revoked = TRUE] \in Row
        BY <1>1, <1>2
      <3> QED BY <1>1, <2>1, <3>1 DEF Row
    <2>2. CASE sessions' = [sessions EXCEPT ![s].expired = TRUE]
      <3>1. [sessions[s] EXCEPT !.expired = TRUE] \in Row
        BY <1>1, <1>2
      <3> QED BY <1>1, <2>2, <3>1 DEF Row
    <2> QED BY <2>1, <2>2
  <1>4. sessions' \in Seq(Row) /\ DOMAIN sessions' = DOMAIN sessions
    BY <1>1, <1>3, ExceptSeq
  <1> QED BY <1>1, <1>3, <1>4

LEMMA RevokeInv ==
    ASSUME IInv, NEW r \in Requests, Revoke(r)
    PROVE  IInv'
  <1>1. session[r] \in DOMAIN sessions
    BY DEF IInv, OwnerInv, Revoke
  <1>2. sessions' = [sessions EXCEPT ![session[r]].revoked = TRUE]
        /\ Return(r) /\ UNCHANGED <<nonce, late, users, owner, expiries>>
    BY DEF Revoke
  <1>3. /\ sessions' \in Seq(Row)
        /\ DOMAIN sessions' = DOMAIN sessions
        /\ \A t \in DOMAIN sessions :
             /\ sessions'[t].nonce = sessions[t].nonce
             /\ sessions'[t].wallet = sessions[t].wallet
             /\ sessions'[t].user = sessions[t].user
    BY <1>1, <1>2, MarkInv
  <1>4. TypeOK'
    BY <1>2, <1>3 DEF IInv, TypeOK, Return, Goto
  <1>5. \A q \in Requests : Holding(q)' => q # r /\ Holding(q) /\ signed'[q] = signed[q]
    BY <1>2 DEF Return, Goto, Holding, IInv, TypeOK
  <1>6. NonceInv'
    <2>1. \A q \in Requests : pc'[q] = "validated" => pc[q] = "validated" /\ signed'[q] = signed[q]
      BY <1>2 DEF Return, Goto, IInv, TypeOK
    <2> QED BY <1>2, <1>3, <1>5, <2>1 DEF IInv, NonceInv, NonceSignsInOnce
  <1>7. OwnerInv'
    BY <1>2, <1>3 DEF Return, Goto, IInv, TypeOK, OwnerInv, OneUserPerWallet, Owner
  <1> QED BY <1>4, <1>6, <1>7 DEF IInv

LEMMA ExpireSessionInv ==
    ASSUME IInv, NEW s \in DOMAIN sessions, ExpireSession(s)
    PROVE  IInv'
  <1>1. /\ sessions' \in Seq(Row)
        /\ DOMAIN sessions' = DOMAIN sessions
        /\ \A t \in DOMAIN sessions :
             /\ sessions'[t].nonce = sessions[t].nonce
             /\ sessions'[t].wallet = sessions[t].wallet
             /\ sessions'[t].user = sessions[t].user
    BY MarkInv DEF ExpireSession
  <1>2. TypeOK'
    BY <1>1, SignInAssumption DEF IInv, TypeOK, ExpireSession, request
  <1>3. NonceInv' /\ OwnerInv'
    <2>1. UNCHANGED <<nonce, users, owner, pc, signed, user, session>>
      BY DEF ExpireSession, request
    <2> QED BY <1>1, <2>1
            DEF IInv, NonceInv, NonceSignsInOnce, Holding, OwnerInv, OneUserPerWallet, Owner
  <1> QED BY <1>2, <1>3 DEF IInv

LEMMA EnterInv ==
    ASSUME IInv, NEW r \in Requests, NEW s \in DOMAIN sessions, Enter(r, s)
    PROVE  IInv'
  <1>1. s \in Nat
    BY DEF IInv, TypeOK
  <1>2. TypeOK'
    BY <1>1 DEF IInv, TypeOK, Enter, Goto, tables
  <1>3. NonceInv'
    <2>1. \A q \in Requests : Holding(q)' <=> Holding(q)
      BY DEF IInv, TypeOK, Enter, Goto, Holding
    <2>2. \A q \in Requests : pc'[q] = "validated" => pc[q] = "validated"
      BY DEF IInv, TypeOK, Enter, Goto
    <2> QED BY <2>1, <2>2, MoveInv DEF IInv, Enter, tables
  <1>4. OwnerInv'
    BY DEF IInv, TypeOK, OwnerInv, OneUserPerWallet, Owner, Enter, Goto, tables
  <1> QED BY <1>2, <1>3, <1>4 DEF IInv

LEMMA NextInv ==
    ASSUME IInv, [Next]_vars
    PROVE  IInv'
  <1>1. ASSUME NEW n \in Nonces, ExpireNonce(n)
        PROVE  IInv'
    <2>1. TypeOK'
      BY <1>1, SignInAssumption DEF IInv, TypeOK, ExpireNonce, tables, request
    <2> QED BY <1>1, <2>1 DEF IInv, NonceInv, NonceSignsInOnce, Holding, OwnerInv,
                             OneUserPerWallet, Owner, ExpireNonce, tables, request
  <1>2. ASSUME NEW r \in Requests, Replayed(r) \/ Abort(r)
        PROVE  IInv'
    BY <1>2, ReturnInv DEF IInv, Replayed, Abort
  <1>3. ASSUME NEW r \in Requests, FindNoOwner(r)
        PROVE  IInv'
    BY <1>3, GotoInv DEF FindNoOwner, Holding
  <1>4. ASSUME NEW r \in Requests, LoseInsert(r)
        PROVE  IInv'
    <2>1. \/ Goto(r, "conflict") /\ UNCHANGED <<signed, user, session>>
          \/ Return(r)
      BY <1>4 DEF LoseInsert
    <2>2. Holding(r) /\ UNCHANGED <<tables, late, expiries>>
      BY <1>4 DEF LoseInsert, Holding
    <2> QED BY <2>1, <2>2, GotoInv, ReturnInv DEF IInv
  <1>5. CASE UNCHANGED vars
    BY <1>5 DEF vars, request, IInv, TypeOK, NonceInv, NonceSignsInOnce, Holding,
               OwnerInv, OneUserPerWallet, Owner
  <1> QED BY <1>1, <1>2, <1>3, <1>4, <1>5, IssueNonceInv, ValidateInv, ConsumeInv,
             FindOwnerInv, InsertUserInv, InsertSessionInv, RevokeInv, ExpireSessionInv,
             EnterInv DEF Next

LEMMA InitInv == Init => IInv
  <1> SUFFICES ASSUME Init PROVE IInv
    OBVIOUS
  <1>1. sessions = <<>> /\ sessions \in Seq(Row) /\ DOMAIN sessions = {}
    BY DEF Init
  <1>2. TypeOK
    BY <1>1, SignInAssumption DEF Init, TypeOK
  <1>3. NonceInv /\ OwnerInv
    BY <1>1 DEF Init, NonceInv, NonceSignsInOnce, Holding, OwnerInv, OneUserPerWallet
  <1> QED BY <1>2, <1>3 DEF IInv

LEMMA Invariance == Spec => []IInv
  BY InitInv, NextInv, PTL DEF Spec

\* The variables keep their types, for every set of requests and nonces.
THEOREM TypeCorrect == Spec => []TypeOK
  <1>1. IInv => TypeOK
    BY DEF IInv
  <1> QED BY <1>1, Invariance, PTL

\* Whatever requests do side by side, the guarded update of the nonce
\* (routes/auth.ts:130) lets one of them sign in with it.
THEOREM NoncesAreSpentOnce == Spec => []NonceSignsInOnce
  <1>1. IInv => NonceSignsInOnce
    BY DEF IInv, NonceInv
  <1> QED BY <1>1, Invariance, PTL

\* However first sign-ins of a wallet race and whichever of them fail, the
\* wallet has one user and every session of it is that user's
\* (auth-repository.ts:253).
THEOREM WalletsHaveOneUser == Spec => []OneUserPerWallet
  <1>1. IInv => OneUserPerWallet
    BY DEF IInv, OwnerInv
  <1> QED BY <1>1, Invariance, PTL
===============================================================================
