--------------------------- MODULE Access_proofs ---------------------------
(* Proofs about module Access: what was handed out before an account's     *)
(* secrets were revoked is dead, a replayed refresh token ends its family, *)
(* a superadministrator remains, and who is served is employed.            *)
EXTENDS Access, FiniteSetTheorems, TLAPS

-----------------------------------------------------------------------------
(* Types.                                                                  *)
States      == {"absent", "invited", "active", "disabled"}
SessionRows == [owner : Accounts, epoch : Nat]
InviteRows  == [to : Accounts, by : Accounts, epoch : Nat]
RequestRows == [owner : Accounts, epoch : Nat, password : Nat]

AccountTypes ==
    /\ mode \in Modes
    /\ role \in [Accounts -> Roles] /\ status \in [Accounts -> States]
    /\ password \in [Accounts -> Nat]
    /\ sessions \subseteq SessionRows /\ invitations \subseteq InviteRows
    /\ requests \subseteq RequestRows
    /\ epoch \in [Accounts -> Nat] /\ sealed \in [Accounts -> Nat]

CodeRows  == [state : {"none", "pending", "unused", "used"}, owner : Accounts \cup {Nobody},
              epoch : Nat]
GrantRows == [code : Codes \cup {Nobody}, owner : Accounts \cup {Nobody}, epoch : Nat,
              revoked : BOOLEAN, minted : Nat, used : SUBSET Nat, access : SUBSET Nat]

TokenTypes ==
    /\ code \in [Codes -> CodeRows] /\ grant \in [Grants -> GrantRows]
    /\ replayed \subseteq Grants
    /\ DOMAIN call = Calls

IdentityRows == [linked : BOOLEAN, enabled : BOOLEAN, verified_at : Nat, read : Nat]
TreeRows     == [until : Nat, at : Nat, ok : BOOLEAN]
ThreadRows   == [pc : {"idle", "tree", "asking", "save", "mint"}, kind : {"none", "login", "refresh"},
                 who : Employees \cup {Nobody}, active : BOOLEAN, started : Nat, at : Nat,
                 visible : BOOLEAN, expected : Nat]

DirectoryTypes ==
    /\ identity \in [Accounts -> IdentityRows]
    /\ tree \in [Processes -> TreeRows] /\ thread \in [Processes -> ThreadRows]
    /\ \A n \in Processes : thread[n].pc # "idle" => thread[n].who \in Employees
    /\ left \in [Accounts -> Nat] /\ dropped \in Nat /\ now \in 0 .. MaxNow

TypeOK == AccountTypes /\ TokenTypes /\ DirectoryTypes

(* What the middleware let through is about an account and its secrets.    *)
LEMMA AdmittedTypes ==
    ASSUME AccountTypes
    PROVE  /\ Admitted \subseteq RequestRows
           /\ \A q \in Admitted : q.owner \in Accounts /\ q.epoch \in Nat /\ q.password \in Nat
BY DEF Admitted, Arriving, AccountTypes, RequestRows, SessionRows

LEMMA RowTypes ==
    /\ \A p \in Accounts, e \in Nat : Session(p, e) \in SessionRows
    /\ \A i \in InviteRows : i.to \in Accounts /\ i.by \in Accounts /\ i.epoch \in Nat
    /\ \A s \in SessionRows : s.owner \in Accounts /\ s.epoch \in Nat
BY DEF Session, SessionRows, InviteRows

LEMMA IssuedTypes ==
    ASSUME AccountTypes, NEW p \in Accounts, NEW actor \in Accounts
    PROVE  Issued(p, actor) \subseteq InviteRows
BY DEF Issued, Others, AccountTypes, InviteRows

(* The variables of a part that a step leaves alone keep their types.      *)
LEMMA FrameTypes ==
    ASSUME TypeOK
    PROVE  /\ UNCHANGED <<code, grant, call, replayed>> => TokenTypes'
           /\ UNCHANGED <<identity, tree, thread, left, dropped, now>> => DirectoryTypes'
BY DEF TypeOK, TokenTypes, DirectoryTypes

(* revoke_sessions keeps the types, whatever sessions it opens.            *)
LEMMA RevokeTypes ==
    ASSUME TypeOK, NEW p \in Accounts, NEW opened \in SUBSET SessionRows,
           RevokeSessions(p, opened)
    PROVE  /\ epoch' \in [Accounts -> Nat] /\ sessions' \subseteq SessionRows
           /\ UNCHANGED <<call, replayed>> => TokenTypes'
<1>1. epoch' \in [Accounts -> Nat] /\ sessions' \subseteq SessionRows
  BY DEF RevokeSessions, TypeOK, AccountTypes
<1>2. ASSUME NEW c \in CodeRows PROVE [c EXCEPT !.state = "used"] \in CodeRows
  BY DEF CodeRows
<1>3. ASSUME NEW g \in GrantRows PROVE [g EXCEPT !.revoked = TRUE] \in GrantRows
  BY DEF GrantRows
<1>4. code' \in [Codes -> CodeRows]
  BY <1>2 DEF RevokeSessions, TypeOK, TokenTypes
<1>5. grant' \in [Grants -> GrantRows]
  BY <1>3 DEF RevokeSessions, TypeOK, TokenTypes
<1> QED
  BY <1>1, <1>4, <1>5 DEF TypeOK, TokenTypes

LEMMA AccountsType ==
    ASSUME TypeOK, AccountsNext
    PROVE  TypeOK'
<1> USE DEF rowVars, tokenVars, dingVars, Answer
<1> SUFFICES AccountTypes' /\ TokenTypes' /\ DirectoryTypes'
  BY DEF TypeOK
<1>a. AccountTypes
  BY DEF TypeOK
<1>1. ASSUME NEW p \in Accounts, Bootstrap(p) \/ PasswordLogin(p)
      PROVE  AccountTypes' /\ TokenTypes' /\ DirectoryTypes'
  <2>1. TokenTypes' /\ DirectoryTypes'
    BY <1>1, FrameTypes DEF Bootstrap, PasswordLogin
  <2> QED
    BY <1>1, <1>a, <2>1
       DEF Bootstrap, PasswordLogin, Roles, States, Session, SessionRows, AccountTypes
<1>2. ASSUME NEW q \in Admitted, Begin(q) \/ Refuse(q) \/ Logout(q)
      PROVE  AccountTypes' /\ TokenTypes' /\ DirectoryTypes'
  <2>1. TokenTypes' /\ DirectoryTypes'
    BY <1>2, FrameTypes DEF Begin, Refuse, Logout
  <2> QED
    BY <1>2, <1>a, <2>1, AdmittedTypes DEF Begin, Refuse, Logout, AccountTypes
<1>3. ASSUME NEW q \in Admitted, ChangePassword(q)
      PROVE  AccountTypes' /\ TokenTypes' /\ DirectoryTypes'
  <2> DEFINE p == q.owner
             opened == {Session(p, epoch[p] + 1)}
  <2>1. p \in Accounts /\ epoch[p] + 1 \in Nat /\ opened \in SUBSET SessionRows
    BY <1>a, AdmittedTypes DEF AccountTypes, Session, SessionRows
  <2>2. RevokeSessions(p, opened)
    BY <1>3 DEF ChangePassword
  <2>3. TokenTypes' /\ DirectoryTypes'
    BY <1>3, <2>1, <2>2, FrameTypes, RevokeTypes DEF ChangePassword
  <2> HIDE DEF p, opened
  <2> QED
    BY <1>3, <1>a, <2>1, <2>2, <2>3, RevokeTypes DEF ChangePassword, Others, AccountTypes, p
<1>4. ASSUME NEW q \in Admitted, NEW p \in Accounts, NEW r \in Roles, NEW o,
             Invite(q, p, r, o) \/ Resend(q, p)
      PROVE  AccountTypes' /\ TokenTypes' /\ DirectoryTypes'
  <2>1. TokenTypes' /\ DirectoryTypes'
    BY <1>4, FrameTypes DEF Invite, Resend
  <2>2. Issued(p, q.owner) \subseteq InviteRows
    BY <1>a, AdmittedTypes, IssuedTypes
  <2> QED
    BY <1>4, <1>a, <2>1, <2>2 DEF Invite, Resend, States, AccountTypes
<1>5. ASSUME NEW q \in Admitted, NEW p \in Accounts, NEW r \in Roles, NEW o \in Organizations,
             NEW active \in BOOLEAN, Update(q, p, r, o, active)
      PROVE  AccountTypes' /\ TokenTypes' /\ DirectoryTypes'
  <2>1. RevokeSessions(p, {})
    BY <1>5 DEF Update
  <2>2. sealed' \in [Accounts -> Nat] /\ invitations' \subseteq invitations
    BY <1>5, <1>a DEF Update, Others, AccountTypes
  <2>3. status' \in [Accounts -> States]
    BY <1>5, <1>a DEF Update, AccountTypes, States
  <2>4. role' \in [Accounts -> Roles] /\ requests' \subseteq requests
    BY <1>5, <1>a DEF Update, AccountTypes
  <2>5. UNCHANGED <<mode, password, call, replayed, dingVars>>
    BY <1>5 DEF Update
  <2> QED
    BY <1>a, <2>1, <2>2, <2>3, <2>4, <2>5, RevokeTypes, FrameTypes DEF AccountTypes
<1>6. ASSUME NEW i \in invitations, Activate(i)
      PROVE  AccountTypes' /\ TokenTypes' /\ DirectoryTypes'
  <2> DEFINE p == i.to
             opened == {Session(p, epoch[p] + 1)}
  <2>1. p \in Accounts /\ epoch[p] + 1 \in Nat /\ opened \in SUBSET SessionRows
    BY <1>a, RowTypes DEF AccountTypes
  <2>2. RevokeSessions(p, opened)
    BY <1>6 DEF Activate
  <2>3. TokenTypes' /\ DirectoryTypes'
    BY <1>6, <2>1, <2>2, FrameTypes, RevokeTypes DEF Activate
  <2> HIDE DEF opened
  <2> QED
    BY <1>6, <1>a, <2>1, <2>2, <2>3, RevokeTypes DEF Activate, States, AccountTypes
<1>7. ASSUME NEW q \in Admitted, Manage(q)
      PROVE  AccountTypes' /\ TokenTypes' /\ DirectoryTypes'
  <2>1. "user" \in Roles
    BY DEF Roles
  <2> QED
    BY <1>4, <1>5, <1>7, <2>1, Zenon DEF Manage
<1> QED
  BY <1>1, <1>2, <1>3, <1>6, <1>7 DEF AccountsNext

LEMMA TokensType ==
    ASSUME TypeOK, TokensNext
    PROVE  TypeOK'
<1> USE DEF authVars, rowVars, dingVars, Answer
<1>a. AccountTypes /\ TokenTypes /\ DirectoryTypes
  BY DEF TypeOK
<1>b. UNCHANGED authVars => DirectoryTypes' /\ (requests' \subseteq requests => AccountTypes')
  BY <1>a DEF AccountTypes, DirectoryTypes
<1> SUFFICES UNCHANGED authVars /\ requests' \subseteq requests /\ TokenTypes'
  BY <1>b DEF TypeOK
<1>1. ASSUME NEW c \in Codes, Authorize(c)
      PROVE  UNCHANGED authVars /\ requests' \subseteq requests /\ TokenTypes'
  BY <1>1, <1>a DEF Authorize, TokenTypes, CodeRows
<1>2. ASSUME NEW c \in Codes, NEW q \in Admitted, NEW approved \in BOOLEAN, Consent(q, c, approved)
      PROVE  UNCHANGED authVars /\ requests' \subseteq requests /\ TokenTypes'
  BY <1>2, <1>a, AdmittedTypes DEF Consent, TokenTypes, CodeRows
<1>3. ASSUME NEW c \in Codes, NEW k \in Calls, LoadCode(k, c)
      PROVE  UNCHANGED authVars /\ requests' \subseteq requests /\ TokenTypes'
  BY <1>3, <1>a DEF LoadCode, TokenTypes
<1>4. ASSUME NEW c \in Codes, NEW k \in Calls, NEW g \in Grants, ExchangeCode(k, c, g)
      PROVE  UNCHANGED authVars /\ requests' \subseteq requests /\ TokenTypes'
  <2>1. [code |-> c, owner |-> code[c].owner, epoch |-> code[c].epoch, revoked |-> FALSE,
         minted |-> 1, used |-> {}, access |-> {1}] \in GrantRows
    BY <1>a DEF TokenTypes, CodeRows, GrantRows
  <2>2. [code[c] EXCEPT !.state = "used"] \in CodeRows
    BY <1>a DEF TokenTypes, CodeRows
  <2> QED
    BY <1>4, <1>a, <2>1, <2>2 DEF ExchangeCode, TokenTypes
<1>5. ASSUME NEW k \in Calls, NEW g \in Grants, NEW n \in 1 .. MaxMint, LoadRefresh(k, g, n)
      PROVE  UNCHANGED authVars /\ requests' \subseteq requests /\ TokenTypes'
  <2>1. [grant[g] EXCEPT !.revoked = TRUE] \in GrantRows
    BY <1>a DEF TokenTypes, GrantRows
  <2> QED
    BY <1>5, <1>a, <2>1 DEF LoadRefresh, Replay, TokenTypes
<1>6. ASSUME NEW k \in Calls, NEW g \in Grants, NEW n \in 1 .. MaxMint, ExchangeRefresh(k, g, n)
      PROVE  UNCHANGED authVars /\ requests' \subseteq requests /\ TokenTypes'
  <2>1. [grant[g] EXCEPT !.revoked = TRUE] \in GrantRows
    BY <1>a DEF TokenTypes, GrantRows
  <2>2. [grant[g] EXCEPT !.used = @ \cup {n}, !.minted = @ + 1,
                         !.access = {grant[g].minted + 1}] \in GrantRows
    <3>1. /\ grant[g] \in GrantRows
          /\ grant[g].used \cup {n} \in SUBSET Nat /\ grant[g].minted + 1 \in Nat
          /\ {grant[g].minted + 1} \in SUBSET Nat
      BY <1>a, AccountsAssumption DEF TokenTypes, GrantRows
    <3>2. ASSUME NEW row \in GrantRows, NEW used \in SUBSET Nat, NEW minted \in Nat,
                 NEW access \in SUBSET Nat
          PROVE  [row EXCEPT !.used = used, !.minted = minted, !.access = access] \in GrantRows
      BY DEF GrantRows
    <3> QED
      BY <3>1, <3>2
  <2>3. grant' \in [Grants -> GrantRows]
    BY <1>6, <1>a, <2>1, <2>2 DEF ExchangeRefresh, Replayed, Replay, TokenTypes
  <2> QED
    BY <1>6, <1>a, <2>3 DEF ExchangeRefresh, Replayed, Replay, TokenTypes
<1>7. ASSUME NEW k \in Calls, Fail(k)
      PROVE  UNCHANGED authVars /\ requests' \subseteq requests /\ TokenTypes'
  BY <1>7, <1>a DEF Fail, TokenTypes
<1>8. ASSUME NEW g \in Grants, RevokeToken(g)
      PROVE  UNCHANGED authVars /\ requests' \subseteq requests /\ TokenTypes'
  <2>1. [grant[g] EXCEPT !.revoked = TRUE] \in GrantRows
    BY <1>a DEF TokenTypes, GrantRows
  <2> QED
    BY <1>8, <1>a, <2>1 DEF RevokeToken, TokenTypes
<1> QED
  BY <1>1, <1>2, <1>3, <1>4, <1>5, <1>6, <1>7, <1>8 DEF TokensNext

LEMMA IdleThread == Idle \in ThreadRows /\ Idle.pc = "idle"
BY DEF ThreadRows, Idle

(* What save writes about an employee.                                     *)
LEMMA SavedTypes ==
    ASSUME DirectoryTypes, NEW n \in Processes, thread[n].pc # "idle"
    PROVE  /\ thread[n].who \in Employees /\ thread[n].who \in Accounts
           /\ \A enabled \in BOOLEAN :
                 [linked |-> TRUE, enabled |-> enabled, verified_at |-> Evidence(n),
                  read |-> thread[n].started] \in IdentityRows
           /\ [identity[thread[n].who] EXCEPT !.enabled = FALSE, !.verified_at = now,
                                             !.read = thread[n].started] \in IdentityRows
<1>1. thread[n].who \in Employees /\ thread[n].who \in Accounts
  BY AccountsAssumption DEF DirectoryTypes
<1>2. thread[n].started \in Nat /\ thread[n].at \in Nat /\ now \in Nat
  BY AccountsAssumption DEF DirectoryTypes, ThreadRows
<1>3. Evidence(n) \in Nat
  BY <1>2 DEF Evidence, Earlier
<1> QED
  BY <1>1, <1>2, <1>3 DEF DirectoryTypes, IdentityRows

LEMMA DirectoryType ==
    ASSUME TypeOK, DirectoryNext
    PROVE  TypeOK'
<1> USE AccountsAssumption DEF baseVars, worldVars, rowVars, tokenVars
<1>a. AccountTypes /\ TokenTypes /\ DirectoryTypes
  BY DEF TypeOK
<1>b. UNCHANGED <<mode, requests, tokenVars, role, password, invitations, epoch, sealed>>
         /\ sessions' \subseteq SessionRows /\ status' \in [Accounts -> States]
      => AccountTypes' /\ TokenTypes'
  BY <1>a DEF AccountTypes, TokenTypes
<1>c. now \in Nat /\ MaxNow \in Nat
  BY <1>a DEF DirectoryTypes
<1> SUFFICES AccountTypes' /\ TokenTypes' /\ DirectoryTypes'
  BY DEF TypeOK
<1>1. ASSUME NEW n \in Processes, NEW p \in Employees, Identify(n, p) \/ Recheck(n, p)
      PROVE  AccountTypes' /\ TokenTypes' /\ DirectoryTypes'
  <2>1. PICK row \in ThreadRows : row.who = p /\ thread' = [thread EXCEPT ![n] = row]
    <3>1. CASE Identify(n, p)
      <4> DEFINE row == [Idle EXCEPT !.pc = "tree", !.kind = "login", !.who = p, !.active = TRUE,
                                     !.started = now]
      <4>1. row \in ThreadRows /\ row.who = p
        BY <1>c DEF Idle, ThreadRows
      <4> QED
        BY <3>1, <4>1 DEF Identify
    <3>2. CASE Recheck(n, p)
      <4> DEFINE row == [Idle EXCEPT !.pc = "tree", !.kind = "refresh", !.who = p,
                                     !.active = (left[p] = Never), !.started = now,
                                     !.expected = identity[p].verified_at]
      <4>1. identity[p].verified_at \in Nat
        BY <1>a DEF DirectoryTypes, IdentityRows
      <4>2. row \in ThreadRows /\ row.who = p
        BY <1>c, <4>1 DEF Idle, ThreadRows
      <4> QED
        BY <3>2, <4>2 DEF Recheck
    <3> QED
      BY <1>1, <3>1, <3>2
  <2>2. UNCHANGED <<baseVars, rowVars, sessions, invitations, epoch, sealed, identity, tree, worldVars>>
    BY <1>1 DEF Identify, Recheck
  <2> QED
    BY <1>a, <1>b, <2>1, <2>2 DEF DirectoryTypes, AccountTypes
<1>2. ASSUME NEW n \in Processes, CachedTree(n) \/ AskTree(n) \/ GetTree(n) \/ Unanswered(n)
      PROVE  AccountTypes' /\ TokenTypes' /\ DirectoryTypes'
  <2>0. thread[n] \in ThreadRows /\ tree[n] \in TreeRows
    BY <1>a DEF DirectoryTypes
  <2>1. UNCHANGED <<baseVars, rowVars, sessions, invitations, epoch, sealed, identity, worldVars>>
    BY <1>2 DEF CachedTree, AskTree, GetTree, Unanswered
  <2>2. tree' \in [Processes -> TreeRows]
    <3>1. [until |-> now + RefreshTicks, at |-> thread[n].at, ok |-> thread[n].visible] \in TreeRows
      BY <2>0, <1>c DEF TreeRows, ThreadRows
    <3> QED
      BY <1>2, <1>a, <3>1 DEF CachedTree, AskTree, GetTree, Unanswered, DirectoryTypes
  <2>3. PICK row \in ThreadRows : /\ row.pc # "idle" => row.who = thread[n].who
                                  /\ thread' = [thread EXCEPT ![n] = row]
    <3>1. CASE CachedTree(n)
      <4> DEFINE row == [thread[n] EXCEPT !.pc = "save", !.at = tree[n].at, !.visible = tree[n].ok]
      <4>1. row \in ThreadRows /\ row.who = thread[n].who
        BY <2>0 DEF TreeRows, ThreadRows
      <4>2. thread' = [thread EXCEPT ![n] = row]
        BY <3>1 DEF CachedTree
      <4> QED
        BY <4>1, <4>2
    <3>2. CASE AskTree(n)
      <4> DEFINE row == [thread[n] EXCEPT !.pc = "asking", !.at = now, !.visible = (dropped = Never)]
      <4>1. row \in ThreadRows /\ row.who = thread[n].who
        BY <2>0, <1>c DEF ThreadRows
      <4>2. thread' = [thread EXCEPT ![n] = row]
        BY <3>2 DEF AskTree
      <4> QED
        BY <4>1, <4>2
    <3>3. CASE GetTree(n)
      <4> DEFINE row == [thread[n] EXCEPT !.pc = "save"]
      <4>1. row \in ThreadRows /\ row.who = thread[n].who
        BY <2>0 DEF ThreadRows
      <4>2. thread' = [thread EXCEPT ![n] = row]
        BY <3>3 DEF GetTree
      <4> QED
        BY <4>1, <4>2
    <3>4. CASE Unanswered(n)
      BY <3>4, IdleThread DEF Unanswered, Forget
    <3> QED
      BY <1>2, <3>1, <3>2, <3>3, <3>4
  <2>4. thread[n].pc # "idle"
    BY <1>2 DEF CachedTree, AskTree, GetTree, Unanswered
  <2> QED
    BY <1>a, <1>b, <2>1, <2>2, <2>3, <2>4 DEF DirectoryTypes, AccountTypes
<1>d. ASSUME NEW n \in Processes, Forget(n)
      PROVE  /\ thread' \in [Processes -> ThreadRows]
             /\ \A m \in Processes : thread'[m].pc # "idle" => thread'[m].who \in Employees
  BY <1>d, <1>a, IdleThread DEF Forget, DirectoryTypes
<1>3. ASSUME NEW n \in Processes, SaveLogin(n)
      PROVE  AccountTypes' /\ TokenTypes' /\ DirectoryTypes'
  <2> DEFINE p == thread[n].who
  <2>1. p \in Employees /\ p \in Accounts
    BY <1>3, <1>a, SavedTypes DEF SaveLogin
  <2>2. /\ UNCHANGED <<baseVars, role, creator, organization, password, must_change, sessions,
                       invitations, epoch, sealed, tree, worldVars>>
    BY <1>3 DEF SaveLogin
  <2>3. CASE /\ status' = [status EXCEPT ![p] = "active"] /\ Saved(n, TRUE)
             /\ thread' = [thread EXCEPT ![n].pc = "mint"]
    <3>1. identity' \in [Accounts -> IdentityRows]
      BY <1>3, <1>a, <2>3, SavedTypes DEF SaveLogin, Saved, DirectoryTypes
    <3>2. [thread[n] EXCEPT !.pc = "mint"] \in ThreadRows
      BY <1>a DEF DirectoryTypes, ThreadRows
    <3>3. /\ thread' \in [Processes -> ThreadRows]
          /\ \A m \in Processes : thread'[m].pc # "idle" => thread'[m].who \in Employees
      BY <1>3, <1>a, <2>1, <2>3, <3>2 DEF DirectoryTypes, ThreadRows
    <3>4. status' \in [Accounts -> States]
      BY <1>a, <2>1, <2>3 DEF AccountTypes, States
    <3> QED
      BY <1>a, <1>b, <2>2, <3>1, <3>3, <3>4 DEF DirectoryTypes, AccountTypes
  <2>4. CASE Forget(n) /\ UNCHANGED <<status, identity>>
    BY <1>a, <1>b, <1>d, <2>2, <2>4 DEF DirectoryTypes, AccountTypes
  <2> QED
    BY <1>3, <2>3, <2>4 DEF SaveLogin
<1>4. ASSUME NEW n \in Processes, Mint(n)
      PROVE  AccountTypes' /\ TokenTypes' /\ DirectoryTypes'
  <2> DEFINE p == thread[n].who
  <2>1. p \in Accounts /\ Session(p, epoch[p]) \in SessionRows
    BY <1>4, <1>a, SavedTypes DEF Mint, AccountTypes, Session, SessionRows
  <2>2. sessions' \subseteq SessionRows
    BY <1>4, <1>a, <2>1 DEF Mint, AccountTypes
  <2> QED
    BY <1>4, <1>a, <1>b, <1>d, <2>2 DEF Mint, DirectoryTypes, AccountTypes
<1>5. ASSUME NEW n \in Processes, SaveRefresh(n)
      PROVE  AccountTypes' /\ TokenTypes' /\ DirectoryTypes'
  <2> DEFINE p == thread[n].who
  <2>1. p \in Accounts /\ thread[n].pc # "idle"
    BY <1>5, <1>a, SavedTypes DEF SaveRefresh
  <2>2. Forget(n) /\ UNCHANGED <<mode, requests, call, replayed, rowVars, invitations, sealed, tree,
                                 worldVars>>
    BY <1>5 DEF SaveRefresh
  <2>3. \/ UNCHANGED <<sessions, epoch, code, grant>>
        \/ RevokeSessions(p, {})
    BY <1>5 DEF SaveRefresh
  <2>4. identity' \in [Accounts -> IdentityRows]
    <3>1. \/ UNCHANGED identity \/ Saved(n, TRUE) \/ Saved(n, FALSE)
          \/ identity' = [identity EXCEPT ![p] = [@ EXCEPT !.enabled = FALSE, !.verified_at = now,
                                                          !.read = thread[n].started]]
      BY <1>5 DEF SaveRefresh
    <3>2. PICK row \in IdentityRows : UNCHANGED identity \/ identity' = [identity EXCEPT ![p] = row]
      BY <1>a, <2>1, <3>1, SavedTypes DEF Saved
    <3> QED
      BY <1>a, <3>2 DEF DirectoryTypes
  <2>5. /\ epoch' \in [Accounts -> Nat] /\ sessions' \subseteq SessionRows /\ TokenTypes'
    BY <1>a, <2>1, <2>2, <2>3, FrameTypes, RevokeTypes DEF AccountTypes
  <2> QED
    BY <1>a, <1>d, <2>2, <2>4, <2>5 DEF DirectoryTypes, AccountTypes
<1>6. ASSUME NEW p \in Employees, Leave(p)
      PROVE  AccountTypes' /\ TokenTypes' /\ DirectoryTypes'
  BY <1>6, <1>a, <1>b, <1>c DEF Leave, DirectoryTypes, AccountTypes
<1>7. ASSUME Drop \/ Tick
      PROVE  AccountTypes' /\ TokenTypes' /\ DirectoryTypes'
  BY <1>7, <1>a, <1>b, <1>c DEF Drop, Tick, DirectoryTypes, AccountTypes
<1> QED
  BY <1>1, <1>2, <1>3, <1>4, <1>5, <1>6, <1>7 DEF DirectoryNext, Ask

LEMMA InitType == Init => TypeOK
<1> SUFFICES ASSUME Init PROVE TypeOK
  OBVIOUS
<1> USE AccountsAssumption
<1>1. AccountTypes
  BY DEF Init, AccountTypes, Roles, States
<1>2. NoCode \in CodeRows /\ NoGrant \in GrantRows
  BY DEF NoCode, NoGrant, CodeRows, GrantRows
<1>3. TokenTypes
  BY <1>2 DEF Init, TokenTypes
<1>4. Unlinked \in IdentityRows /\ [until |-> 0, at |-> 0, ok |-> FALSE] \in TreeRows
      /\ MaxNow + 1 \in Nat
  BY DEF Unlinked, IdentityRows, TreeRows
<1>5. DirectoryTypes
  BY <1>4, IdleThread DEF Init, DirectoryTypes, Never
<1> QED
  BY <1>1, <1>3, <1>5 DEF TypeOK

(* Every variable keeps its type, by which the proofs below compute.       *)
THEOREM AccessTypesHold == Spec => []TypeOK
<1>1. TypeOK /\ [Next]_vars => TypeOK'
  <2>1. CASE UNCHANGED vars
    BY <2>1, FrameTypes
       DEF vars, rowVars, tokenVars, dingVars, TypeOK, AccountTypes
  <2> QED
    BY <2>1, AccountsType, TokensType, DirectoryType DEF Next
<1> QED
  BY InitType, <1>1, PTL DEF Spec

-----------------------------------------------------------------------------
(* Families of tokens.  The refresh tokens of a grant are spent in the     *)
(* order they were minted, so that only the last one can be; a request     *)
(* that loaded one before may still hold an earlier one.                   *)
Line(g) ==
    grant[g] # NoGrant =>
        /\ grant[g].code \in Codes /\ code[grant[g].code].state = "used"
        /\ grant[g].minted >= 1
        /\ grant[g].used = 1 .. (grant[g].minted - 1)
        /\ grant[g].access = {grant[g].minted}

OneGrantPerCode ==
    \A g, h \in Grants :
        grant[g] # NoGrant /\ grant[h] # NoGrant /\ grant[g].code = grant[h].code => g = h

LoadedWasMinted ==
    \A k \in Calls, g \in Grants, n \in 1 .. MaxMint :
        call[k] = <<"refresh", g, n>> => n <= grant[g].minted

ReplayedIsRevoked == \A g \in replayed : grant[g].revoked

FamiliesInv ==
    (\A g \in Grants : Line(g)) /\ OneGrantPerCode /\ LoadedWasMinted /\ ReplayedIsRevoked

(* A revocation, of one grant or of all of an account, changes nothing     *)
(* else of a grant.                                                        *)
SameLine(g) ==
    /\ grant'[g] = NoGrant <=> grant[g] = NoGrant
    /\ grant'[g].code = grant[g].code /\ grant'[g].minted = grant[g].minted
    /\ grant'[g].used = grant[g].used /\ grant'[g].access = grant[g].access
    /\ grant[g].revoked => grant'[g].revoked

LEMMA SameLines ==
    ASSUME TypeOK, FamiliesInv, \A g \in Grants : SameLine(g),
           \A c \in Codes : code[c].state = "used" => code'[c].state = "used",
           \A g \in replayed' : g \in replayed \/ grant'[g].revoked,
           \A k \in Calls, g \in Grants, n \in 1 .. MaxMint :
              call'[k] = <<"refresh", g, n>> => n <= grant[g].minted
    PROVE  FamiliesInv'
<1>1. ASSUME NEW g \in Grants PROVE Line(g)'
  <2>1. Line(g) /\ SameLine(g)
    BY DEF FamiliesInv
  <2> QED
    BY <2>1 DEF Line, SameLine
<1>2. OneGrantPerCode' /\ LoadedWasMinted'
  BY DEF FamiliesInv, SameLine, OneGrantPerCode, LoadedWasMinted
<1>3. ReplayedIsRevoked'
  BY DEF FamiliesInv, SameLine, ReplayedIsRevoked, TypeOK, TokenTypes
<1> QED
  BY <1>1, <1>2, <1>3 DEF FamiliesInv

LEMMA RevokeFamilies ==
    ASSUME TypeOK, FamiliesInv, NEW p \in Accounts, NEW opened, RevokeSessions(p, opened),
           UNCHANGED <<call, replayed>>
    PROVE  FamiliesInv'
<1>1. ASSUME NEW g \in Grants PROVE SameLine(g)
  <2>1. NoGrant.owner # p /\ grant[g] \in GrantRows
    BY AccountsAssumption DEF NoGrant, TypeOK, TokenTypes
  <2>2. grant'[g] = IF grant[g].owner = p THEN [grant[g] EXCEPT !.revoked = TRUE] ELSE grant[g]
    BY DEF RevokeSessions
  <2>3. grant'[g].owner = grant[g].owner
    BY <2>1, <2>2 DEF GrantRows
  <2> QED
    BY <2>1, <2>2, <2>3 DEF SameLine, GrantRows
<1>2. \A c \in Codes : code[c].state = "used" => code'[c].state = "used"
  BY DEF RevokeSessions, TypeOK, TokenTypes, CodeRows
<1> QED
  BY <1>1, <1>2, SameLines DEF FamiliesInv, LoadedWasMinted

(* What happens to accounts leaves families as they are or revokes them.   *)
LEMMA OthersRevoke ==
    ASSUME TypeOK, AccountsNext \/ DirectoryNext
    PROVE  /\ UNCHANGED <<call, replayed>>
           /\ \/ UNCHANGED <<code, grant>>
              \/ \E p \in Accounts : \E opened : RevokeSessions(p, opened)
<1> USE DEF tokenVars, rowVars, dingVars, baseVars, TypeOK
<1>1. CASE AccountsNext
  <2>1. ASSUME NEW p \in Accounts, Bootstrap(p) \/ PasswordLogin(p) PROVE UNCHANGED tokenVars
    BY <2>1 DEF Bootstrap, PasswordLogin
  <2>2. ASSUME NEW q \in Admitted, Begin(q) \/ Refuse(q) \/ Logout(q) PROVE UNCHANGED tokenVars
    BY <2>2 DEF Begin, Refuse, Logout
  <2>3. ASSUME NEW q \in Admitted, ChangePassword(q)
        PROVE  UNCHANGED <<call, replayed>>
               /\ \E p \in Accounts : \E opened : RevokeSessions(p, opened)
    BY <2>3, AdmittedTypes DEF ChangePassword
  <2>4. ASSUME NEW q \in Admitted, NEW p \in Accounts, NEW r \in Roles, NEW o,
               Invite(q, p, r, o) \/ Resend(q, p)
        PROVE  UNCHANGED tokenVars
    BY <2>4 DEF Invite, Resend
  <2>5. ASSUME NEW q \in Admitted, NEW p \in Accounts, NEW r \in Roles, NEW o \in Organizations,
               NEW active \in BOOLEAN, Update(q, p, r, o, active)
        PROVE  UNCHANGED <<call, replayed>> /\ RevokeSessions(p, {})
    BY <2>5 DEF Update
  <2>6. ASSUME NEW i \in invitations, Activate(i)
        PROVE  /\ UNCHANGED <<call, replayed>> /\ i.to \in Accounts
               /\ RevokeSessions(i.to, {Session(i.to, epoch[i.to] + 1)})
    BY <2>6, RowTypes DEF Activate, AccountTypes
  <2>7. ASSUME NEW q \in Admitted, Manage(q)
        PROVE  /\ UNCHANGED <<call, replayed>>
               /\ \/ UNCHANGED <<code, grant>>
                  \/ \E p \in Accounts : \E opened : RevokeSessions(p, opened)
    <3>1. "user" \in Roles
      BY DEF Roles
    <3> QED
      BY <2>4, <2>5, <2>7, <3>1, Zenon DEF Manage, tokenVars
  <2> QED
    BY <1>1, <2>1, <2>2, <2>3, <2>6, <2>7 DEF AccountsNext
<1>2. CASE DirectoryNext
  <2>1. ASSUME NEW n \in Processes, SaveRefresh(n)
        PROVE  /\ UNCHANGED <<call, replayed>>
               /\ UNCHANGED <<code, grant>> \/ RevokeSessions(thread[n].who, {})
               /\ thread[n].who \in Accounts
    BY <2>1, SavedTypes DEF SaveRefresh
  <2>2. ASSUME NEW n \in Processes, Ask(n), ~SaveRefresh(n) PROVE UNCHANGED tokenVars
    BY <2>2 DEF Ask, Identify, Recheck, CachedTree, AskTree, GetTree, Unanswered, SaveLogin, Mint
  <2>3. ASSUME NEW p \in Employees, Leave(p) PROVE UNCHANGED tokenVars
    BY <2>3 DEF Leave
  <2>4. ASSUME Drop \/ Tick PROVE UNCHANGED tokenVars
    BY <2>4 DEF Drop, Tick
  <2> QED
    BY <1>2, <2>1, <2>2, <2>3, <2>4 DEF DirectoryNext
<1> QED
  BY <1>1, <1>2

LEMMA TokensFamilies ==
    ASSUME TypeOK, FamiliesInv, TokensNext
    PROVE  FamiliesInv'
<1> USE AccountsAssumption DEF TypeOK, TokenTypes
<1>a. \A g \in Grants : Line(g) /\ grant[g] \in GrantRows
  BY DEF FamiliesInv
<1>b. ASSUME NEW g \in Grants, grant[g] # NoGrant, grant' = [grant EXCEPT ![g].revoked = TRUE]
      PROVE  \A h \in Grants : SameLine(h)
  <2>1. grant'[g] # NoGrant
    BY <1>b DEF NoGrant, GrantRows
  <2> QED
    BY <1>b, <2>1 DEF SameLine, GrantRows
<1>c. UNCHANGED grant => \A g \in Grants : SameLine(g)
  BY DEF SameLine
<1>d. \A k \in Calls, g \in Grants, n \in 1 .. MaxMint : call[k] = <<"refresh", g, n>> => n <= grant[g].minted
  BY DEF FamiliesInv, LoadedWasMinted
<1>e. \A k \in Calls : call' = [call EXCEPT ![k] = <<>>] =>
         \A l \in Calls, g \in Grants, n \in 1 .. MaxMint :
            call'[l] = <<"refresh", g, n>> => n <= grant[g].minted
  BY <1>d
<1>1. ASSUME NEW c \in Codes, Authorize(c) PROVE FamiliesInv'
  BY <1>1, <1>c, <1>d, SameLines DEF Authorize, CodeRows
<1>2. ASSUME NEW c \in Codes, NEW q \in Admitted, NEW approved \in BOOLEAN, Consent(q, c, approved)
      PROVE  FamiliesInv'
  BY <1>2, <1>c, <1>d, SameLines DEF Consent, CodeRows
<1>3. ASSUME NEW c \in Codes, NEW k \in Calls, LoadCode(k, c) PROVE FamiliesInv'
  <2>1. \A l \in Calls, g \in Grants, n \in 1 .. MaxMint :
            call'[l] = <<"refresh", g, n>> => n <= grant[g].minted
    BY <1>3, <1>d DEF LoadCode
  <2> QED
    BY <1>3, <1>c, <2>1, SameLines DEF LoadCode
<1>4. ASSUME NEW c \in Codes, NEW k \in Calls, NEW g \in Grants, ExchangeCode(k, c, g)
      PROVE  FamiliesInv'
  <2>1. /\ grant[g] = NoGrant /\ code[c].state = "unused"
        /\ code' = [code EXCEPT ![c].state = "used"] /\ call' = [call EXCEPT ![k] = <<>>]
        /\ UNCHANGED replayed
        /\ grant' = [grant EXCEPT ![g] = [code |-> c, owner |-> code[c].owner, epoch |-> code[c].epoch,
                                      revoked |-> FALSE, minted |-> 1, used |-> {}, access |-> {1}]]
    BY <1>4 DEF ExchangeCode, Redeemable
  <2>2. \A h \in Grants \ {g} : grant'[h] = grant[h]
    BY <2>1
  <2>3. /\ grant'[g].code = c /\ grant'[g].minted = 1 /\ grant'[g].used = {} /\ grant'[g].access = {1}
    BY <2>1
  <2>4. code'[c].state = "used" /\ \A d \in Codes : code[d].state = "used" => code'[d].state = "used"
    BY <2>1 DEF CodeRows
  <2>5. ASSUME NEW h \in Grants PROVE Line(h)'
    <3>1. CASE h = g
      <4>1. grant'[g].used = 1 .. (grant'[g].minted - 1) /\ grant'[g].minted >= 1
        BY <2>3
      <4>2. /\ grant'[g].access = {grant'[g].minted}
            /\ grant'[g].code \in Codes /\ code'[grant'[g].code].state = "used"
        BY <2>3, <2>4
      <4> QED
        BY <3>1, <4>1, <4>2 DEF Line
    <3>2. CASE h # g
      BY <1>a, <2>2, <2>4, <3>2 DEF Line
    <3> QED
      BY <3>1, <3>2
  <2>6. \A h \in Grants \ {g} : grant[h] # NoGrant => grant[h].code # c
    BY <1>a, <2>1 DEF Line
  <2>7. OneGrantPerCode'
    BY <2>2, <2>3, <2>6 DEF OneGrantPerCode, FamiliesInv
  <2>8. LoadedWasMinted'
    <3>1. grant[g].minted = 0
      BY <2>1 DEF NoGrant
    <3>2. \A l \in Calls, h \in Grants, n \in 1 .. MaxMint :
            call'[l] = <<"refresh", h, n>> => n <= grant[h].minted
      BY <1>e, <2>1
    <3>3. ASSUME NEW l \in Calls, NEW n \in 1 .. MaxMint PROVE call'[l] # <<"refresh", g, n>>
      BY <3>1, <3>2
    <3>4. SUFFICES ASSUME NEW l \in Calls, NEW h \in Grants, NEW n \in 1 .. MaxMint,
                          call'[l] = <<"refresh", h, n>>
                   PROVE  n <= grant'[h].minted
      BY DEF LoadedWasMinted
    <3> QED
      BY <2>2, <3>2, <3>3, <3>4
  <2>9. ReplayedIsRevoked'
    BY <2>1, <2>2 DEF NoGrant, ReplayedIsRevoked, FamiliesInv
  <2> QED
    BY <2>5, <2>7, <2>8, <2>9 DEF FamiliesInv
<1>5. ASSUME NEW k \in Calls, NEW g \in Grants, NEW n \in 1 .. MaxMint, LoadRefresh(k, g, n)
      PROVE  FamiliesInv'
  <2>1. grant[g] # NoGrant
    BY <1>5 DEF LoadRefresh, NoGrant
  <2>2. CASE Replay(g) /\ UNCHANGED <<call, code>>
    BY <1>b, <1>d, <2>1, <2>2, SameLines DEF Replay, GrantRows
  <2>3. CASE call' = [call EXCEPT ![k] = <<"refresh", g, n>>] /\ UNCHANGED <<grant, replayed, code>>
    <3>1. n <= grant[g].minted
      BY <1>5, <1>a DEF LoadRefresh, GrantRows
    <3>2. \A l \in Calls, h \in Grants, m \in 1 .. MaxMint :
            call'[l] = <<"refresh", h, m>> => m <= grant[h].minted
      BY <1>d, <2>3, <3>1
    <3> QED
      BY <1>c, <2>3, <3>2, SameLines
  <2> QED
    BY <1>5, <2>2, <2>3 DEF LoadRefresh
<1>6. ASSUME NEW k \in Calls, NEW g \in Grants, NEW n \in 1 .. MaxMint, ExchangeRefresh(k, g, n)
      PROVE  FamiliesInv'
  <2>1. n <= grant[g].minted /\ grant[g] # NoGrant
    BY <1>6, <1>d DEF ExchangeRefresh, NoGrant
  <2>2. CASE Replayed(g)
    BY <1>6, <1>b, <1>e, <2>1, <2>2, SameLines DEF ExchangeRefresh, Replayed, Replay, GrantRows
  <2>3. CASE /\ n \notin grant[g].used /\ UNCHANGED replayed
             /\ grant' = [grant EXCEPT ![g].used = @ \cup {n}, ![g].minted = @ + 1,
                                       ![g].access = {grant[g].minted + 1}]
    <3>1. n = grant[g].minted
      BY <1>a, <2>1, <2>3 DEF Line, GrantRows
    <3>2. /\ grant'[g].code = grant[g].code /\ grant'[g].minted = grant[g].minted + 1
          /\ grant'[g].used = grant[g].used \cup {n} /\ grant'[g].access = {grant[g].minted + 1}
          /\ grant'[g].revoked = grant[g].revoked
      BY <1>a, <2>3 DEF GrantRows
    <3>3. \A h \in Grants \ {g} : grant'[h] = grant[h]
      BY <2>3
    <3>4. ASSUME NEW h \in Grants PROVE Line(h)'
      <4>1. CASE h = g
        <5>1. grant[g].minted \in Nat /\ grant[g].minted >= 1
          BY <1>a, <2>1 DEF Line, GrantRows
        <5>2. 1 .. (grant[g].minted - 1) \cup {n} = 1 .. (grant[g].minted + 1 - 1)
          BY <3>1, <5>1
        <5>3. grant'[g].used = 1 .. (grant'[g].minted - 1) /\ grant'[g].minted >= 1
          BY <1>a, <2>1, <3>2, <5>1, <5>2 DEF Line
        <5>4. grant'[g].code \in Codes /\ code'[grant'[g].code].state = "used"
          BY <1>6, <1>a, <2>1, <3>2 DEF Line, ExchangeRefresh
        <5>5. grant'[g].access = {grant'[g].minted}
          BY <3>2
        <5> QED
          BY <4>1, <5>3, <5>4, <5>5 DEF Line
      <4>2. CASE h # g
        BY <1>6, <1>a, <3>3, <4>2 DEF Line, ExchangeRefresh
      <4> QED
        BY <4>1, <4>2
    <3>5. OneGrantPerCode'
      BY <2>1, <3>2, <3>3 DEF OneGrantPerCode, FamiliesInv
    <3>6. LoadedWasMinted'
      <4>1. \A l \in Calls, h \in Grants, m \in 1 .. MaxMint :
              call'[l] = <<"refresh", h, m>> => m <= grant[h].minted
        BY <1>6, <1>e DEF ExchangeRefresh
      <4>2. \A h \in Grants : grant'[h].minted >= grant[h].minted
        BY <1>a, <3>2, <3>3 DEF GrantRows
      <4> QED
        BY <1>a, <3>2, <3>3, <4>1, <4>2 DEF LoadedWasMinted, GrantRows
    <3>7. ReplayedIsRevoked'
      BY <2>3, <3>2, <3>3 DEF ReplayedIsRevoked, FamiliesInv
    <3> QED
      BY <3>4, <3>5, <3>6, <3>7 DEF FamiliesInv
  <2> QED
    BY <1>6, <2>2, <2>3 DEF ExchangeRefresh, Spent
<1>7. ASSUME NEW k \in Calls, Fail(k) PROVE FamiliesInv'
  BY <1>7, <1>c, <1>e, SameLines DEF Fail
<1>8. ASSUME NEW g \in Grants, RevokeToken(g) PROVE FamiliesInv'
  BY <1>8, <1>b, <1>d, SameLines DEF RevokeToken
<1> QED
  BY <1>1, <1>2, <1>3, <1>4, <1>5, <1>6, <1>7, <1>8 DEF TokensNext

LEMMA FamiliesStep ==
    ASSUME TypeOK, FamiliesInv, [Next]_vars
    PROVE  FamiliesInv'
<1>1. CASE AccountsNext \/ DirectoryNext
  BY <1>1, OthersRevoke, RevokeFamilies, SameLines DEF SameLine, FamiliesInv, LoadedWasMinted
<1>2. CASE UNCHANGED vars
  BY <1>2, SameLines DEF vars, tokenVars, SameLine, FamiliesInv, LoadedWasMinted
<1> QED
  BY <1>1, <1>2, TokensFamilies DEF Next

-----------------------------------------------------------------------------
(* Revoked secrets.  Beside the promise itself: an account has at most one *)
(* open invitation, and what ended its invitations ended its sessions too. *)
LiveSecrets ==
    /\ \A s \in sessions : s.epoch = epoch[s.owner]
    /\ \A c \in Codes : code[c].state = "unused" => code[c].epoch = epoch[code[c].owner]
    /\ \A g \in Grants : grant[g] # NoGrant /\ ~grant[g].revoked
                            => grant[g].epoch = epoch[grant[g].owner]

OpenInvitations ==
    /\ \A i \in invitations : i.epoch >= sealed[i.to]
    /\ \A i, j \in invitations : i.to = j.to => i = j
    /\ \A p \in Accounts : sealed[p] <= epoch[p]

SecretsInv == LiveSecrets /\ OpenInvitations

(* revoke_sessions ends what is older than the epoch it begins.            *)
LEMMA RevokeEnds ==
    ASSUME TypeOK, LiveSecrets, NEW p \in Accounts, NEW opened,
           opened \subseteq {Session(p, epoch[p] + 1)}, RevokeSessions(p, opened)
    PROVE  LiveSecrets' /\ epoch'[p] = epoch[p] + 1 /\ \A x \in Accounts : epoch'[x] >= epoch[x]
<1> USE DEF TypeOK, AccountTypes, TokenTypes
<1>1. /\ epoch'[p] = epoch[p] + 1
      /\ \A x \in Accounts \ {p} : epoch'[x] = epoch[x]
      /\ \A x \in Accounts : epoch'[x] >= epoch[x]
  BY DEF RevokeSessions
<1>2. ASSUME NEW s \in sessions' PROVE s.epoch = epoch'[s.owner]
  <2>1. CASE s \in opened
    BY <1>1, <2>1 DEF Session
  <2>2. CASE s \in sessions /\ s.owner # p
    BY <1>1, <2>2, RowTypes DEF LiveSecrets
  <2> QED
    BY <2>1, <2>2 DEF RevokeSessions
<1>3. ASSUME NEW c \in Codes, code'[c].state = "unused" PROVE code'[c].epoch = epoch'[code'[c].owner]
  <2>1. code'[c] = code[c] /\ code[c].owner # p
    BY <1>3 DEF RevokeSessions, CodeRows
  <2>2. code[c].epoch = epoch[code[c].owner]
    BY <1>3, <2>1 DEF LiveSecrets
  <2> QED
    BY <2>1, <2>2 DEF RevokeSessions, CodeRows
<1>4. ASSUME NEW g \in Grants, grant'[g] # NoGrant, ~grant'[g].revoked
      PROVE  grant'[g].epoch = epoch'[grant'[g].owner]
  <2>1. grant'[g] = grant[g] /\ grant[g].owner # p
    BY <1>4 DEF RevokeSessions, GrantRows
  <2>2. grant[g].epoch = epoch[grant[g].owner]
    BY <1>4, <2>1 DEF LiveSecrets
  <2> QED
    BY <2>1, <2>2 DEF RevokeSessions, GrantRows
<1> QED
  BY <1>1, <1>2, <1>3, <1>4 DEF LiveSecrets

(* Steps that revoke nothing and open sessions of this epoch only.         *)
LEMMA LiveFrame ==
    ASSUME TypeOK, LiveSecrets, UNCHANGED <<epoch, code, grant>>,
           \A s \in sessions' \ sessions : s.epoch = epoch[s.owner]
    PROVE  LiveSecrets'
BY DEF LiveSecrets

LEMMA AccountsSecrets ==
    ASSUME TypeOK, SecretsInv, AccountsNext
    PROVE  SecretsInv'
<1> USE DEF rowVars, tokenVars, dingVars, SecretsInv
<1>a. AccountTypes
  BY DEF TypeOK
<1>b. ASSUME NEW p \in Accounts, NEW actor \in Accounts, invitations' = Issued(p, actor),
             UNCHANGED <<epoch, sealed>>
      PROVE  OpenInvitations'
  <2>1. \A i \in Others(p) : i \in invitations /\ i.to # p
    BY DEF Others
  <2>2. \A i \in invitations' \ Others(p) : i.to = p /\ i.epoch = epoch[p]
    BY <1>b DEF Issued
  <2>3. \A i, j \in invitations' : i.to = j.to => i = j
    BY <1>b, <2>1 DEF Issued, OpenInvitations
  <2> QED
    BY <1>b, <2>1, <2>2, <2>3 DEF OpenInvitations
<1>c. ASSUME NEW p \in Accounts, epoch'[p] = epoch[p] + 1, \A x \in Accounts : epoch'[x] >= epoch[x],
             epoch' \in [Accounts -> Nat],
             \/ /\ \A i \in invitations' : i \in invitations /\ i.to # p
                /\ sealed' = [sealed EXCEPT ![p] = epoch[p] + 1]
             \/ UNCHANGED <<sealed, invitations>>
      PROVE  OpenInvitations'
  <2>1. \A x \in Accounts : sealed'[x] <= epoch'[x]
    BY <1>a, <1>c DEF OpenInvitations, AccountTypes
  <2>2. \A i \in invitations' : i \in invitations /\ i.to \in Accounts /\ sealed'[i.to] = sealed[i.to]
    BY <1>a, <1>c, RowTypes DEF AccountTypes
  <2> QED
    BY <2>1, <2>2 DEF OpenInvitations
<1>1. ASSUME NEW p \in Accounts, Bootstrap(p) \/ PasswordLogin(p) PROVE SecretsInv'
  <2>1. \A s \in sessions' \ sessions : s.epoch = epoch[s.owner]
    BY <1>1 DEF Bootstrap, PasswordLogin, Session
  <2>2. UNCHANGED <<epoch, sealed, code, grant, invitations>>
    BY <1>1 DEF Bootstrap, PasswordLogin
  <2> QED
    BY <2>1, <2>2, LiveFrame DEF OpenInvitations
<1>2. ASSUME NEW q \in Admitted, Begin(q) \/ Refuse(q) \/ Logout(q) PROVE SecretsInv'
  <2>1. sessions' \subseteq sessions
    BY <1>2 DEF Begin, Refuse, Logout
  <2>2. UNCHANGED <<epoch, sealed, code, grant, invitations>>
    BY <1>2 DEF Begin, Refuse, Logout
  <2> QED
    BY <2>1, <2>2, LiveFrame DEF OpenInvitations
<1>3. ASSUME NEW q \in Admitted, ChangePassword(q) PROVE SecretsInv'
  <2>1. q.owner \in Accounts
    BY <1>a, AdmittedTypes
  <2>2. RevokeSessions(q.owner, {Session(q.owner, epoch[q.owner] + 1)})
    BY <1>3 DEF ChangePassword
  <2>3. /\ \A i \in invitations' : i \in invitations /\ i.to # q.owner
        /\ sealed' = [sealed EXCEPT ![q.owner] = epoch[q.owner] + 1]
    BY <1>3 DEF ChangePassword, Others
  <2>4. epoch' \in [Accounts -> Nat]
    BY <1>a, <2>1, <2>2 DEF RevokeSessions, AccountTypes
  <2> QED
    BY <1>c, <2>1, <2>2, <2>3, <2>4, RevokeEnds
<1>4. ASSUME NEW q \in Admitted, NEW p \in Accounts, NEW r \in Roles, NEW o,
             Invite(q, p, r, o) \/ Resend(q, p)
      PROVE  SecretsInv'
  <2>1. /\ UNCHANGED <<epoch, sealed, code, grant, sessions>>
        /\ invitations' = Issued(p, q.owner) /\ q.owner \in Accounts
    BY <1>4, <1>a, AdmittedTypes DEF Invite, Resend
  <2> QED
    BY <1>b, <2>1, LiveFrame
<1>5. ASSUME NEW q \in Admitted, NEW p \in Accounts, NEW r \in Roles, NEW o \in Organizations,
             NEW active \in BOOLEAN, Update(q, p, r, o, active)
      PROVE  SecretsInv'
  <2>1. RevokeSessions(p, {})
    BY <1>5 DEF Update
  <2>2. \/ /\ \A i \in invitations' : i \in invitations /\ i.to # p
           /\ sealed' = [sealed EXCEPT ![p] = epoch[p] + 1]
        \/ UNCHANGED <<sealed, invitations>>
    BY <1>5 DEF Update, Others
  <2>3. epoch' \in [Accounts -> Nat]
    BY <1>a, <2>1 DEF RevokeSessions, AccountTypes
  <2> QED
    BY <1>c, <2>1, <2>2, <2>3, RevokeEnds
<1>6. ASSUME NEW i \in invitations, Activate(i) PROVE SecretsInv'
  <2>1. i.to \in Accounts
    BY <1>a, RowTypes DEF AccountTypes
  <2>2. RevokeSessions(i.to, {Session(i.to, epoch[i.to] + 1)})
    BY <1>6 DEF Activate
  <2>3. /\ \A j \in invitations' : j \in invitations /\ j.to # i.to
        /\ sealed' = [sealed EXCEPT ![i.to] = epoch[i.to] + 1]
    BY <1>6 DEF Activate, OpenInvitations
  <2>4. epoch' \in [Accounts -> Nat]
    BY <1>a, <2>1, <2>2 DEF RevokeSessions, AccountTypes
  <2> QED
    BY <1>c, <2>1, <2>2, <2>3, <2>4, RevokeEnds
<1>7. ASSUME NEW q \in Admitted, Manage(q) PROVE SecretsInv'
  <2>1. "user" \in Roles
    BY DEF Roles
  <2> QED
    BY <1>4, <1>5, <1>7, <2>1, Zenon DEF Manage
<1> QED
  BY <1>1, <1>2, <1>3, <1>6, <1>7 DEF AccountsNext

LEMMA TokensFrame == TokensNext => UNCHANGED authVars
BY DEF TokensNext, Authorize, Consent, LoadCode, ExchangeCode, LoadRefresh, ExchangeRefresh, Fail,
       RevokeToken, authVars

LEMMA TokensSecrets ==
    ASSUME TypeOK, FamiliesInv, SecretsInv, TokensNext
    PROVE  SecretsInv'
<1> USE DEF authVars, TypeOK, AccountTypes, TokenTypes, SecretsInv
<1>a. UNCHANGED authVars
  BY TokensFrame
<1>b. OpenInvitations' /\ UNCHANGED <<epoch, sessions>>
  BY <1>a DEF OpenInvitations
<1> SUFFICES LiveSecrets'
  BY <1>b
<1>1. ASSUME NEW c \in Codes, Authorize(c) PROVE LiveSecrets'
  BY <1>1, <1>b DEF Authorize, LiveSecrets, CodeRows
<1>2. ASSUME NEW c \in Codes, NEW q \in Admitted, NEW approved \in BOOLEAN, Consent(q, c, approved)
      PROVE  LiveSecrets'
  <2>1. q.epoch = epoch[q.owner]
    BY <1>2 DEF Consent, CurrentSession, Session, LiveSecrets
  <2> QED
    BY <1>2, <1>b, <2>1 DEF Consent, LiveSecrets, CodeRows
<1>3. ASSUME NEW c \in Codes, NEW k \in Calls, LoadCode(k, c) PROVE LiveSecrets'
  BY <1>3, <1>b DEF LoadCode, LiveSecrets
<1>4. ASSUME NEW c \in Codes, NEW k \in Calls, NEW g \in Grants, ExchangeCode(k, c, g)
      PROVE  LiveSecrets'
  BY <1>4, <1>b DEF ExchangeCode, Redeemable, LiveSecrets, CodeRows, GrantRows
<1>5. ASSUME NEW k \in Calls, NEW g \in Grants, NEW n \in 1 .. MaxMint, LoadRefresh(k, g, n)
      PROVE  LiveSecrets'
  BY <1>5, <1>b DEF LoadRefresh, Replay, LiveSecrets, GrantRows
<1>6. ASSUME NEW k \in Calls, NEW g \in Grants, NEW n \in 1 .. MaxMint, ExchangeRefresh(k, g, n)
      PROVE  LiveSecrets'
  <2>1. grant[g] # NoGrant /\ grant[g] \in GrantRows
    <3>1. n <= grant[g].minted
      BY <1>6 DEF ExchangeRefresh, FamiliesInv, LoadedWasMinted
    <3> QED
      BY <3>1, AccountsAssumption DEF NoGrant
  <2>2. /\ \A h \in Grants \ {g} : grant'[h] = grant[h]
        /\ grant'[g].owner = grant[g].owner /\ grant'[g].epoch = grant[g].epoch
        /\ ~grant'[g].revoked => ~grant[g].revoked
    <3>1. CASE grant' = [grant EXCEPT ![g].revoked = TRUE]
      BY <2>1, <3>1 DEF GrantRows
    <3>2. CASE grant' = [grant EXCEPT ![g].used = @ \cup {n}, ![g].minted = @ + 1,
                                      ![g].access = {grant[g].minted + 1}]
      BY <2>1, <3>2 DEF GrantRows
    <3> QED
      BY <1>6, <3>1, <3>2 DEF ExchangeRefresh, Replayed, Replay
  <2> QED
    BY <1>6, <1>b, <2>1, <2>2 DEF ExchangeRefresh, LiveSecrets
<1>7. ASSUME NEW k \in Calls, Fail(k) PROVE LiveSecrets'
  BY <1>7, <1>b DEF Fail, LiveSecrets
<1>8. ASSUME NEW g \in Grants, RevokeToken(g) PROVE LiveSecrets'
  BY <1>8, <1>b DEF RevokeToken, LiveSecrets, GrantRows
<1> QED
  BY <1>1, <1>2, <1>3, <1>4, <1>5, <1>6, <1>7, <1>8 DEF TokensNext

LEMMA DirectorySecrets ==
    ASSUME TypeOK, SecretsInv, DirectoryNext
    PROVE  SecretsInv'
<1> USE DEF tokenVars, rowVars, baseVars, SecretsInv
<1>1. ASSUME NEW n \in Processes, SaveRefresh(n) PROVE SecretsInv'
  <2> DEFINE p == thread[n].who
  <2>1. p \in Accounts
    BY <1>1, SavedTypes DEF SaveRefresh, TypeOK
  <2>2. UNCHANGED <<invitations, sealed>>
    BY <1>1 DEF SaveRefresh
  <2>3. CASE UNCHANGED <<sessions, epoch, code, grant>>
    BY <2>2, <2>3, LiveFrame DEF OpenInvitations
  <2>4. CASE RevokeSessions(p, {})
    <3>1. LiveSecrets' /\ \A x \in Accounts : epoch'[x] >= epoch[x]
      BY <2>1, <2>4, RevokeEnds
    <3>2. epoch' \in [Accounts -> Nat] /\ epoch \in [Accounts -> Nat] /\ sealed \in [Accounts -> Nat]
      BY <2>1, <2>4 DEF RevokeSessions, TypeOK, AccountTypes
    <3> QED
      BY <2>2, <3>1, <3>2 DEF OpenInvitations
  <2> QED
    BY <1>1, <2>3, <2>4 DEF SaveRefresh
<1>2. ASSUME NEW n \in Processes, Mint(n) PROVE SecretsInv'
  <2>1. \A s \in sessions' \ sessions : s.epoch = epoch[s.owner]
    BY <1>2 DEF Mint, Session
  <2>2. UNCHANGED <<epoch, sealed, code, grant, invitations>>
    BY <1>2 DEF Mint
  <2> QED
    BY <2>1, <2>2, LiveFrame DEF OpenInvitations
<1>3. UNCHANGED <<sessions, epoch, sealed, code, grant, invitations>> => SecretsInv'
  BY LiveFrame DEF OpenInvitations
<1>4. ASSUME NEW n \in Processes, Ask(n), ~SaveRefresh(n), ~Mint(n) PROVE SecretsInv'
  BY <1>3, <1>4 DEF Ask, Identify, Recheck, CachedTree, AskTree, GetTree, Unanswered, SaveLogin
<1>5. ASSUME NEW p \in Employees, Leave(p) PROVE SecretsInv'
  BY <1>3, <1>5 DEF Leave
<1>6. ASSUME Drop \/ Tick PROVE SecretsInv'
  BY <1>3, <1>6 DEF Drop, Tick
<1> QED
  BY <1>1, <1>2, <1>4, <1>5, <1>6 DEF DirectoryNext

LEMMA InitInv == Init => FamiliesInv /\ SecretsInv
<1> SUFFICES ASSUME Init PROVE FamiliesInv /\ SecretsInv
  OBVIOUS
<1>1. FamiliesInv
  BY DEF Init, FamiliesInv, Line, OneGrantPerCode, LoadedWasMinted, ReplayedIsRevoked
<1>2. SecretsInv
  BY DEF Init, NoCode, SecretsInv, LiveSecrets, OpenInvitations
<1> QED
  BY <1>1, <1>2

THEOREM AccessInvariant == Spec => [](TypeOK /\ FamiliesInv /\ SecretsInv)
<1>1. TypeOK /\ FamiliesInv /\ SecretsInv /\ [Next]_vars => FamiliesInv' /\ SecretsInv'
  <2> SUFFICES ASSUME TypeOK, FamiliesInv, SecretsInv, [Next]_vars PROVE SecretsInv'
    BY FamiliesStep
  <2>1. CASE UNCHANGED vars
    BY <2>1, LiveFrame DEF vars, tokenVars, SecretsInv, OpenInvitations
  <2> QED
    BY <2>1, AccountsSecrets, TokensSecrets, DirectorySecrets DEF Next
<1> QED
  BY InitInv, <1>1, AccessTypesHold, PTL DEF Spec

(* Nothing handed out before the last revocation that covers it works      *)
(* after it: sessions, codes and grants (account_auth.py, account_oauth.py)*)
(* and invitations.                                                        *)
THEOREM OldSecretsAreDead == Spec => []NoOldSecrets
<1>1. SecretsInv => NoOldSecrets
  BY DEF SecretsInv, LiveSecrets, OpenInvitations, NoOldSecrets
<1> QED
  BY <1>1, AccessInvariant, PTL

(* A code becomes one grant, and a grant has one refresh token to continue *)
(* with and one access token, whatever loads overlapped.                   *)
THEOREM FamiliesAreLines == Spec => []OneLine
<1>1. ASSUME TypeOK, FamiliesInv, NEW g \in Grants
      PROVE  Cardinality(Unspent(g)) <= 1 /\ Cardinality(grant[g].access) <= 1
  <2>1. CASE grant[g] = NoGrant
    <3>1. Unspent(g) = {} /\ grant[g].access = {}
      BY <2>1 DEF NoGrant, Unspent
    <3> QED
      BY <3>1, FS_EmptySet
  <2>2. CASE grant[g] # NoGrant
    <3> DEFINE m == grant[g].minted
    <3>1. m \in Nat /\ m >= 1 /\ grant[g].used = 1 .. (m - 1) /\ grant[g].access = {m}
      BY <1>1, <2>2 DEF FamiliesInv, Line, TypeOK, TokenTypes, GrantRows
    <3>2. Unspent(g) = {m}
      BY <3>1 DEF Unspent
    <3>3. Cardinality({m}) = 1
      BY FS_Singleton
    <3> QED
      BY <3>1, <3>2, <3>3
  <2> QED
    BY <2>1, <2>2
<1>2. TypeOK /\ FamiliesInv => OneLine
  BY <1>1 DEF OneLine, FamiliesInv, OneGrantPerCode
<1> QED
  BY <1>2, AccessInvariant, PTL

(* Whoever presents a spent refresh token ends the family for good.        *)
THEOREM ReplayIsTheEnd == Spec => []ReplayEndsFamily
<1>1. FamiliesInv => ReplayEndsFamily
  BY DEF FamiliesInv, ReplayedIsRevoked, ReplayEndsFamily, Served
<1> QED
  BY <1>1, AccessInvariant, PTL

(* An administrator's request that was let through before his access was   *)
(* taken away changes no account: every handler asks for the session again *)
(* under the lock of the account.                                          *)
THEOREM OldRequestsAreHarmless == Spec => OldRequestsChangeNothing
<1>1. TypeOK /\ SecretsInv /\ [Next]_vars => ManagedByCurrent
  <2> SUFFICES ASSUME TypeOK, SecretsInv, [Next]_vars, NEW q \in requests \ requests',
                      <<role, status, organization, invitations>>'
                         # <<role, status, organization, invitations>>,
                      password' = password
               PROVE  q.epoch = epoch[q.owner]
    BY DEF ManagedByCurrent
  <2> USE DEF rowVars, tokenVars, dingVars, authVars, baseVars
  <2>a. CurrentSession(q) => q.epoch = epoch[q.owner]
    BY DEF CurrentSession, Session, SecretsInv, LiveSecrets
  <2>1. CASE AccountsNext
    <3>1. ASSUME NEW p \in Accounts, Bootstrap(p) \/ PasswordLogin(p) PROVE FALSE
      BY <3>1 DEF Bootstrap, PasswordLogin
    <3>2. ASSUME NEW r \in Admitted, Begin(r) \/ Refuse(r) \/ Logout(r) PROVE FALSE
      BY <3>2 DEF Begin, Refuse, Logout
    <3>3. ASSUME NEW r \in Admitted, ChangePassword(r) PROVE FALSE
      <4>1. r.owner \in Accounts
        BY AdmittedTypes DEF TypeOK
      <4> QED
        BY <3>3, <4>1 DEF ChangePassword, TypeOK, AccountTypes
    <3>4. ASSUME NEW r \in Admitted, NEW p \in Accounts, NEW s \in Roles, NEW o,
                 Invite(r, p, s, o) \/ Resend(r, p)
          PROVE  CurrentSession(r) /\ q = r
      BY <3>4 DEF Invite, Resend, ManagementActor, Answer
    <3>5. ASSUME NEW r \in Admitted, NEW p \in Accounts, NEW s \in Roles, NEW o \in Organizations,
                 NEW active \in BOOLEAN, Update(r, p, s, o, active)
          PROVE  CurrentSession(r) /\ q = r
      BY <3>5 DEF Update, ManagementActor, Answer
    <3>6. ASSUME NEW i \in invitations, Activate(i) PROVE FALSE
      BY <3>6 DEF Activate
    <3>7. ASSUME NEW r \in Admitted, Manage(r) PROVE CurrentSession(r) /\ q = r
      <4>1. "user" \in Roles
        BY DEF Roles
      <4> QED
        BY <3>4, <3>5, <3>7, <4>1, Zenon DEF Manage
    <3>8. ASSUME NEW r \in Admitted, Manage(r) PROVE q.epoch = epoch[q.owner]
      <4>1. CurrentSession(r) /\ q = r
        BY <3>7, <3>8
      <4> QED
        BY <2>a, <4>1
    <3> QED
      BY <2>1, <3>1, <3>2, <3>3, <3>6, <3>8 DEF AccountsNext
  <2>2. CASE TokensNext
    BY <2>2, TokensFrame
  <2>3. CASE DirectoryNext
    BY <2>3 DEF DirectoryNext, Ask, Identify, Recheck, CachedTree, AskTree, GetTree, Unanswered,
                SaveLogin, Mint, SaveRefresh, Leave, Drop, Tick
  <2>4. CASE UNCHANGED vars
    BY <2>4 DEF vars
  <2> QED
    BY <2>1, <2>2, <2>3, <2>4 DEF Next
<1> QED
  BY <1>1, AccessInvariant, PTL DEF Spec, OldRequestsChangeNothing

-----------------------------------------------------------------------------
(* A superadministrator remains.  With local passwords whoever is active   *)
(* has one, so it is enough that an active superadministrator remains.     *)
ActiveHavePasswords ==
    \A p \in Accounts : ~identity[p].linked /\ (status[p] = "active" => password[p] # 0)

ActiveSuperadmins == {p \in Accounts : role[p] = "superadmin" /\ status[p] = "active"}

AdminInv ==
    mode = "local" =>
        /\ ActiveHavePasswords
        /\ (\E p \in Accounts : status[p] # "absent") => ActiveSuperadmins # {}

(* Counting the superadministrators under the lock of all of them leaves   *)
(* another one, or the one that is changed.                                *)
LEMMA AnotherRemains ==
    ASSUME NEW p \in ActiveSuperadmins, ~LastSuperadmin(p)
    PROVE  \E x \in ActiveSuperadmins : x # p
<1> SUFFICES ASSUME ActiveSuperadmins = {p} PROVE FALSE
  OBVIOUS
<1>1. Cardinality(ActiveSuperadmins) = 1
  BY FS_Singleton
<1>2. ~(Cardinality(ActiveSuperadmins) <= 1)
  BY DEF LastSuperadmin, ActiveSuperadmins
<1> QED
  BY <1>1, <1>2

LEMMA AdminStep ==
    ASSUME TypeOK, AdminInv, [Next]_vars
    PROVE  AdminInv'
<1> SUFFICES ASSUME mode = "local", mode' = mode
             PROVE  /\ ActiveHavePasswords'
                    /\ (\E p \in Accounts : status'[p] # "absent") => ActiveSuperadmins' # {}
  <2>1. UNCHANGED mode
    <3>1. CASE AccountsNext
      <4>1. ASSUME NEW q \in Admitted, Manage(q) PROVE UNCHANGED mode
        BY <4>1 DEF Manage, Invite, Resend, Update
      <4> QED
        BY <3>1, <4>1
           DEF AccountsNext, Bootstrap, PasswordLogin, Begin, Refuse, Logout, ChangePassword, Activate
    <3>2. CASE TokensNext
      BY <3>2, TokensFrame DEF authVars
    <3>3. CASE DirectoryNext
      BY <3>3 DEF DirectoryNext, Ask, Identify, Recheck, CachedTree, AskTree, GetTree, Unanswered,
                  SaveLogin, Mint, SaveRefresh, Leave, Drop, Tick, baseVars
    <3>4. CASE UNCHANGED vars
      BY <3>4 DEF vars
    <3> QED
      BY <3>1, <3>2, <3>3, <3>4 DEF Next
  <2> QED
    BY <2>1 DEF AdminInv
<1> DEFINE Goal == /\ ActiveHavePasswords'
                   /\ (\E p \in Accounts : status'[p] # "absent") => ActiveSuperadmins' # {}
<1>a. /\ ActiveHavePasswords
      /\ (\E p \in Accounts : status[p] # "absent") => ActiveSuperadmins # {}
  BY DEF AdminInv
<1>b. AccountTypes
  BY DEF TypeOK
<1>c. UNCHANGED <<rowVars, identity>> => Goal
  BY <1>a DEF rowVars, ActiveHavePasswords, ActiveSuperadmins
<1> USE DEF rowVars, tokenVars, dingVars
<1>1. CASE AccountsNext
  <2>1. ASSUME NEW p \in Accounts, Bootstrap(p) PROVE Goal
    <3>1. p \in ActiveSuperadmins'
      BY <1>b, <2>1 DEF Bootstrap, ActiveSuperadmins, AccountTypes
    <3> QED
      BY <1>a, <1>b, <2>1, <3>1 DEF Bootstrap, ActiveHavePasswords, AccountTypes
  <2>2. ASSUME NEW p \in Accounts, PasswordLogin(p) PROVE Goal
    BY <1>c, <2>2 DEF PasswordLogin
  <2>3. ASSUME NEW q \in Admitted, Begin(q) \/ Refuse(q) \/ Logout(q) PROVE Goal
    BY <1>c, <2>3 DEF Begin, Refuse, Logout
  <2>4. ASSUME NEW q \in Admitted, ChangePassword(q) PROVE Goal
    <3>1. /\ q.owner \in Accounts /\ password' = [password EXCEPT ![q.owner] = @ + 1]
          /\ UNCHANGED <<role, status, identity>>
      BY <1>b, <2>4, AdmittedTypes DEF ChangePassword
    <3> QED
      BY <1>a, <1>b, <3>1 DEF ActiveHavePasswords, ActiveSuperadmins, AccountTypes
  <2>5. ASSUME NEW q \in Admitted, NEW p \in Accounts, NEW r \in Roles, NEW o \in Organizations,
               Invite(q, p, r, o)
        PROVE  Goal
    <3>1. /\ status[p] = "absent" /\ status' = [status EXCEPT ![p] = "invited"]
          /\ role' = [role EXCEPT ![p] = r] /\ UNCHANGED <<password, identity>>
      BY <2>5 DEF Invite
    <3>2. q.owner \in Accounts /\ status[q.owner] = "active"
      BY <1>b, <2>5, AdmittedTypes DEF Invite, ManagementActor, CurrentSession, Loadable
    <3>3. PICK x \in ActiveSuperadmins : TRUE
      BY <1>a, <3>2
    <3>4. x \in ActiveSuperadmins'
      BY <1>b, <3>1, <3>3 DEF ActiveSuperadmins, AccountTypes
    <3>5. ActiveHavePasswords'
      BY <1>a, <1>b, <3>1 DEF ActiveHavePasswords, AccountTypes
    <3> QED
      BY <3>4, <3>5
  <2>6. ASSUME NEW q \in Admitted, NEW p \in Accounts, Resend(q, p) PROVE Goal
    BY <1>c, <2>6 DEF Resend
  <2>7. ASSUME NEW q \in Admitted, NEW p \in Accounts, NEW r \in Roles, NEW o \in Organizations,
               NEW active \in BOOLEAN, Update(q, p, r, o, active)
        PROVE  Goal
    <3>1. /\ status[p] # "absent" /\ role' = [role EXCEPT ![p] = r] /\ UNCHANGED <<password, identity>>
          /\ LastSuperadmin(p) => r = "superadmin" /\ active
      BY <2>7 DEF Update
    <3>2. /\ \A x \in Accounts \ {p} : status'[x] = status[x]
          /\ status'[p] = "active" <=> active /\ (password[p] # 0 \/ identity[p].linked)
      BY <1>b, <2>7 DEF Update, AccountTypes
    <3>3. ActiveHavePasswords'
      BY <1>a, <3>1, <3>2 DEF ActiveHavePasswords
    <3>4. ASSUME NEW x \in ActiveSuperadmins, x # p PROVE ActiveSuperadmins' # {}
      <4>1. x \in ActiveSuperadmins'
        BY <1>b, <3>1, <3>2, <3>4 DEF ActiveSuperadmins, AccountTypes
      <4> QED
        BY <4>1
    <3>5. ASSUME LastSuperadmin(p) PROVE ActiveSuperadmins' # {}
      <4>1. r = "superadmin" /\ status[p] = "active" /\ role[p] = "superadmin"
        BY <3>1, <3>5 DEF LastSuperadmin
      <4>2. active
        BY <3>1, <3>5
      <4>3. password[p] # 0
        BY <1>a, <4>1 DEF ActiveHavePasswords
      <4>4. status'[p] = "active"
        BY <3>2, <4>2, <4>3
      <4>5. role'[p] = "superadmin"
        BY <1>b, <3>1, <4>1 DEF AccountTypes
      <4>6. p \in ActiveSuperadmins'
        BY <4>4, <4>5 DEF ActiveSuperadmins
      <4> QED
        BY <4>6
    <3>6. ASSUME ~LastSuperadmin(p) PROVE ActiveSuperadmins' # {}
      <4>1. ActiveSuperadmins # {}
        BY <1>a, <3>1
      <4>2. \E x \in ActiveSuperadmins : x # p
        <5>1. CASE p \in ActiveSuperadmins
          BY <3>6, <5>1, AnotherRemains
        <5>2. CASE p \notin ActiveSuperadmins
          BY <4>1, <5>2
        <5> QED
          BY <5>1, <5>2
      <4> QED
        BY <3>4, <4>2
    <3> QED
      BY <3>3, <3>5, <3>6
  <2>8. ASSUME NEW i \in invitations, Activate(i) PROVE Goal
    <3>1. /\ i.to \in Accounts
          /\ status' = [status EXCEPT ![i.to] = "active"] /\ UNCHANGED <<role, identity>>
          /\ password' = [password EXCEPT ![i.to] = @ + 1]
          /\ i.by \in Accounts /\ status[i.by] = "active"
      BY <1>b, <2>8, RowTypes DEF Activate, Honoured, Loadable, AccountTypes
    <3>2. ActiveHavePasswords'
      BY <1>a, <1>b, <3>1 DEF ActiveHavePasswords, AccountTypes
    <3>3. ActiveSuperadmins \subseteq ActiveSuperadmins' /\ ActiveSuperadmins # {}
      BY <1>a, <1>b, <3>1 DEF ActiveSuperadmins, AccountTypes
    <3> QED
      BY <3>2, <3>3
  <2> HIDE DEF Goal
  <2>9. ASSUME NEW q \in Admitted, Manage(q) PROVE Goal
    <3>1. PICK p \in Accounts :
             \/ Resend(q, p)
             \/ \E r \in Roles, o \in Organizations :
                   Invite(q, p, r, o) \/ \E active \in BOOLEAN : Update(q, p, r, o, active)
      BY <2>9, Zenon DEF Manage
    <3>2. CASE Resend(q, p)
      BY <2>6, <3>2
    <3>3. CASE ~Resend(q, p)
      <4>1. PICK r \in Roles, o \in Organizations :
               Invite(q, p, r, o) \/ \E active \in BOOLEAN : Update(q, p, r, o, active)
        BY <3>1, <3>3, Zenon
      <4>2. CASE Invite(q, p, r, o)
        BY <2>5, <4>2
      <4>3. ASSUME NEW active \in BOOLEAN, Update(q, p, r, o, active) PROVE Goal
        BY <2>7, <4>3
      <4> QED
        BY <4>1, <4>2, <4>3, Zenon
    <3> QED
      BY <3>2, <3>3
  <2>10. Goal
    BY <1>1, <2>1, <2>2, <2>3, <2>4, <2>8, <2>9 DEF AccountsNext
  <2> QED
    BY <2>10 DEF Goal
<1>2. CASE TokensNext
  BY <1>2, <1>c, TokensFrame DEF authVars
<1>3. CASE DirectoryNext
  BY <1>3 DEF DirectoryNext
<1>4. CASE UNCHANGED vars
  BY <1>4, <1>c DEF vars
<1> QED
  BY <1>1, <1>2, <1>3, <1>4 DEF Next

(* Once there is a superadministrator there is always one who can log in,  *)
(* also when the last two change each other at the same time.              *)
THEOREM ASuperadminRemains == Spec => []SuperadminRemains
<1>1. Init => AdminInv
  BY DEF Init, AdminInv, ActiveHavePasswords, Unlinked
<1>2. TypeOK /\ AdminInv /\ [Next]_vars => AdminInv'
  BY AdminStep
<1>3. AdminInv => SuperadminRemains
  BY DEF AdminInv, ActiveHavePasswords, ActiveSuperadmins, SuperadminRemains
<1> QED
  BY <1>1, <1>2, <1>3, AccessTypesHold, PTL DEF Spec

-----------------------------------------------------------------------------
(* Nobody is served on old evidence.  What a row, a thread or a cached     *)
(* tree says is dated no later than the departure it does not know of.     *)
TimelyRow(row) ==
    /\ row.started <= now /\ row.at <= now
    /\ row.active => row.pc # "idle" /\ row.started <= left[row.who]
    /\ row.kind = "login" => row.active
    /\ row.visible => row.at <= dropped

TimelyTree(row) == row.at <= now /\ (row.ok => row.at <= dropped)

TimelyIdentity(row, p) ==
    /\ row.verified_at <= now
    /\ row.linked /\ row.enabled => row.verified_at <= left[p] /\ row.verified_at <= dropped

EvidenceInv ==
    /\ \A p \in Employees : TimelyIdentity(identity[p], p)
    /\ \A n \in Processes : TimelyRow(thread[n]) /\ TimelyTree(tree[n])

LEMMA AccountsDirectory == AccountsNext => UNCHANGED dingVars
<1>1. ASSUME NEW q \in Admitted, Manage(q) PROVE UNCHANGED dingVars
  BY <1>1 DEF Manage, Invite, Resend, Update
<1> QED
  BY <1>1 DEF AccountsNext, Bootstrap, PasswordLogin, Begin, Refuse, Logout, ChangePassword, Activate

LEMMA EvidenceStep ==
    ASSUME TypeOK, EvidenceInv, [Next]_vars
    PROVE  EvidenceInv'
<1>a. DirectoryTypes /\ Employees \subseteq Accounts /\ now \in Nat /\ dropped \in Nat
      /\ left \in [Accounts -> Nat]
  BY AccountsAssumption DEF TypeOK, DirectoryTypes
<1>b. UNCHANGED dingVars => EvidenceInv'
  BY DEF EvidenceInv, dingVars, TimelyIdentity, TimelyRow, TimelyTree
<1>t. ASSUME NEW n \in Processes
      PROVE  /\ thread[n] \in ThreadRows /\ tree[n] \in TreeRows
             /\ TimelyRow(thread[n]) /\ TimelyTree(tree[n])
  BY <1>a DEF DirectoryTypes, EvidenceInv
(* A step that replaces one row and leaves the clock and the company alone. *)
<1>c. ASSUME NEW n \in Processes, UNCHANGED <<identity, tree, worldVars>>,
             NEW row, thread' = [thread EXCEPT ![n] = row], TimelyRow(row)
      PROVE  EvidenceInv'
  <2>1. \A m \in Processes : TimelyRow(thread'[m])
    BY <1>a, <1>c DEF DirectoryTypes, EvidenceInv
  <2> QED
    BY <1>c, <2>1 DEF EvidenceInv, TimelyIdentity, TimelyRow, TimelyTree, worldVars
<1>i. TimelyRow(Idle)
  BY <1>a DEF TimelyRow, Idle
<1>s. ASSUME NEW n \in Processes, UNCHANGED <<tree, worldVars>>,
             NEW pc \in {"idle", "mint"},
             thread' = [thread EXCEPT ![n] = IF pc = "idle" THEN Idle ELSE [thread[n] EXCEPT !.pc = "mint"]],
             NEW p \in Accounts, NEW row \in IdentityRows, TimelyIdentity(row, p),
             identity' = [identity EXCEPT ![p] = row]
      PROVE  EvidenceInv'
  <2>1. TimelyRow([thread[n] EXCEPT !.pc = "mint"])
    BY <1>t DEF TimelyRow, ThreadRows
  <2>2. \A m \in Processes : TimelyRow(thread'[m])
    BY <1>a, <1>i, <1>s, <1>t, <2>1 DEF DirectoryTypes
  <2>3. \A x \in Employees : TimelyIdentity(identity'[x], x)
    BY <1>a, <1>s DEF DirectoryTypes, EvidenceInv
  <2> QED
    BY <1>s, <2>2, <2>3 DEF EvidenceInv, TimelyIdentity, TimelyRow, TimelyTree, worldVars
(* What IdentityService.save writes.                                       *)
<1>e. ASSUME NEW n \in Processes, thread[n].pc = "save", NEW enabled \in BOOLEAN,
             enabled => thread[n].active /\ thread[n].visible
      PROVE  LET row == [linked |-> TRUE, enabled |-> enabled, verified_at |-> Evidence(n),
                         read |-> thread[n].started]
             IN  row \in IdentityRows /\ TimelyIdentity(row, thread[n].who)
  <2>1. /\ thread[n].started \in Nat /\ thread[n].at \in Nat
        /\ thread[n].who \in Accounts /\ left[thread[n].who] \in Nat
    <3>1. thread[n] \in ThreadRows
      BY <1>t
    <3>2. thread[n].started \in Nat /\ thread[n].at \in Nat
      BY <3>1 DEF ThreadRows
    <3>3. thread[n].who \in Accounts
      BY <1>a, <1>e, SavedTypes
    <3> QED
      BY <1>a, <3>2, <3>3
  <2>2. /\ thread[n].started <= now
        /\ enabled => thread[n].started <= left[thread[n].who] /\ thread[n].at <= dropped
    BY <1>e, <1>t DEF TimelyRow
  <2>3. /\ Evidence(n) \in Nat /\ Evidence(n) <= thread[n].started /\ Evidence(n) <= thread[n].at
    BY <2>1 DEF Evidence, Earlier
  <2> QED
    BY <1>a, <1>e, <2>1, <2>2, <2>3 DEF IdentityRows, TimelyIdentity
<1>1. ASSUME NEW n \in Processes, NEW p \in Employees, Identify(n, p) PROVE EvidenceInv'
  <2> DEFINE row == [Idle EXCEPT !.pc = "tree", !.kind = "login", !.who = p, !.active = TRUE,
                                 !.started = now]
  <2>1. TimelyRow(row)
    <3>1. left[p] = Never /\ now <= Never
      BY <1>1, <1>a, AccountsAssumption DEF Identify, Never, DirectoryTypes
    <3> QED
      BY <1>a, <3>1 DEF TimelyRow, Idle
  <2>2. thread' = [thread EXCEPT ![n] = row] /\ UNCHANGED <<identity, tree, worldVars>>
    BY <1>1 DEF Identify
  <2> QED
    BY <1>c, <2>1, <2>2
<1>2. ASSUME NEW n \in Processes, NEW p \in Employees, Recheck(n, p) PROVE EvidenceInv'
  <2> DEFINE row == [Idle EXCEPT !.pc = "tree", !.kind = "refresh", !.who = p,
                                 !.active = (left[p] = Never), !.started = now,
                                 !.expected = identity[p].verified_at]
  <2>1. TimelyRow(row)
    <3>1. left[p] = Never => now <= left[p]
      BY <1>a, AccountsAssumption DEF Never, DirectoryTypes
    <3>2. /\ row.active <=> left[p] = Never
          /\ row.who = p /\ row.started = now /\ row.at = 0 /\ row.visible = FALSE
          /\ row.kind = "refresh" /\ row.pc = "tree"
      BY DEF Idle
    <3> HIDE DEF row
    <3> QED
      BY <1>a, <3>1, <3>2 DEF TimelyRow
  <2>2. thread' = [thread EXCEPT ![n] = row] /\ UNCHANGED <<identity, tree, worldVars>>
    BY <1>2 DEF Recheck
  <2> QED
    BY <1>c, <2>1, <2>2
<1>3. ASSUME NEW n \in Processes, CachedTree(n) PROVE EvidenceInv'
  <2> DEFINE row == [thread[n] EXCEPT !.pc = "save", !.at = tree[n].at, !.visible = tree[n].ok]
  <2>1. TimelyRow(row)
    BY <1>t DEF TimelyRow, TimelyTree, ThreadRows
  <2>2. thread' = [thread EXCEPT ![n] = row] /\ UNCHANGED <<identity, tree, worldVars>>
    BY <1>3 DEF CachedTree
  <2> QED
    BY <1>c, <2>1, <2>2
<1>4. ASSUME NEW n \in Processes, AskTree(n) PROVE EvidenceInv'
  <2> DEFINE row == [thread[n] EXCEPT !.pc = "asking", !.at = now, !.visible = (dropped = Never)]
  <2>1. TimelyRow(row)
    <3>1. dropped = Never => now <= dropped
      BY <1>a, AccountsAssumption DEF Never, DirectoryTypes
    <3>2. /\ row.visible <=> dropped = Never
          /\ row.active = thread[n].active /\ row.who = thread[n].who /\ row.kind = thread[n].kind
          /\ row.started = thread[n].started /\ row.at = now /\ row.pc = "asking"
      BY <1>t DEF ThreadRows
    <3> HIDE DEF row
    <3> QED
      BY <1>a, <1>t, <3>1, <3>2 DEF TimelyRow
  <2>2. thread' = [thread EXCEPT ![n] = row] /\ UNCHANGED <<identity, tree, worldVars>>
    BY <1>4 DEF AskTree
  <2> QED
    BY <1>c, <2>1, <2>2
<1>5. ASSUME NEW n \in Processes, GetTree(n) PROVE EvidenceInv'
  <2> DEFINE row == [until |-> now + RefreshTicks, at |-> thread[n].at, ok |-> thread[n].visible]
  <2>1. TimelyTree(row) /\ TimelyRow([thread[n] EXCEPT !.pc = "save"])
    BY <1>t DEF TimelyRow, TimelyTree, ThreadRows
  <2>2. \A m \in Processes : TimelyRow(thread'[m]) /\ TimelyTree(tree'[m])
    <3>1. /\ tree' = [tree EXCEPT ![n] = row]
          /\ thread' = [thread EXCEPT ![n] = [thread[n] EXCEPT !.pc = "save"]]
      BY <1>5 DEF GetTree
    <3> QED
      BY <1>a, <1>t, <2>1, <3>1 DEF DirectoryTypes
  <2>3. UNCHANGED <<identity, worldVars>>
    BY <1>5 DEF GetTree
  <2> QED
    BY <2>2, <2>3 DEF EvidenceInv, TimelyIdentity, TimelyRow, TimelyTree, worldVars
<1>6. ASSUME NEW n \in Processes, Unanswered(n) \/ Mint(n) PROVE EvidenceInv'
  BY <1>6, <1>c, <1>i DEF Unanswered, Mint, Forget
<1>7. ASSUME NEW n \in Processes, SaveLogin(n) PROVE EvidenceInv'
  <2>1. CASE Forget(n) /\ UNCHANGED identity
    BY <1>7, <1>c, <1>i, <2>1 DEF SaveLogin, Forget
  <2>2. CASE /\ thread[n].visible /\ Saved(n, TRUE)
             /\ thread' = [thread EXCEPT ![n] = [thread[n] EXCEPT !.pc = "mint"]]
    <3>1. thread[n].active /\ thread[n].pc = "save"
      BY <1>7, <1>t DEF SaveLogin, TimelyRow
    <3>2. thread[n].who \in Accounts /\ UNCHANGED <<tree, worldVars>>
      BY <1>7, <1>a, <3>1, SavedTypes DEF SaveLogin
    <3> QED
      BY <1>e, <1>s, <2>2, <3>1, <3>2 DEF Saved
  <2> QED
    BY <1>7, <2>1, <2>2 DEF SaveLogin
<1>8. ASSUME NEW n \in Processes, SaveRefresh(n) PROVE EvidenceInv'
  <2> DEFINE p == thread[n].who
  <2>1. /\ thread[n].pc = "save" /\ thread' = [thread EXCEPT ![n] = Idle]
        /\ UNCHANGED <<tree, worldVars>>
    BY <1>8 DEF SaveRefresh, Forget
  <2>2. p \in Accounts
    BY <1>a, <2>1, SavedTypes
  <2>3. CASE UNCHANGED identity
    BY <1>c, <1>i, <2>1, <2>3
  <2>4. ASSUME NEW enabled \in BOOLEAN, Saved(n, enabled),
               enabled => thread[n].active /\ thread[n].visible
        PROVE  EvidenceInv'
    BY <1>e, <1>s, <2>1, <2>2, <2>4 DEF Saved
  <2>5. CASE identity' = [identity EXCEPT ![p] = [@ EXCEPT !.enabled = FALSE, !.verified_at = now,
                                                          !.read = thread[n].started]]
    <3> DEFINE row == [identity[p] EXCEPT !.enabled = FALSE, !.verified_at = now,
                                          !.read = thread[n].started]
    <3>1. identity[p] \in IdentityRows /\ thread[n].started \in Nat
      BY <1>a, <1>t, <2>2 DEF DirectoryTypes, ThreadRows
    <3>2. row \in IdentityRows
      BY <1>a, <3>1 DEF IdentityRows
    <3>3. row.verified_at = now /\ row.enabled = FALSE
      BY <3>1 DEF IdentityRows
    <3>4. TimelyIdentity(row, p)
      BY <1>a, <3>3 DEF TimelyIdentity
    <3>5. identity' = [identity EXCEPT ![p] = row]
      BY <2>5
    <3> HIDE DEF row
    <3> QED
      BY <1>s, <2>1, <2>2, <3>2, <3>4, <3>5
  <2> QED
    BY <1>8, <2>3, <2>4, <2>5 DEF SaveRefresh
<1>9. ASSUME NEW p \in Employees, Leave(p) PROVE EvidenceInv'
  <2>1. /\ \A x \in Accounts : left'[x] = IF x = p THEN now ELSE left[x]
        /\ UNCHANGED <<identity, tree, thread, dropped, now>>
    BY <1>9, <1>a DEF Leave
  <2>2. \A x \in Employees : TimelyIdentity(identity[x], x)'
    BY <1>a, <2>1 DEF EvidenceInv, TimelyIdentity
  <2>3. \A n \in Processes : TimelyRow(thread[n])'
    BY <1>a, <1>t, <2>1 DEF TimelyRow, DirectoryTypes
  <2> QED
    BY <2>1, <2>2, <2>3 DEF EvidenceInv, TimelyTree
<1>10. CASE Drop
  <2>1. dropped' = now /\ UNCHANGED <<identity, tree, thread, left, now>>
    BY <1>10 DEF Drop
  <2>2. \A x \in Employees : TimelyIdentity(identity[x], x)'
    BY <2>1 DEF EvidenceInv, TimelyIdentity
  <2>3. \A n \in Processes : TimelyRow(thread[n])' /\ TimelyTree(tree[n])'
    BY <1>t, <2>1 DEF TimelyRow, TimelyTree
  <2> QED
    BY <2>2, <2>3 DEF EvidenceInv
<1>11. CASE Tick
  <2>1. now' = now + 1 /\ UNCHANGED <<identity, tree, thread, left, dropped>>
    BY <1>11 DEF Tick
  <2>2. \A x \in Employees : TimelyIdentity(identity[x], x)'
    BY <1>a, <2>1 DEF EvidenceInv, TimelyIdentity, DirectoryTypes, IdentityRows
  <2>3. \A n \in Processes : TimelyRow(thread[n])' /\ TimelyTree(tree[n])'
    BY <1>a, <1>t, <2>1 DEF TimelyRow, TimelyTree, ThreadRows, TreeRows
  <2> QED
    BY <2>2, <2>3 DEF EvidenceInv
<1>12. DirectoryNext => EvidenceInv'
  BY <1>1, <1>2, <1>3, <1>4, <1>5, <1>6, <1>7, <1>8, <1>9, <1>10, <1>11 DEF DirectoryNext, Ask
<1>13. AccountsNext \/ TokensNext \/ UNCHANGED vars => UNCHANGED dingVars
  BY AccountsDirectory, TokensFrame DEF authVars, vars, dingVars
<1> QED
  BY <1>12, <1>13, <1>b DEF Next

(* In directory mode an employee is served for less than RefreshTicks      *)
(* after he left the company or his department left the visible range.     *)
THEOREM OldEvidenceServesNobody == Spec => []ServedIsEmployed
<1>1. Init => EvidenceInv
  BY AccountsAssumption
     DEF Init, EvidenceInv, TimelyRow, TimelyTree, TimelyIdentity, Idle, Unlinked, Never
<1>2. TypeOK /\ EvidenceInv /\ [Next]_vars => EvidenceInv'
  BY EvidenceStep
<1>3. TypeOK /\ EvidenceInv => ServedIsEmployed
  <2> SUFFICES ASSUME TypeOK, EvidenceInv, mode = "dingtalk", NEW p \in Employees, Loadable(p)
               PROVE  now < left[p] + RefreshTicks /\ now < dropped + RefreshTicks
    BY DEF ServedIsEmployed
  <2>1. identity[p].linked /\ identity[p].enabled /\ Fresh(p)
    BY AccountsAssumption DEF Loadable, EffectiveIdentity
  <2>2. identity[p].verified_at <= left[p] /\ identity[p].verified_at <= dropped
    BY <2>1 DEF EvidenceInv, TimelyIdentity
  <2>3. /\ identity[p].verified_at \in Nat /\ left[p] \in Nat /\ dropped \in Nat /\ now \in Nat
        /\ RefreshTicks \in Nat
    BY AccountsAssumption DEF TypeOK, DirectoryTypes, IdentityRows
  <2> QED
    BY <2>1, <2>2, <2>3 DEF Fresh
<1> QED
  BY <1>1, <1>2, <1>3, AccessTypesHold, PTL DEF Spec
=============================================================================
