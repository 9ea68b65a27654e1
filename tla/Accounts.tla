------------------------------ MODULE Accounts ------------------------------
(***************************************************************************)
(* Accounts, browser sessions and invitations (accounts.py).               *)
(*                                                                         *)
(* A browser request is two transactions: the middleware of main.py reads  *)
(* the session, the handler writes under its locks (the actions below).    *)
(* In between the account may be disabled, moved or given another          *)
(* password.  The instance runs with local passwords or on the company     *)
(* directory (mode), which Directory adds; Tokens adds OAuth.              *)
(***************************************************************************)
EXTENDS Integers, FiniteSets

LOCAL INSTANCE Functions

CONSTANTS
    Accounts, Organizations,
    Employees,      \* accounts that exist in the company directory
    Maintainers,    \* superadministrators that keep their password there
    Modes,          \* {"local", "dingtalk"} or a part of it
    Codes, Calls, Grants,   \* authorizations, token requests and grants
    Processes,      \* API processes that ask the directory
    RefreshTicks,   \* settings.refresh_seconds, in ticks
    Connecting,     \* accounts that connect AI clients, by mode
    MaxRevocations, MaxInFlight, MaxMint, MaxNow, Nobody

ASSUME AccountsAssumption ==
    /\ Nobody \notin Accounts
    /\ Employees \subseteq Accounts /\ Maintainers \subseteq Accounts \ Employees
    /\ RefreshTicks \in Nat \ {0}
    /\ MaxRevocations \in [Modes -> Nat] /\ MaxInFlight \in Nat /\ MaxMint \in Nat /\ MaxNow \in Nat

VARIABLES
    mode,
    role, status, creator, organization, password, must_change,  \* account_users
    sessions,       \* live rows of account_sessions
    invitations,    \* unused, unrevoked, unexpired rows of account_invitations
    requests,       \* requests the middleware has let through
    epoch,          \* times the account's secrets were revoked
    sealed,         \* epoch of the last event that also ended its invitations
    code, grant, call, replayed,                                 \* Tokens
    identity, tree, thread, left, dropped, now                   \* Directory

rowVars   == <<role, status, creator, organization, password, must_change>>
tokenVars == <<code, grant, call, replayed>>
dingVars  == <<identity, tree, thread, left, dropped, now>>
vars == <<mode, rowVars, sessions, invitations, requests, epoch, sealed, tokenVars, dingVars>>

Roles  == {"superadmin", "manager", "user"}
Never  == MaxNow + 1
NoCode == [state |-> "none", owner |-> Nobody, epoch |-> 0]
NoGrant == [code |-> Nobody, owner |-> Nobody, epoch |-> 0, revoked |-> FALSE,
            minted |-> 0, used |-> {}, access |-> {}]
Idle == [pc |-> "idle", kind |-> "none", who |-> Nobody, active |-> FALSE,
         started |-> 0, at |-> 0, visible |-> FALSE, expected |-> 0]
Unlinked == [linked |-> FALSE, enabled |-> FALSE, verified_at |-> 0, read |-> 0]

Init ==
    /\ mode \in Modes
    /\ role = [p \in Accounts |-> "user"] /\ status = [p \in Accounts |-> "absent"]
    /\ creator = [p \in Accounts |-> Nobody]
    /\ organization \in [Accounts -> {CHOOSE o \in Organizations : TRUE}]
    /\ password = [p \in Accounts |-> 0] /\ must_change = [p \in Accounts |-> FALSE]
    /\ sessions = {} /\ invitations = {}
    /\ requests = {}
    /\ epoch = [p \in Accounts |-> 0] /\ sealed = [p \in Accounts |-> 0]
    /\ code = [c \in Codes |-> NoCode] /\ grant = [g \in Grants |-> NoGrant]
    /\ call = [k \in Calls |-> <<>>] /\ replayed = {}
    /\ identity = [p \in Accounts |-> Unlinked]
    /\ tree = [n \in Processes |-> [until |-> 0, at |-> 0, ok |-> FALSE]]
    /\ thread = [n \in Processes |-> Idle]
    /\ left = [p \in Accounts |-> Never] /\ dropped = Never /\ now = 0

(* A bound of the instance: how often secrets are revoked in all.          *)
MayRevoke == FoldFunction(LAMBDA a, b : a + b, 0, epoch) < MaxRevocations[mode]

-----------------------------------------------------------------------------
(* Reading an account.                                                     *)
Fresh(p) == identity[p].verified_at + RefreshTicks > now

(* effective_identity: the directory's evidence, or a maintenance account  *)
(* that has no entry there.                                                *)
EffectiveIdentity(p) ==
    \/ identity[p].linked /\ identity[p].enabled /\ Fresh(p)
    \/ ~identity[p].linked /\ p \in Maintainers /\ role[p] = "superadmin" /\ password[p] # 0

(* load_principal returns a principal.                                     *)
Loadable(p) ==
    /\ status[p] = "active"
    /\ IF mode = "dingtalk" THEN EffectiveIdentity(p) ELSE password[p] # 0

PasswordAllowed(p) == mode = "local" \/ (role[p] = "superadmin" /\ p \in Maintainers)
MustChange(p) == must_change[p] /\ ~identity[p].linked

(* scope_check without, and with, an existing target account.              *)
Scope(actor, r, o) ==
    \/ role[actor] = "superadmin"
    \/ role[actor] = "manager" /\ r \in {"manager", "user"} /\ o = organization[actor]

ScopeOver(actor, r, o, target) ==
    /\ Scope(actor, r, o)
    /\ \/ role[actor] = "superadmin"
       \/ /\ creator[target] = actor
          /\ role[target] \in {"manager", "user"}
          /\ organization[target] = organization[actor]

-----------------------------------------------------------------------------
(* revoke_sessions: sessions, grants and unused codes of the account, and  *)
(* the sessions opened in the same transaction.                            *)
RevokeSessions_KeepsCodes(p, opened) ==
    /\ epoch' = [epoch EXCEPT ![p] = @ + 1]
    /\ sessions' = {s \in sessions : s.owner # p} \cup opened
    /\ grant' = [g \in Grants |-> IF grant[g].owner = p
                                  THEN [grant[g] EXCEPT !.revoked = TRUE] ELSE grant[g]]
    /\ code' = code

RevokeSessions(p, opened) ==
    /\ epoch' = [epoch EXCEPT ![p] = @ + 1]
    /\ sessions' = {s \in sessions : s.owner # p} \cup opened
    /\ grant' = [g \in Grants |-> IF grant[g].owner = p
                                  THEN [grant[g] EXCEPT !.revoked = TRUE] ELSE grant[g]]
    /\ code' = [c \in Codes |-> IF code[c].owner = p
                                THEN [code[c] EXCEPT !.state = "used"] ELSE code[c]]

Session(p, e) == [owner |-> p, epoch |-> e]
Others(p) == {i \in invitations : i.to # p}
Issued(p, actor) == Others(p) \cup {[to |-> p, by |-> actor, epoch |-> epoch[p]]}

-----------------------------------------------------------------------------
(* bootstrap_superadmin, once.                                             *)
Bootstrap(p) ==
    /\ \A x \in Accounts : status[x] = "absent"
    /\ mode = "dingtalk" => p \in Maintainers
    /\ role' = [role EXCEPT ![p] = "superadmin"]
    /\ status' = [status EXCEPT ![p] = "active"]
    /\ password' = [password EXCEPT ![p] = 1]
    /\ must_change' = [must_change EXCEPT ![p] = TRUE]
    /\ UNCHANGED <<mode, creator, organization, sessions, invitations, requests, epoch, sealed,
                   tokenVars, dingVars>>

(* password_login with the right password.                                 *)
PasswordLogin(p) ==
    /\ PasswordAllowed(p) /\ password[p] # 0 /\ status[p] = "active"
    /\ sessions' = sessions \cup {Session(p, epoch[p])}
    /\ UNCHANGED <<mode, rowVars, invitations, requests, epoch, sealed, tokenVars, dingVars>>

(* What the middleware reads of a session (authenticate_session); the      *)
(* person at the browser knows the password of that moment.                *)
Arriving == {[owner |-> s.owner, epoch |-> s.epoch, password |-> password[s.owner]] :
                s \in {x \in sessions : Loadable(x.owner)}}

(* A request whose handler runs at once need not wait in requests.         *)
Admitted == requests \cup Arriving

Begin(q) ==
    /\ Cardinality(requests) < MaxInFlight /\ q \in Arriving
    /\ requests' = requests \cup {q}
    /\ UNCHANGED <<mode, rowVars, sessions, invitations, epoch, sealed, tokenVars, dingVars>>

Answer(q) == requests' = requests \ {q}

(* An error response.                                                      *)
Refuse(q) ==
    /\ q \in requests
    /\ Answer(q)
    /\ UNCHANGED <<mode, rowVars, sessions, invitations, epoch, sealed, tokenVars, dingVars>>

(* require_current_session, under the account's row lock.                  *)
CurrentSession_Unchecked(q) ==
    Loadable(q.owner) /\ ~MustChange(q.owner)

CurrentSession(q) ==
    /\ Loadable(q.owner) /\ ~MustChange(q.owner)
    /\ Session(q.owner, q.epoch) \in sessions

ManagementActor(q) == CurrentSession(q) /\ role[q.owner] \in {"superadmin", "manager"}

Logout(q) ==
    /\ sessions' = sessions \ {Session(q.owner, q.epoch)}
    /\ Answer(q)
    /\ UNCHANGED <<mode, rowVars, invitations, epoch, sealed, tokenVars, dingVars>>

(* change_password checks the current password under the row lock, not the *)
(* session or the status.                                                  *)
ChangePassword(q) ==
    LET p == q.owner IN
    /\ MayRevoke
    /\ PasswordAllowed(p)
    /\ q.password = password[p]
    /\ password' = [password EXCEPT ![p] = @ + 1]
    /\ must_change' = [must_change EXCEPT ![p] = FALSE]
    /\ RevokeSessions(p, {Session(p, epoch[p] + 1)})
    /\ invitations' = Others(p)
    /\ sealed' = [sealed EXCEPT ![p] = epoch[p] + 1]
    /\ Answer(q)
    /\ UNCHANGED <<mode, role, status, creator, organization, call, replayed, dingVars>>

Invite(q, p, r, o) ==
    /\ mode = "local" /\ ManagementActor(q)
    /\ Scope(q.owner, r, o) /\ status[p] = "absent"
    /\ role' = [role EXCEPT ![p] = r]
    /\ status' = [status EXCEPT ![p] = "invited"]
    /\ creator' = [creator EXCEPT ![p] = q.owner]
    /\ organization' = [organization EXCEPT ![p] = o]
    /\ invitations' = Issued(p, q.owner)
    /\ Answer(q)
    /\ UNCHANGED <<mode, password, must_change, sessions, epoch, sealed, tokenVars, dingVars>>

Resend(q, p) ==
    /\ mode = "local" /\ ManagementActor(q)
    /\ status[p] \in {"invited", "active"}
    /\ ScopeOver(q.owner, role[p], organization[p], p)
    /\ invitations' = Issued(p, q.owner)
    /\ Answer(q)
    /\ UNCHANGED <<mode, rowVars, sessions, epoch, sealed, tokenVars, dingVars>>

LastSuperadmin_Blind(p) == FALSE
LastSuperadmin(p) ==
    /\ role[p] = "superadmin" /\ status[p] = "active"
    /\ Cardinality({x \in Accounts : role[x] = "superadmin" /\ status[x] = "active"}) <= 1

Update(q, p, r, o, active) ==
    /\ ManagementActor(q) /\ MayRevoke
    /\ status[p] # "absent" /\ ScopeOver(q.owner, r, o, p)
    /\ LastSuperadmin(p) => r = "superadmin" /\ active
    /\ role' = [role EXCEPT ![p] = r]
    /\ organization' = [organization EXCEPT ![p] = o]
    /\ status' = [status EXCEPT ![p] =
                    CASE ~active -> "disabled"
                      [] active /\ (password[p] # 0 \/ identity[p].linked) -> "active"
                      [] OTHER -> "invited"]
    /\ RevokeSessions(p, {})
    /\ invitations' = IF active THEN invitations ELSE Others(p)
    /\ sealed' = IF active THEN sealed ELSE [sealed EXCEPT ![p] = epoch[p] + 1]
    /\ Answer(q)
    /\ UNCHANGED <<mode, creator, password, must_change, call, replayed, dingVars>>

(* activate_account: valid_invitation under the account's lock, which asks *)
(* again whether the issuer still has authority over the recipient.        *)
Honoured(i) ==
    /\ status[i.to] # "disabled"
    /\ Loadable(i.by)
    /\ ScopeOver(i.by, role[i.to], organization[i.to], i.to)

Activate(i) ==
    LET p == i.to IN
    /\ mode = "local" /\ i \in invitations /\ Honoured(i)
    /\ MayRevoke
    /\ invitations' = invitations \ {i}
    /\ password' = [password EXCEPT ![p] = @ + 1]
    /\ must_change' = [must_change EXCEPT ![p] = FALSE]
    /\ status' = [status EXCEPT ![p] = "active"]
    /\ RevokeSessions(p, {Session(p, epoch[p] + 1)})
    /\ sealed' = [sealed EXCEPT ![p] = epoch[p] + 1]
    /\ UNCHANGED <<mode, role, creator, organization, requests, call, replayed, dingVars>>

Manage(q) ==
    \E p \in Accounts :
        \/ Resend(q, p)
        \/ \E r \in Roles, o \in Organizations :
              Invite(q, p, r, o) \/ \E active \in BOOLEAN : Update(q, p, r, o, active)

AccountsNext ==
    \/ \E p \in Accounts : Bootstrap(p) \/ PasswordLogin(p)
    \/ \E q \in Admitted :
          Begin(q) \/ Refuse(q) \/ Logout(q) \/ ChangePassword(q) \/ Manage(q)
    \/ \E i \in invitations : Activate(i)
=============================================================================
