------------------------------- MODULE Tokens -------------------------------
(***************************************************************************)
(* OAuth for AI clients (account_oauth.py, auth.py): consent in the        *)
(* browser, single-use codes, and a family of rotating tokens per grant.   *)
(*                                                                         *)
(* A token request is two transactions: the SDK loads the code or refresh  *)
(* token, then exchanges it.  code[c] is a pending authorization and the   *)
(* code it becomes.  The n-th pair of tokens of a grant is n: access holds *)
(* the access tokens not yet expired, used the refresh tokens spent.       *)
(***************************************************************************)
EXTENDS Accounts

authVars == <<mode, rowVars, sessions, invitations, epoch, sealed, dingVars>>

Usable(p) == Loadable(p) /\ ~MustChange(p)

(* An unspent refresh token exists beside these.                           *)
Unspent(g) == (1 .. grant[g].minted) \ grant[g].used

Authorize(c) ==
    /\ code[c].state = "none" /\ Connecting[mode] # {}
    /\ code' = [code EXCEPT ![c].state = "pending"]
    /\ UNCHANGED <<authVars, requests, grant, call, replayed>>

(* The code carries the epoch of the session that consented to it.         *)
Consent(q, c, approved) ==
    /\ CurrentSession(q) /\ q.owner \in Connecting[mode] /\ code[c].state = "pending"
    /\ code' = [code EXCEPT ![c] =
                  IF approved THEN [state |-> "unused", owner |-> q.owner, epoch |-> q.epoch]
                  ELSE [@ EXCEPT !.state = "used"]]
    /\ Answer(q)
    /\ UNCHANGED <<authVars, grant, call, replayed>>

LoadCode(k, c) ==
    /\ call[k] = <<>>
    /\ code[c].state = "unused" /\ Usable(code[c].owner)
    /\ call' = [call EXCEPT ![k] = <<"code", c>>]
    /\ UNCHANGED <<authVars, requests, code, grant, replayed>>

(* UPDATE ... WHERE used_at IS NULL RETURNING: the exchange is what spends *)
(* the code, not the load.                                                 *)
Redeemable(c) == Usable(code[c].owner) /\ code[c].state = "unused"

ExchangeCode(k, c, g) ==
    /\ call[k] = <<"code", c>> /\ grant[g] = NoGrant
    /\ Redeemable(c)
    /\ code' = [code EXCEPT ![c].state = "used"]
    /\ grant' = [grant EXCEPT ![g] = [code |-> c, owner |-> code[c].owner, epoch |-> code[c].epoch,
                                      revoked |-> FALSE, minted |-> 1, used |-> {}, access |-> {1}]]
    /\ call' = [call EXCEPT ![k] = <<>>]
    /\ UNCHANGED <<authVars, requests, replayed>>

(* A refresh token seen twice ends the family, at the load ...             *)
Replay(g) ==
    /\ grant' = [grant EXCEPT ![g].revoked = TRUE]
    /\ replayed' = replayed \cup {g}

LoadRefresh(k, g, n) ==
    /\ call[k] = <<>> /\ n \in 1 .. grant[g].minted
    /\ \/ n \in grant[g].used /\ g \notin replayed /\ Replay(g) /\ UNCHANGED call
       \/ /\ n \notin grant[g].used /\ ~grant[g].revoked /\ Usable(grant[g].owner)
          /\ call' = [call EXCEPT ![k] = <<"refresh", g, n>>]
          /\ UNCHANGED <<grant, replayed>>
    /\ UNCHANGED <<authVars, requests, code>>

(* ... and at the exchange, when two loads preceded the first of them: the *)
(* error is raised after the transaction, so that the revocation commits.  *)
Replayed_RolledBack(g) == grant' = grant /\ replayed' = replayed \cup {g}
Replayed(g) == Replay(g)

Spent_Loaded(g, n) == FALSE
Spent(g, n) == n \in grant[g].used

ExchangeRefresh(k, g, n) ==
    /\ call[k] = <<"refresh", g, n>>
    /\ call' = [call EXCEPT ![k] = <<>>]
    /\ \/ Spent(g, n) /\ Replayed(g)
       \/ /\ ~Spent(g, n) /\ ~grant[g].revoked /\ Usable(grant[g].owner)
          /\ grant[g].minted < MaxMint
          /\ grant' = [grant EXCEPT ![g].used = @ \cup {n}, ![g].minted = @ + 1,
                                    ![g].access = {grant[g].minted + 1}]
          /\ UNCHANGED replayed
    /\ UNCHANGED <<authVars, requests, code>>

(* The token request fails, or its client went away after the load.        *)
Fail(k) ==
    /\ call[k] # <<>>
    /\ call' = [call EXCEPT ![k] = <<>>]
    /\ UNCHANGED <<authVars, requests, code, grant, replayed>>

RevokeToken(g) ==
    /\ grant[g] # NoGrant /\ ~grant[g].revoked
    /\ grant' = [grant EXCEPT ![g].revoked = TRUE]
    /\ UNCHANGED <<authVars, requests, code, call, replayed>>

(* authenticate and load_access_token serve a request with this token.     *)
Served(g, n) == n \in grant[g].access /\ ~grant[g].revoked /\ Usable(grant[g].owner)

TokensNext ==
    \/ \E c \in Codes :
          \/ Authorize(c)
          \/ \E q \in Admitted, approved \in BOOLEAN : Consent(q, c, approved)
          \/ \E k \in Calls : LoadCode(k, c) \/ \E g \in Grants : ExchangeCode(k, c, g)
    \/ \E k \in Calls, g \in Grants, n \in 1 .. MaxMint :
          LoadRefresh(k, g, n) \/ ExchangeRefresh(k, g, n)
    \/ \E k \in Calls : Fail(k)
    \/ \E g \in Grants : RevokeToken(g)
=============================================================================
