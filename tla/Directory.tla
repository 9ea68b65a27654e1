----------------------------- MODULE Directory -----------------------------
(***************************************************************************)
(* Login and access through the company directory (dingtalk_identity.py,   *)
(* dingtalk_login.py).  Every API process asks the directory outside any   *)
(* transaction and keeps the department tree for RefreshTicks; the row of  *)
(* an employee says when its evidence was taken and counts for             *)
(* RefreshTicks.  A process runs one such request at a time here, so its   *)
(* per-employee lock is left out; the processes race.                      *)
(*                                                                         *)
(* left[p] is when the employee left, dropped when the department left the *)
(* app's visible range: what the directory would answer.                   *)
(***************************************************************************)
EXTENDS Accounts

baseVars == <<mode, requests, tokenVars>>
worldVars == <<left, dropped, now>>

Earlier(a, b) == IF a < b THEN a ELSE b

(* exchange: the challenge is spent, the code tells the employee, login    *)
(* notes when it has the answer.                                           *)
Identify(n, p) ==
    /\ thread[n] = Idle /\ p \in Employees /\ left[p] = Never
    /\ thread' = [thread EXCEPT ![n] = [Idle EXCEPT !.pc = "tree", !.kind = "login", !.who = p,
                                                    !.active = TRUE, !.started = now]]
    /\ UNCHANGED <<baseVars, rowVars, sessions, invitations, epoch, sealed, identity, tree, worldVars>>

(* ensure_fresh of a requests, or synchronize: only evidence that has run   *)
(* out is renewed.                                                         *)
Recheck(n, p) ==
    /\ thread[n] = Idle /\ identity[p].linked /\ ~Fresh(p)
    /\ thread' = [thread EXCEPT ![n] = [Idle EXCEPT !.pc = "tree", !.kind = "refresh", !.who = p,
                                                    !.active = (left[p] = Never), !.started = now,
                                                    !.expected = identity[p].verified_at]]
    /\ UNCHANGED <<baseVars, rowVars, sessions, invitations, epoch, sealed, identity, tree, worldVars>>

(* hierarchy: the cached tree, or a new one, whose lifetime is counted     *)
(* from the end of the call and whose evidence from its beginning.         *)
CachedTree(n) ==
    /\ thread[n].pc = "tree" /\ tree[n].until > now
    /\ thread' = [thread EXCEPT ![n].pc = "save", ![n].at = tree[n].at, ![n].visible = tree[n].ok]
    /\ UNCHANGED <<baseVars, rowVars, sessions, invitations, epoch, sealed, identity, tree, worldVars>>

AskTree(n) ==
    /\ thread[n].pc = "tree" /\ tree[n].until <= now
    /\ thread' = [thread EXCEPT ![n].pc = "asking", ![n].at = now, ![n].visible = (dropped = Never)]
    /\ UNCHANGED <<baseVars, rowVars, sessions, invitations, epoch, sealed, identity, tree, worldVars>>

GetTree(n) ==
    /\ thread[n].pc = "asking"
    /\ tree' = [tree EXCEPT ![n] = [until |-> now + RefreshTicks, at |-> thread[n].at,
                                    ok |-> thread[n].visible]]
    /\ thread' = [thread EXCEPT ![n].pc = "save"]
    /\ UNCHANGED <<baseVars, rowVars, sessions, invitations, epoch, sealed, identity, worldVars>>

Forget(n) == thread' = [thread EXCEPT ![n] = Idle]

(* Any other failure of the directory: nothing is stored.                  *)
Unanswered(n) ==
    /\ thread[n].pc \in {"tree", "asking"}
    /\ Forget(n)
    /\ UNCHANGED <<baseVars, rowVars, sessions, invitations, epoch, sealed, identity, tree, worldVars>>

(* IdentityService.save.                                                   *)
Evidence_OfTheCall(n) == thread[n].started
Evidence(n) == Earlier(thread[n].started, thread[n].at)

Saved(n, enabled) ==
    identity' = [identity EXCEPT ![thread[n].who] =
                   [linked |-> TRUE, enabled |-> enabled, verified_at |-> Evidence(n),
                    read |-> thread[n].started]]

(* login: a new employee gets an account; an existing row is written over. *)
SaveLogin(n) ==
    LET p == thread[n].who IN
    /\ thread[n].pc = "save" /\ thread[n].kind = "login"
    /\ \/ /\ thread[n].visible /\ status[p] \in {"absent", "active"}
          /\ status' = [status EXCEPT ![p] = "active"]
          /\ Saved(n, TRUE)
          /\ thread' = [thread EXCEPT ![n].pc = "mint"]
       \/ /\ ~thread[n].visible \/ status[p] \notin {"absent", "active"}
          /\ Forget(n)
          /\ UNCHANGED <<status, identity>>
    /\ UNCHANGED <<baseVars, role, creator, organization, password, must_change, sessions,
                   invitations, epoch, sealed, tree, worldVars>>

(* exchange's second transaction, under the account's lock.                *)
Mint(n) ==
    LET p == thread[n].who IN
    /\ thread[n].pc = "mint"
    /\ sessions' = IF Loadable(p) THEN sessions \cup {Session(p, epoch[p])} ELSE sessions
    /\ Forget(n)
    /\ UNCHANGED <<baseVars, rowVars, invitations, epoch, sealed, identity, tree, worldVars>>

(* refresh_write_guard: another process has not replaced the evidence.     *)
Unreplaced(n) == identity[thread[n].who].verified_at = thread[n].expected

SaveRefresh(n) ==
    LET p == thread[n].who IN
    /\ thread[n].pc = "save" /\ thread[n].kind = "refresh"
    /\ Forget(n)
    /\ \/ /\ ~Unreplaced(n)
          /\ UNCHANGED <<identity, sessions, epoch, code, grant>>
       \/ /\ Unreplaced(n) /\ thread[n].active /\ thread[n].visible
          /\ Saved(n, TRUE)
          /\ UNCHANGED <<sessions, epoch, code, grant>>
       \/ /\ Unreplaced(n) /\ ~thread[n].active /\ thread[n].visible
          /\ MayRevoke
          /\ Saved(n, FALSE)
          /\ RevokeSessions(p, {})
       \/ /\ Unreplaced(n) /\ ~thread[n].visible /\ MayRevoke
          /\ identity' = [identity EXCEPT ![p].enabled = FALSE, ![p].verified_at = now,
                                          ![p].read = thread[n].started]
          /\ RevokeSessions(p, {})
    /\ UNCHANGED <<mode, requests, call, replayed, rowVars, invitations, sealed, tree, worldVars>>

(* What happens in the company.                                            *)
Leave(p) ==
    /\ p \in Employees /\ left[p] = Never
    /\ left' = [left EXCEPT ![p] = now]
    /\ UNCHANGED <<baseVars, rowVars, sessions, invitations, epoch, sealed, identity, tree, thread,
                   dropped, now>>

Drop ==
    /\ dropped = Never
    /\ dropped' = now
    /\ UNCHANGED <<baseVars, rowVars, sessions, invitations, epoch, sealed, identity, tree, thread,
                   left, now>>

Tick ==
    /\ now < MaxNow
    /\ now' = now + 1
    /\ UNCHANGED <<baseVars, rowVars, sessions, invitations, epoch, sealed, identity, tree, thread,
                   left, dropped>>

Ask(n) ==
    \/ \E p \in Employees : Identify(n, p) \/ Recheck(n, p)
    \/ CachedTree(n) \/ AskTree(n) \/ GetTree(n) \/ Unanswered(n)
    \/ SaveLogin(n) \/ Mint(n) \/ SaveRefresh(n)

DirectoryNext ==
    /\ mode = "dingtalk"
    /\ \/ \E n \in Processes : Ask(n)
       \/ \E p \in Employees : Leave(p)
       \/ Drop \/ Tick
=============================================================================
