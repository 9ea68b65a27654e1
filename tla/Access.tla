------------------------------- MODULE Access -------------------------------
(***************************************************************************)
(* Who gets in: accounts, tokens and the company directory together, and   *)
(* what an administrator who takes access away may rely on.                *)
(***************************************************************************)
EXTENDS Tokens, Directory

Next == AccountsNext \/ TokensNext \/ DirectoryNext

Spec == Init /\ [][Next]_vars

(* Nothing handed out before an account's secrets were revoked works after *)
(* it (disabled, moved, password changed or reset, directory identity      *)
(* gone), whatever was under way then: every live session, unused code,    *)
(* grant and invitation descends from a login or an act of a manager after *)
(* the last revocation that covers it.                                     *)
NoOldSecrets ==
    /\ \A s \in sessions : s.epoch = epoch[s.owner]
    /\ \A c \in Codes : code[c].state = "unused" => code[c].epoch = epoch[code[c].owner]
    /\ \A g \in Grants : grant[g] # NoGrant /\ ~grant[g].revoked
                            => grant[g].epoch = epoch[grant[g].owner]
    /\ \A i \in invitations : i.epoch >= sealed[i.to]

(* An administrator whose access was taken away while a request of his was *)
(* on its way changes no account with it.  change_password is excepted, by *)
(* the conjunct on passwords: it asks for the present password under the   *)
(* lock of its own row, but for neither the session nor the status again   *)
(* (accounts.py:403-414).                                                  *)
ManagedByCurrent ==
    \A q \in requests \ requests' :
        /\ <<role, status, organization, invitations>>' # <<role, status, organization, invitations>>
        /\ password' = password
        => q.epoch = epoch[q.owner]

OldRequestsChangeNothing == [][ManagedByCurrent]_vars

(* Once there is a superadministrator there always is one who can log in,  *)
(* also when the last two remove each other at the same time.              *)
SuperadminRemains ==
    (\E p \in Accounts : status[p] # "absent") /\ mode = "local" =>
        \E p \in Accounts : role[p] = "superadmin" /\ status[p] = "active" /\ password[p] # 0

(* A code becomes one grant, and a grant has one line of tokens: at most   *)
(* one refresh token to continue with and one access token that serves,    *)
(* although the same code or token may be loaded twice before it is spent. *)
OneLine ==
    /\ \A g, h \in Grants : grant[g] # NoGrant /\ grant[h] # NoGrant
                               /\ grant[g].code = grant[h].code => g = h
    /\ \A g \in Grants : Cardinality(Unspent(g)) <= 1 /\ Cardinality(grant[g].access) <= 1

(* "Reuse revocation must commit": whoever presents a spent refresh token  *)
(* ends the family, so a stolen token stops working for both sides.        *)
ReplayEndsFamily == \A g \in replayed : \A n \in 1 .. MaxMint : ~Served(g, n)

(* In directory mode nobody is served on evidence older than the refresh   *)
(* interval: of the employee, or of the department tree, which are read at *)
(* different times and cached one inside the other.                        *)
ServedIsEmployed ==
    mode = "dingtalk" =>
        \A p \in Employees : Loadable(p) =>
            now < left[p] + RefreshTicks /\ now < dropped + RefreshTicks

(* docs/design/dingtalk-identity.md: an older answer of the directory      *)
(* never replaces a newer one another process has stored.                  *)
EvidenceAdvances == \A p \in Accounts : identity'[p].read >= identity[p].read

NewestEvidenceWins == [][EvidenceAdvances]_vars
=============================================================================
