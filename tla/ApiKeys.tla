------------------------------ MODULE ApiKeys ------------------------------
(***************************************************************************)
(* The keys of the model providers (api_keys.py, credential_crypto.py).    *)
(* There is one file for each profile, written anew with every change of   *)
(* its key or its model and encrypted with material that all share; an     *)
(* earlier release left plain files here and elsewhere.  Developers change *)
(* a profile at the API, the operator migrates while the services are      *)
(* stopped.  A process may be killed at any step.                          *)
(***************************************************************************)
EXTENDS Integers

CONSTANTS
    Developers,       \* requests to change a profile
    Operator,         \* the migration
    Profiles,         \* primary and fallback
    Models,
    MaxKeys,          \* bound: keys entered
    MaxMaterials,     \* bound: materials generated
    Nothing

ASSUME ApiKeysAssumption ==
    /\ Operator \notin Developers
    /\ Models # {} /\ MaxKeys \in Nat /\ MaxMaterials \in Nat
    /\ Nothing \notin Developers \cup [key : Nat, model : Models, under : Nat]

VARIABLES
    managed, legacy,  \* by profile: its file, and the one of the earlier release
    material,         \* .api-key-encryption.key: Missing, Hollow, or which one
    newest,           \* history: the last material generated
    administrator,    \* who holds the lock of the administration
    task,             \* what each request and the migration are doing
    serving,          \* the services are running
    entered,          \* keys entered so far
    overwritten       \* history: <<profile, key>> that a replacement ended

keyVars == <<managed, legacy, material, newest, administrator, task, serving, entered, overwritten>>

Missing == 0
Hollow == -1
NoTask == [pc |-> "none"]
File(key, model, under) == [key |-> key, model |-> model, under |-> under]
Plain(key, model) == File(key, model, 0)
Preferred == CHOOSE m \in Models : TRUE

KeysInit ==
    /\ legacy \in [Profiles -> {Nothing, Plain(0, Preferred)}]
    /\ managed \in [Profiles -> {Nothing, Plain(1, Preferred)}]
    /\ material = Missing /\ newest = 0
    /\ administrator = Nothing
    /\ task = [a \in Developers \cup {Operator} |-> NoTask]
    /\ serving = TRUE
    /\ entered = 1 /\ overwritten = {}

(* provider_profile, and _credential_models of what it finds.              *)
Current(n) == IF managed[n] # Nothing THEN managed[n] ELSE legacy[n]
Encrypted(file) == file # Nothing /\ file.under # 0
Readable(file) == file # Nothing /\ file.under \in {0, material}

-----------------------------------------------------------------------------
(* Reading what is there.  A request of the API waits for the lock.        *)
Turn_Anytime == TRUE
Turn == administrator = Nothing

Proceeds(a, change) == task' = [task EXCEPT ![a] = change]

Sealing(a, n, key, model, purpose) ==
    /\ Proceeds(a, [pc |-> "seal", profile |-> n, key |-> key, model |-> model, purpose |-> purpose])
    /\ UNCHANGED <<managed, legacy, material, newest, serving, overwritten>>

Asks(d) == serving /\ task[d] = NoTask /\ Turn /\ administrator' = d

(* replace_key: not beside a file of the earlier release, and not over one *)
(* that cannot be read.                                                    *)
Replace(d, n) ==
    /\ Asks(d) /\ entered < MaxKeys
    /\ legacy[n] = Nothing
    /\ managed[n] # Nothing => Readable(managed[n])
    /\ entered' = entered + 1
    /\ Sealing(d, n, entered', IF managed[n] = Nothing THEN Preferred ELSE managed[n].model, "replace")

(* select_model writes the key it has read with another model.             *)
Select(d, n, m) ==
    /\ Asks(d)
    /\ Readable(Current(n)) /\ Current(n).model # m
    /\ Sealing(d, n, Current(n).key, m, "select")
    /\ UNCHANGED entered

(* migrate_legacy: a profile of the earlier release moves here, unless it  *)
(* was configured here since; then plain files are encrypted in place.     *)
Migrates == ~serving /\ task[Operator] = NoTask /\ UNCHANGED <<administrator, entered>>

Move(n) ==
    /\ Migrates /\ legacy[n] # Nothing
    /\ IF managed[n] = Nothing THEN Sealing(Operator, n, legacy[n].key, legacy[n].model, "move")
       ELSE /\ Proceeds(Operator, [pc |-> "check", profile |-> n])
            /\ UNCHANGED <<managed, legacy, material, newest, serving, overwritten>>

Upgrade(n) ==
    /\ Migrates
    /\ managed[n] # Nothing /\ ~Encrypted(managed[n])
    /\ Sealing(Operator, n, managed[n].key, managed[n].model, "upgrade")

(* At its end the material is there, whether or not there was a key.       *)
Provision ==
    /\ Migrates
    /\ Proceeds(Operator, [pc |-> "seal", purpose |-> "provision"])
    /\ UNCHANGED <<managed, legacy, material, newest, serving, overwritten>>

-----------------------------------------------------------------------------
(* _cipher(create=True): material is made when there is none, but not when *)
(* some file is encrypted already: "never silently replace it and strand   *)
(* the other current credential".                                          *)
Missed_Anyway == FALSE
Missed == \E n \in Profiles : Encrypted(managed[n])

Seal(a) ==
    /\ task[a].pc = "seal"
    /\ IF material = Missing THEN ~Missed /\ Proceeds(a, [task[a] EXCEPT !.pc = "create"])
       ELSE material # Hollow /\ Proceeds(a, [task[a] EXCEPT !.pc = "write"])
    /\ UNCHANGED <<managed, legacy, material, newest, administrator, serving, entered, overwritten>>

(* O_EXCL: whoever comes second uses what the first has made.              *)
Create(a) ==
    /\ task[a].pc = "create"
    /\ material' = IF material = Missing THEN Hollow ELSE material
    /\ Proceeds(a, [task[a] EXCEPT !.pc = IF material = Missing THEN "fill" ELSE "seal"])
    /\ UNCHANGED <<managed, legacy, newest, administrator, serving, entered, overwritten>>

Fill(a) ==
    /\ task[a].pc = "fill" /\ newest < MaxMaterials
    /\ newest' = newest + 1 /\ material' = newest'
    /\ Proceeds(a, [task[a] EXCEPT !.pc = "seal"])
    /\ UNCHANGED <<managed, legacy, administrator, serving, entered, overwritten>>

Unlocks(a) == administrator' = IF administrator = a THEN Nothing ELSE administrator

(* _write renames a temporary file: readers find the old or the new one.   *)
SaveFile(a) ==
    LET n == task[a].profile IN
    /\ task[a].pc = "write" /\ task[a].purpose # "provision"
    /\ managed' = [managed EXCEPT ![n] = File(task[a].key, task[a].model, material)]
    /\ overwritten' = IF task[a].purpose = "replace" /\ managed[n] # Nothing
                      THEN overwritten \cup {<<n, managed[n].key>>} ELSE overwritten
    /\ Proceeds(a, IF task[a].purpose = "move" THEN [pc |-> "check", profile |-> n] ELSE NoTask)
    /\ Unlocks(a)
    /\ UNCHANGED <<legacy, material, newest, serving, entered>>

Provisioned ==
    /\ task[Operator].pc = "write" /\ task[Operator].purpose = "provision"
    /\ Proceeds(Operator, NoTask)
    /\ UNCHANGED <<managed, legacy, material, newest, administrator, serving, entered, overwritten>>

(* "Do not remove the old file unless the active profile is valid."        *)
Unlink(a) ==
    /\ task[a].pc = "check"
    /\ Readable(managed[task[a].profile])
    /\ legacy' = [legacy EXCEPT ![task[a].profile] = Nothing]
    /\ Proceeds(a, NoTask)
    /\ UNCHANGED <<managed, material, newest, administrator, serving, entered, overwritten>>

(* An error: half-made material is removed.  A kill leaves it, and since   *)
(* it exists nobody makes it again.                                        *)
Fail(a) ==
    /\ task[a] # NoTask
    /\ material' \in (IF task[a].pc = "fill" THEN {Missing, Hollow} ELSE {material})
    /\ Proceeds(a, NoTask) /\ Unlocks(a)
    /\ UNCHANGED <<managed, legacy, newest, serving, entered, overwritten>>

(* configure-server-services.ps1 refuses to migrate while services run.    *)
Stop ==
    /\ serving /\ \A d \in Developers : task[d] = NoTask
    /\ serving' = FALSE
    /\ UNCHANGED <<managed, legacy, material, newest, administrator, task, entered, overwritten>>

Serve ==
    /\ ~serving /\ task[Operator] = NoTask
    /\ serving' = TRUE
    /\ UNCHANGED <<managed, legacy, material, newest, administrator, task, entered, overwritten>>

(* The files are moved to another server, without the material; later it   *)
(* is brought along.                                                       *)
Relocate ==
    /\ ~serving /\ task[Operator] = NoTask
    /\ material' = IF material = Missing /\ newest # 0 THEN newest ELSE Missing
    /\ UNCHANGED <<managed, legacy, newest, administrator, task, serving, entered, overwritten>>

KeysNext ==
    \/ \E d \in Developers, n \in Profiles :
          Replace(d, n) \/ \E m \in Models : Select(d, n, m)
    \/ \E n \in Profiles : Move(n) \/ Upgrade(n)
    \/ \E a \in Developers \cup {Operator} :
          Seal(a) \/ Create(a) \/ Fill(a) \/ SaveFile(a) \/ Unlink(a) \/ Fail(a)
    \/ Provision \/ Provisioned \/ Stop \/ Serve \/ Relocate

-----------------------------------------------------------------------------
(* docs/server-setup.md: a new key overwrites the old one.  A change of    *)
(* the model that read the old key, a migration or a crash does not bring  *)
(* it back.                                                                *)
ReplacedKeyIsGone(n) == Current(n) # Nothing => <<n, Current(n).key>> \notin overwritten

(* A profile that has a key keeps one, through changes, migrations that    *)
(* are interrupted and repeated, and the loss of the material: a file that *)
(* is encrypted is so with the material made last.                         *)
KeyIsKept(n) ==
    Current(n) # Nothing => Current(n)' # Nothing /\ Current(n)'.under \in {0, newest'}

KeysAreKept == [][\A n \in Profiles : ReplacedKeyIsGone(n)' /\ KeyIsKept(n)]_keyVars
=============================================================================
