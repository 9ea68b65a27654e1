------------------------------- MODULE Setup --------------------------------
(***************************************************************************)
(* The installation of a server (server_setup.py): passwords, cluster,     *)
(* role, schema and models are made one after the other, and each step     *)
(* looks whether an earlier attempt already made what it makes.  "After an *)
(* interruption the same command continues; an existing database and its   *)
(* credentials are used again" (docs/server-setup.md:11).                  *)
(***************************************************************************)
EXTENDS Naturals

CONSTANTS
    Installers,       \* people who run the command
    MaxInterrupts     \* bound: attempts that are cut off or fail

ASSUME SetupAssumption == MaxInterrupts \in Nat

VARIABLES
    stage,            \* config/deployment.json
    maintenance,      \* config/maintenance.json: the owner's password, 0 without the file
    runtime,          \* config/runtime.json: the application's password
    cluster,          \* data/postgres: how far initdb got, and the owner's password in it
    role,             \* the password of agico_app in the database, 0 without the role
    up,               \* the database server runs
    setup,            \* by person: the next step, and the runtime.json it read
    made,             \* passwords generated so far
    interrupts

setupVars == <<stage, maintenance, runtime, cluster, role, up, setup, made, interrupts>>

Away == [pc |-> "away", password |-> 0]

SetupInit ==
    /\ stage = "preparing"
    /\ maintenance = 0
    /\ runtime = [text |-> "none", password |-> 0]
    /\ cluster = [state |-> "none", owner |-> 0]
    /\ role = 0 /\ up = FALSE
    /\ setup = [i \in Installers |-> Away]
    /\ made = 0 /\ interrupts = 0

Ahead(i, from, to) ==
    /\ setup[i].pc = from
    /\ setup' = [setup EXCEPT ![i].pc = to]

-----------------------------------------------------------------------------
(* initialize: the lock of the installation is free; the system releases   *)
(* that of a process that ends.  An initialized installation is left as it *)
(* is.                                                                     *)
Uninitialized == stage = "preparing"

Enter(i) ==
    /\ Uninitialized
    /\ \A j \in Installers : setup[j] = Away
    /\ Ahead(i, "away", "owner")
    /\ UNCHANGED <<stage, maintenance, runtime, cluster, role, up, made, interrupts>>

(* Both files appear at once and whole, and are never written over.        *)
Written(password) == [text |-> "whole", password |-> password]

SecureOwner(i) ==
    /\ Ahead(i, "owner", "runtime")
    /\ IF maintenance # 0 THEN UNCHANGED <<maintenance, made>>
       ELSE /\ cluster.state = "none"
            /\ made' = made + 1 /\ maintenance' = made'
    /\ UNCHANGED <<stage, runtime, cluster, role, up, interrupts>>

Known_Never == FALSE
Known == runtime.text # "none"

SecureRuntime(i) ==
    /\ Ahead(i, "runtime", "import")
    /\ IF Known THEN UNCHANGED <<runtime, made>>
       ELSE /\ made' = made + 1
            /\ runtime' = Written(made')
    /\ UNCHANGED <<stage, maintenance, cluster, role, up, interrupts>>

(* import_providers, when the package has a private bundle, writes the     *)
(* file over in place: first it is empty, then it has its new text.        *)
OverwriteRuntime(i) ==
    /\ runtime.text = "whole"
    /\ Ahead(i, "import", "write")
    /\ runtime' = [runtime EXCEPT !.text = "torn"]
    /\ UNCHANGED <<stage, maintenance, cluster, role, up, made, interrupts>>

WriteRuntime(i) ==
    /\ Ahead(i, "write", "read")
    /\ runtime' = [runtime EXCEPT !.text = "whole"]
    /\ UNCHANGED <<stage, maintenance, cluster, role, up, made, interrupts>>

ReadRuntime(i) ==
    /\ runtime.text = "whole"
    /\ setup[i].pc \in {"import", "read"}
    /\ setup' = [setup EXCEPT ![i] = [pc |-> "cluster", password |-> runtime.password]]
    /\ UNCHANGED <<stage, maintenance, runtime, cluster, role, up, made, interrupts>>

-----------------------------------------------------------------------------
(* initdb.  A directory it left unfinished is refused; should PG_VERSION   *)
(* be in it already, the server does not start from it.                    *)
InitCluster(i) ==
    /\ cluster.state = "none"
    /\ Ahead(i, "cluster", "initdb")
    /\ cluster' = [cluster EXCEPT !.state = "partial"]
    /\ UNCHANGED <<stage, maintenance, runtime, role, up, made, interrupts>>

ClusterMade(i) ==
    /\ Ahead(i, "initdb", "start")
    /\ cluster' = [state |-> "whole", owner |-> maintenance]
    /\ UNCHANGED <<stage, maintenance, runtime, role, up, made, interrupts>>

KeepCluster(i) ==
    /\ cluster.state = "whole"
    /\ Ahead(i, "cluster", "start")
    /\ UNCHANGED <<stage, maintenance, runtime, cluster, role, up, made, interrupts>>

Refuse(i) ==
    /\ \/ setup[i].pc = "import" /\ runtime.text = "torn"
       \/ setup[i].pc = "cluster" /\ cluster.state = "partial"
    /\ setup' = [setup EXCEPT ![i] = Away]
    /\ UNCHANGED <<stage, maintenance, runtime, cluster, role, up, made, interrupts>>

(* A server that an earlier attempt left running is used, and stopped at   *)
(* the end like one that was started here.                                 *)
Startable_Stopped == ~up
Startable == TRUE

StartServer(i) ==
    /\ Startable
    /\ Ahead(i, "start", "role")
    /\ up' = TRUE
    /\ UNCHANGED <<stage, maintenance, runtime, cluster, role, made, interrupts>>

CreateRole(i) ==
    /\ up /\ cluster.owner = maintenance
    /\ Ahead(i, "role", "provision")
    /\ role' = IF role = 0 THEN setup[i].password ELSE role
    /\ UNCHANGED <<stage, maintenance, runtime, cluster, up, made, interrupts>>

(* The schema, through the application's role, and the models; then their  *)
(* identity is added to the file, which is exchanged in one step.          *)
SetModels(i) ==
    /\ up /\ role = setup[i].password
    /\ Ahead(i, "provision", "stop")
    /\ runtime' = Written(setup[i].password)
    /\ UNCHANGED <<stage, maintenance, cluster, role, up, made, interrupts>>

StopServer(i) ==
    /\ Ahead(i, "stop", "mark")
    /\ up' = FALSE
    /\ UNCHANGED <<stage, maintenance, runtime, cluster, role, made, interrupts>>

MarkInitialized(i) ==
    /\ setup[i].pc = "mark"
    /\ stage' = "initialized"
    /\ setup' = [setup EXCEPT ![i] = Away]
    /\ UNCHANGED <<maintenance, runtime, cluster, role, up, made, interrupts>>

(* A command or a download fails, the process is killed, the power goes.   *)
(* The server may survive; initdb may remove what it made.                 *)
Interrupt(i) ==
    /\ setup[i] # Away
    /\ interrupts < MaxInterrupts /\ interrupts' = interrupts + 1
    /\ setup' = [setup EXCEPT ![i] = Away]
    /\ up' \in {up, FALSE}
    /\ cluster' \in {cluster} \cup
          (IF setup[i].pc = "initdb" THEN {[state |-> "none", owner |-> 0]} ELSE {})
    /\ UNCHANGED <<stage, maintenance, runtime, role, made>>

Install(i) ==
    \/ Enter(i) \/ SecureOwner(i) \/ SecureRuntime(i)
    \/ OverwriteRuntime(i) \/ WriteRuntime(i) \/ ReadRuntime(i)
    \/ InitCluster(i) \/ ClusterMade(i) \/ KeepCluster(i) \/ Refuse(i)
    \/ StartServer(i) \/ CreateRole(i) \/ SetModels(i)
    \/ StopServer(i) \/ MarkInitialized(i)

SetupNext == \E i \in Installers : Install(i) \/ Interrupt(i)

-----------------------------------------------------------------------------
(* "Existing database and credentials are used again": however often and   *)
(* wherever an installation was interrupted, the passwords in the files    *)
(* are those in the database.                                              *)
CredentialsFit ==
    /\ cluster.state = "whole" => maintenance = cluster.owner
    /\ role # 0 => runtime.password = role
    /\ stage = "initialized" => role # 0 /\ runtime.text = "whole"

(* What only a person can repair: initdb was cut off, or the writing over  *)
(* of runtime.json.                                                        *)
Spoiled ==
    /\ \A i \in Installers : setup[i].pc \notin {"write", "initdb"}
    /\ runtime.text = "torn" \/ cluster.state = "partial"

(* "After an interruption the same command continues": an installation     *)
(* that was begun is finished, unless it was cut off at one of those two   *)
(* points.                                                                 *)
SetupContinues == (\E i \in Installers : setup[i] # Away) ~> (stage = "initialized" \/ Spoiled)
=============================================================================
