------------------------------ MODULE Services ------------------------------
(***************************************************************************)
(* Searches, previews, the native reading of large PDFs, the keys of the   *)
(* model providers and the installation of a server.  They share no state: *)
(* a behaviour is about one of them, chosen at the start, and the others   *)
(* stay where they are.  The line for query vectors is also looked at by   *)
(* itself, with more callers than there are searches that meet a change,   *)
(* and so are the corrections of an approver.                              *)
(***************************************************************************)
EXTENDS Search, Previews, Native, ApiKeys, Setup

CONSTANT Topics       \* parts to explore

ASSUME TopicsAssumption == Topics \subseteq {"queue", "search", "edit", "read", "preview", "thumbnail", "native",
                                   "keys", "setup"}

VARIABLE topic

vars == <<queueVars, searchVars, previewVars, nativeVars, keyVars, setupVars, topic>>

Init ==
    /\ topic \in Topics
    /\ QueueInit /\ SearchInit /\ PreviewsInit /\ NativeInit /\ KeysInit /\ SetupInit
    /\ topic \notin {"search", "edit", "read"} => published = {}
    /\ topic # "native" => long
    /\ topic # "keys" => \A n \in Profiles : legacy[n] = Nothing /\ managed[n] = Nothing

Queries == QueueNext \/ \E c \in Callers, t \in Texts : Arrive(c, t)

Next ==
    \/ /\ topic = "queue" /\ Queries
       /\ UNCHANGED <<searchVars, previewVars, nativeVars, keyVars, setupVars, topic>>
    \/ /\ topic = "search" /\ (LibraryNext \/ Searching)
       /\ UNCHANGED <<previewVars, nativeVars, keyVars, setupVars, topic>>
    \/ /\ topic = "edit" /\ (LibraryNext \/ Editing)
       /\ UNCHANGED <<previewVars, nativeVars, keyVars, setupVars, topic>>
    \/ /\ topic = "read" /\ (LibraryNext \/ Paging)
       /\ UNCHANGED <<previewVars, nativeVars, keyVars, setupVars, topic>>
    \/ /\ \/ topic = "preview" /\ PreviewsNext
          \/ topic = "thumbnail" /\ ThumbnailsNext
       /\ UNCHANGED <<queueVars, searchVars, nativeVars, keyVars, setupVars, topic>>
    \/ /\ topic = "native" /\ NativeNext
       /\ UNCHANGED <<queueVars, searchVars, previewVars, keyVars, setupVars, topic>>
    \/ /\ topic = "keys" /\ KeysNext
       /\ UNCHANGED <<queueVars, searchVars, previewVars, nativeVars, setupVars, topic>>
    \/ /\ topic = "setup" /\ SetupNext
       /\ UNCHANGED <<queueVars, searchVars, previewVars, nativeVars, keyVars, topic>>

(* A waiting thread goes on and its deadline comes, and who installs a     *)
(* server goes on and repeats the command; nothing is assumed of the       *)
(* model, of clients or of the other parts.                                *)
Waits(c) ==
    /\ LookAgain(c) \/ Return(c) \/ Expire(c)
    /\ UNCHANGED <<searchVars, previewVars, nativeVars, keyVars, setupVars, topic>>

Installs ==
    /\ topic = "setup" /\ \E i \in Installers : Install(i)
    /\ UNCHANGED <<queueVars, searchVars, previewVars, nativeVars, keyVars, topic>>

Fairness == WF_vars(Installs) /\ \A c \in Callers : WF_vars(Waits(c))

Spec == Init /\ [][Next]_vars /\ Fairness
=============================================================================
