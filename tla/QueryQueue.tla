----------------------------- MODULE QueryQueue -----------------------------
(***************************************************************************)
(* The vector of a search text (embeddings.py, QueryEmbedding): callers    *)
(* wait in line under one condition variable, the caller at the head may   *)
(* submit one native call to a pool of one thread, and vectors are kept    *)
(* for texts that come again.  A native call cannot be interrupted and may *)
(* never end; a caller gives up at its deadline.                           *)
(***************************************************************************)
EXTENDS Naturals, Sequences, FiniteSets

CONSTANTS
    Callers,          \* API threads, one query each
    Texts,            \* texts to search for
    Short,            \* those short enough to be kept (500 characters)
    MaxPending        \* MAX_PENDING, the running call included

ASSUME QueueAssumption ==
    /\ Short \subseteq Texts
    /\ MaxPending \in Nat \ {0}

VARIABLES
    waiting,          \* _waiting: the callers in line
    active,           \* _active: a call was submitted and has not been released
    closed,           \* _closed
    cache,            \* _cache: texts whose vector is known
    at,               \* what each caller is doing
    text,             \* what it asks for
    late,             \* its deadline has passed
    future,           \* the future it submitted
    calling           \* callers whose future has its callback to run

queueVars == <<waiting, active, closed, cache, at, text, late, future, calling>>

QueueInit ==
    /\ waiting = <<>> /\ active = FALSE /\ closed = FALSE /\ cache = {}
    /\ at = [c \in Callers |-> "idle"]
    /\ text = [c \in Callers |-> CHOOSE t \in Texts : TRUE]
    /\ late = [c \in Callers |-> FALSE]
    /\ future = [c \in Callers |-> "none"]
    /\ calling = {}

(* notify_all.                                                             *)
Awoken == [c \in Callers |-> IF at[c] = "asleep" THEN "awake" ELSE at[c]]

Full == Len(waiting) + (IF active THEN 1 ELSE 0) >= MaxPending

End(c, outcome) == at' = [at EXCEPT ![c] = outcome] /\ UNCHANGED waiting

(* deque.remove: the place of the ticket closes up.                        *)
InLine(c) == \E i \in DOMAIN waiting : waiting[i] = c
Place(c)  == CHOOSE i \in DOMAIN waiting : waiting[i] = c
Without(c) ==
    IF InLine(c) THEN SubSeq(waiting, 1, Place(c) - 1) \o SubSeq(waiting, Place(c) + 1, Len(waiting))
    ELSE waiting

(* The finally block: out of the line, and everyone looks again.           *)
Leave_Quietly(c, outcome) ==
    /\ waiting' = Without(c)
    /\ at' = [at EXCEPT ![c] = outcome]
Leave(c, outcome) ==
    /\ waiting' = Without(c)
    /\ at' = [Awoken EXCEPT ![c] = outcome]

(* The pool may refuse (no thread can be started).                         *)
Submit(c) ==
    \/ /\ active' = TRUE
       /\ future' = [future EXCEPT ![c] = "queued"]
       /\ calling' = calling \cup {c}
       /\ Leave(c, "result")
    \/ Leave(c, "failed") /\ UNCHANGED <<active, future, calling>>

(* query, up to the first wait.                                            *)
Arrive(c, t) ==
    /\ at[c] = "idle"
    /\ text' = [text EXCEPT ![c] = t]
    /\ \/ /\ closed \/ (t \notin cache /\ Full)
          /\ End(c, "failed") /\ UNCHANGED <<active, future, calling>>
       \/ /\ ~closed /\ t \in cache
          /\ End(c, "got") /\ UNCHANGED <<active, future, calling>>
       \/ /\ ~closed /\ t \notin cache /\ ~Full
          /\ IF waiting = <<>> /\ ~active THEN Submit(c)
             ELSE /\ waiting' = Append(waiting, c)
                  /\ at' = [at EXCEPT ![c] = "asleep"]
                  /\ UNCHANGED <<active, future, calling>>
    /\ UNCHANGED <<closed, cache, late>>

(* One turn of the waiting loop.                                           *)
LookAgain(c) ==
    /\ at[c] = "awake"
    /\ \/ /\ closed \/ (text[c] \notin cache /\ late[c])
          /\ Leave(c, "failed") /\ UNCHANGED <<active, future, calling>>
       \/ /\ ~closed /\ text[c] \in cache
          /\ Leave(c, "got") /\ UNCHANGED <<active, future, calling>>
       \/ /\ ~closed /\ text[c] \notin cache /\ ~late[c]
          /\ IF ~active /\ Head(waiting) = c THEN Submit(c)
             ELSE End(c, "asleep") /\ UNCHANGED <<active, future, calling>>
    /\ UNCHANGED <<closed, cache, text, late>>

(* _query on the pool's only thread: one future at a time, until its       *)
(* callback has run.                                                       *)
Unfinished == {"queued", "running", "stored"}

Run(c) ==
    /\ future[c] = "queued"
    /\ \A b \in calling \ {c} : future[b] = "queued"
    /\ future' = [future EXCEPT ![c] = "running"]
    /\ UNCHANGED <<waiting, active, closed, cache, at, text, late, calling>>

(* The native call returns: the vector is kept before anyone is woken.     *)
Keep(c) ==
    /\ future[c] = "running"
    /\ cache' = IF ~closed /\ text[c] \in Short THEN cache \cup {text[c]} ELSE cache
    /\ future' = [future EXCEPT ![c] = "stored"]
    /\ UNCHANGED <<waiting, active, closed, at, text, late, calling>>

(* set_result, or set_exception when the call raised.                      *)
Resolve(c) ==
    /\ \/ future[c] = "stored" /\ future' = [future EXCEPT ![c] = "done"]
       \/ future[c] = "running" /\ future' = [future EXCEPT ![c] = "broken"]
    /\ UNCHANGED <<waiting, active, closed, cache, at, text, late, calling>>

(* _release_execution, the callback of a finished or cancelled future.     *)
Release(c) ==
    /\ c \in calling /\ future[c] \in {"done", "broken", "cancelled"}
    /\ calling' = calling \ {c}
    /\ active' = FALSE
    /\ at' = Awoken
    /\ UNCHANGED <<waiting, closed, cache, text, late, future>>

Return(c) ==
    /\ at[c] = "result" /\ future[c] \in {"done", "broken", "cancelled"}
    /\ End(c, IF future[c] = "done" THEN "got" ELSE "failed")
    /\ UNCHANGED <<active, closed, cache, text, late, future, calling>>

(* The deadline passes.  A caller in line wakes up; one that waits for its *)
(* result leaves, and cancels the call if it has not begun: "Cancellation  *)
(* cannot stop native work".                                               *)
Cancelled_Freed(c) ==
    /\ active' = FALSE
    /\ at' = [Awoken EXCEPT ![c] = "failed"]
    /\ future' = IF future[c] = "queued" THEN [future EXCEPT ![c] = "cancelled"] ELSE future
Cancelled(c) ==
    /\ at' = [at EXCEPT ![c] = "failed"]
    /\ future' = IF future[c] = "queued" THEN [future EXCEPT ![c] = "cancelled"] ELSE future
    /\ UNCHANGED active

Pressed_InLine == {c \in Callers : at[c] \in {"asleep", "awake"}}
Pressed == {c \in Callers : at[c] \in {"asleep", "awake", "result"}}

Expire(c) ==
    /\ c \in Pressed /\ ~late[c]
    /\ late' = [late EXCEPT ![c] = TRUE]
    /\ IF at[c] = "result" THEN future[c] \in Unfinished /\ Cancelled(c)
       ELSE at' = [at EXCEPT ![c] = "awake"] /\ UNCHANGED <<active, future>>
    /\ UNCHANGED <<waiting, closed, cache, text, calling>>

(* An entry is too old, or one too many.                                   *)
Forget(t) ==
    /\ t \in cache
    /\ cache' = cache \ {t}
    /\ UNCHANGED <<waiting, active, closed, at, text, late, future, calling>>

(* close, in two steps: the callers are sent away, then the pool is.       *)
Close ==
    /\ ~closed
    /\ closed' = TRUE /\ cache' = {}
    /\ at' = Awoken
    /\ UNCHANGED <<waiting, active, text, late, future, calling>>

Shutdown ==
    /\ closed /\ \E c \in Callers : future[c] = "queued"
    /\ future' = [c \in Callers |-> IF future[c] = "queued" THEN "cancelled" ELSE future[c]]
    /\ UNCHANGED <<waiting, active, closed, cache, at, text, late, calling>>

QueueNext ==
    \/ \E c \in Callers :
          LookAgain(c) \/ Run(c) \/ Keep(c) \/ Resolve(c) \/ Release(c) \/ Return(c) \/ Expire(c)
    \/ \E t \in Texts : Forget(t)
    \/ Close \/ Shutdown

-----------------------------------------------------------------------------
(* "A hung model never builds an executor backlog": however many callers   *)
(* give up, at most one call is before the pool, and no more callers than  *)
(* allowed are in line behind it.                                          *)
NoBacklog ==
    /\ Cardinality({c \in Callers : future[c] \in Unfinished}) <= 1
    /\ Len(waiting) + (IF active THEN 1 ELSE 0) <= MaxPending

(* No wakeup is lost: when the pool is free, whoever is at the head of the *)
(* line is about to look, however the caller before it left.               *)
HeadIsAwake == ~active /\ waiting # <<>> => at[Head(waiting)] # "asleep"

(* The line behind the model neither grows without bound nor stops moving. *)
LineMoves == NoBacklog /\ HeadIsAwake

(* Also with a native call that never ends every search gets a vector or   *)
(* an error, by its deadline at the latest.                                *)
EveryQueryReturns == \A c \in Callers : at[c] # "idle" ~> at[c] \in {"got", "failed"}
=============================================================================
