------------------------------ MODULE Providers ------------------------------
(***************************************************************************)
(* The model routes of visual reading and their health                     *)
(* (provider_health.py, the route walk of vision.py).                      *)
(*                                                                         *)
(* In managed mode a primary and a backup route each have a list of models *)
(* to try in order.  A model that fails rests; when no primary model       *)
(* answers, the whole route is switched off for a fixed period.  Both are  *)
(* kept in SQLite and shared by every thread and process.  In the older,   *)
(* direct mode a request tries one model, then the backups, and nothing is *)
(* remembered.                                                             *)
(***************************************************************************)
EXTENDS Naturals, Sequences, SequencesExt

CONSTANTS
    Modes,            \* configurations to explore: "managed", "direct"
    Primary, Fallback,\* the models of each route, in the order they are tried
    RestTicks,        \* COOLDOWN_SECONDS
    DailyLimit,       \* vision_max_calls_per_day in each of them, 0 for none
    MaxNow            \* bound: outages end at this time

ASSUME RoutesAssumption ==
    /\ Modes \subseteq {"managed", "direct"}
    /\ Primary # <<>> /\ Fallback # <<>>
    /\ ToSet(Primary) \cap ToSet(Fallback) = {}
    /\ RestTicks \in Nat \ {0} /\ DailyLimit \in [Modes -> Nat] /\ MaxNow \in Nat

VARIABLES
    mode,             \* the configuration
    now,              \* time.time(), in ticks
    resting,          \* cooldowns: the time until which a model is not tried
    switched,         \* failovers: the time until which the primary is left alone
    calls             \* daily_calls of today

routeVars == <<mode, now, resting, switched, calls>>

Pool == [primary |-> Primary, fallback |-> Fallback]
Models == ToSet(Primary) \cup ToSet(Fallback)

RoutesInit ==
    /\ mode \in Modes
    /\ now = 0 /\ switched = 0 /\ calls = 0
    /\ resting = [m \in Models |-> 0]

(* What is over is deleted by the next access: a time in the past is no    *)
(* row.                                                                    *)
Switched == switched > now
Rested(m) == resting[m] <= now

(* The models to try on a route, as found when the walk reaches it.  The   *)
(* direct mode knows the first model of the primary route only.            *)
Walk(route) ==
    IF mode = "direct" THEN <<Head(Primary)>> \o Fallback ELSE SelectSeq(Pool[route], Rested)

Rest(ms) == resting' = [m \in Models |-> IF m \in ms THEN now + RestTicks ELSE resting[m]]

(* INSERT OR IGNORE: "later fallback failures must not extend the route's  *)
(* fixed half-hour period".                                                *)
StartFailover_Extends == switched' = now + RestTicks
StartFailover == switched' = IF Switched THEN switched ELSE now + RestTicks

(* _reserve: one transaction counts the request or finds the day spent.    *)
DaySpent == DailyLimit[mode] > 0 /\ calls >= DailyLimit[mode]
Reserve == calls' = IF DailyLimit[mode] > 0 THEN calls + 1 ELSE calls

(* The time is read only where something is timed out.                     *)
Tick ==
    /\ now < MaxNow
    /\ Switched \/ \E m \in Models : ~Rested(m)
    /\ now' = now + 1
    /\ UNCHANGED <<mode, resting, switched, calls>>

NewDay ==
    /\ calls > 0
    /\ calls' = 0
    /\ UNCHANGED <<mode, now, resting, switched>>
=============================================================================
