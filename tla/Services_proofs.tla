--------------------------- MODULE Services_proofs ---------------------------
(***************************************************************************)
(* Proofs about the services beside the library (module Services).  They   *)
(* share no state: a step of one leaves the invariant of the others.       *)
(***************************************************************************)
EXTENDS Services, FiniteSetTheorems, TLAPS

-----------------------------------------------------------------------------
(* The line for query vectors.                                             *)
CallerStates == {"idle", "asleep", "awake", "result", "got", "failed"}
FutureStates == {"none", "queued", "running", "stored", "done", "broken", "cancelled"}

QueueTypes ==
    /\ waiting \in Seq(Callers) /\ active \in BOOLEAN /\ closed \in BOOLEAN
    /\ at \in [Callers -> CallerStates] /\ future \in [Callers -> FutureStates]
    /\ calling \subseteq Callers
    /\ late \in [Callers -> BOOLEAN]

(* One call is before the pool, until its callback has run.                *)
OneCall ==
    /\ active <=> calling # {}
    /\ \A b, c \in calling : b = c
    /\ \A c \in Callers : future[c] \in Unfinished => c \in calling

(* Who waits stands in the line, once.                                     *)
OneTicket ==
    /\ \A i \in DOMAIN waiting : at[waiting[i]] \in {"asleep", "awake"}
    /\ \A i, j \in DOMAIN waiting : waiting[i] = waiting[j] => i = j
    /\ \A c \in Callers : at[c] \in {"asleep", "awake"} => InLine(c)

Room == Len(waiting) + (IF active THEN 1 ELSE 0) <= MaxPending

QueueInv == QueueTypes /\ OneCall /\ OneTicket /\ Room /\ HeadIsAwake

(* Leaving the line.                                                       *)
LEMMA Shorter ==
    ASSUME QueueTypes, OneTicket, NEW c \in Callers
    PROVE  /\ Without(c) \in Seq(Callers)
           /\ ~InLine(c) => Without(c) = waiting
           /\ InLine(c) => Len(Without(c)) = Len(waiting) - 1
           /\ \A i \in DOMAIN Without(c) : \E j \in DOMAIN waiting :
                 Without(c)[i] = waiting[j] /\ waiting[j] # c
           /\ \A i, j \in DOMAIN Without(c) : Without(c)[i] = Without(c)[j] => i = j
           /\ \A d \in Callers \ {c} :
                 InLine(d) => \E i \in DOMAIN Without(c) : Without(c)[i] = d
<1>1. CASE ~InLine(c)
  BY <1>1 DEF QueueTypes, OneTicket, Without, InLine
<1>2. CASE InLine(c)
  <2> DEFINE p == Place(c)
             rest == SubSeq(waiting, 1, p - 1) \o SubSeq(waiting, p + 1, Len(waiting))
  <2>1. p \in 1 .. Len(waiting) /\ waiting[p] = c
    BY <1>2 DEF QueueTypes, InLine, Place
  <2>2. \A j \in DOMAIN waiting : j # p => waiting[j] # c
    BY <2>1 DEF OneTicket, QueueTypes
  <2>3. /\ rest \in Seq(Callers) /\ Len(rest) = Len(waiting) - 1
        /\ \A i \in 1 .. Len(waiting) - 1 : rest[i] = IF i < p THEN waiting[i] ELSE waiting[i + 1]
    <3> DEFINE front == SubSeq(waiting, 1, p - 1)
               back == SubSeq(waiting, p + 1, Len(waiting))
    <3>1. /\ front \in Seq(Callers) /\ Len(front) = p - 1
          /\ \A i \in 1 .. p - 1 : front[i] = waiting[i]
      BY <2>1 DEF QueueTypes
    <3>2. /\ back \in Seq(Callers) /\ Len(back) = Len(waiting) - p
          /\ \A i \in 1 .. Len(waiting) - p : back[i] = waiting[p + i]
      BY <2>1 DEF QueueTypes
    <3>3. rest = front \o back
      OBVIOUS
    <3> HIDE DEF front, back, rest, p
    <3>4. rest \in Seq(Callers) /\ Len(rest) = Len(waiting) - 1
      BY <2>1, <3>1, <3>2, <3>3 DEF QueueTypes
    <3>5. ASSUME NEW i \in 1 .. Len(waiting) - 1
          PROVE rest[i] = IF i < p THEN waiting[i] ELSE waiting[i + 1]
      <4>1. CASE i < p
        BY <2>1, <3>1, <3>2, <3>3, <4>1 DEF QueueTypes
      <4>2. CASE i >= p
        <5>1. i - (p - 1) \in 1 .. Len(waiting) - p /\ p + (i - (p - 1)) = i + 1
          BY <2>1, <4>2 DEF QueueTypes
        <5>2. rest[i] = back[i - (p - 1)]
          BY <2>1, <3>1, <3>2, <3>3, <4>2 DEF QueueTypes
        <5> QED
          BY <2>1, <3>2, <4>2, <5>1, <5>2 DEF QueueTypes
      <4> QED
        BY <2>1, <4>1, <4>2 DEF QueueTypes
    <3> QED
      BY <3>4, <3>5
  <2>4. Without(c) = rest
    BY <1>2 DEF Without
  <2> HIDE DEF p, rest
  <2>5. ASSUME NEW i \in DOMAIN rest PROVE \E j \in DOMAIN waiting : rest[i] = waiting[j] /\ waiting[j] # c
    <3>1. i \in 1 .. Len(waiting) - 1
      BY <2>3
    <3>2. CASE i < p
      <4>1. i \in DOMAIN waiting /\ i # p /\ rest[i] = waiting[i]
        BY <2>1, <2>3, <3>1, <3>2 DEF QueueTypes
      <4> QED
        BY <2>2, <4>1
    <3>3. CASE i >= p
      <4>1. i + 1 \in DOMAIN waiting /\ i + 1 # p /\ rest[i] = waiting[i + 1]
        BY <2>1, <2>3, <3>1, <3>3 DEF QueueTypes
      <4> QED
        BY <2>2, <4>1
    <3> QED
      BY <2>1, <3>1, <3>2, <3>3
  <2>6. \A i, j \in DOMAIN rest : rest[i] = rest[j] => i = j
    <3> DEFINE from(i) == IF i < p THEN i ELSE i + 1
    <3>1. \A i \in DOMAIN rest : i \in Nat /\ from(i) \in DOMAIN waiting /\ rest[i] = waiting[from(i)]
      BY <2>1, <2>3 DEF QueueTypes
    <3>2. \A i, j \in DOMAIN rest : from(i) = from(j) => i = j
      BY <2>1, <3>1
    <3> HIDE DEF from
    <3> QED
      BY <3>1, <3>2 DEF OneTicket
  <2>7. ASSUME NEW d \in Callers \ {c}, InLine(d) PROVE \E i \in DOMAIN rest : rest[i] = d
    <3>1. PICK j \in 1 .. Len(waiting) : waiting[j] = d /\ j # p
      BY <2>1, <2>7 DEF InLine, QueueTypes
    <3>2. CASE j < p
      BY <2>1, <2>3, <3>1, <3>2 DEF QueueTypes
    <3>3. CASE j > p
      <4>1. j - 1 \in 1 .. Len(waiting) - 1 /\ rest[j - 1] = d
        BY <2>1, <2>3, <3>1, <3>3 DEF QueueTypes
      <4> QED
        BY <2>3, <4>1
    <3> QED
      BY <2>1, <3>1, <3>2, <3>3
  <2> QED
    BY <1>2, <2>3, <2>4, <2>5, <2>6, <2>7
<1> QED
  BY <1>1, <1>2

(* The finally block: who leaves wakes the line behind it.                 *)
LEMMA Leaving ==
    ASSUME QueueInv, NEW c \in Callers, NEW outcome \in {"result", "got", "failed"}, Leave(c, outcome)
    PROVE  /\ waiting' \in Seq(Callers) /\ at' \in [Callers -> CallerStates]
           /\ OneTicket' /\ HeadIsAwake'
           /\ Len(waiting') <= Len(waiting)
           /\ InLine(c) => Len(waiting') = Len(waiting) - 1
<1> DEFINE rest == Without(c)
<1>1. waiting' = rest /\ at' = [Awoken EXCEPT ![c] = outcome]
  BY DEF Leave
<1>2. /\ rest \in Seq(Callers)
      /\ ~InLine(c) => rest = waiting
      /\ InLine(c) => Len(rest) = Len(waiting) - 1
      /\ \A i \in DOMAIN rest : \E j \in DOMAIN waiting : rest[i] = waiting[j] /\ waiting[j] # c
      /\ \A i, j \in DOMAIN rest : rest[i] = rest[j] => i = j
      /\ \A d \in Callers \ {c} : InLine(d) => \E i \in DOMAIN rest : rest[i] = d
  BY Shorter DEF QueueInv
<1> HIDE DEF rest
<1>3. Len(waiting) \in Nat /\ Len(rest) \in Nat
  BY <1>2 DEF QueueInv, QueueTypes
<1>4. /\ at' \in [Callers -> CallerStates] /\ at'[c] = outcome
      /\ \A d \in Callers \ {c} : at'[d] = IF at[d] = "asleep" THEN "awake" ELSE at[d]
  BY <1>1 DEF QueueInv, QueueTypes, CallerStates, Awoken
<1>5. OneTicket'
  <2>1. ASSUME NEW i \in DOMAIN rest PROVE at'[rest[i]] \in {"asleep", "awake"}
    <3>1. PICK j \in DOMAIN waiting : rest[i] = waiting[j] /\ waiting[j] # c
      BY <1>2, <2>1
    <3>2. waiting[j] \in Callers
      BY <3>1 DEF QueueInv, QueueTypes
    <3> QED
      BY <1>4, <3>1, <3>2 DEF QueueInv, OneTicket
  <2>2. ASSUME NEW d \in Callers, at'[d] \in {"asleep", "awake"} PROVE \E i \in DOMAIN rest : rest[i] = d
    BY <1>2, <1>4, <2>2 DEF QueueInv, OneTicket
  <2> QED
    BY <1>1, <1>2, <2>1, <2>2 DEF OneTicket, InLine
<1>6. HeadIsAwake'
  <2>1. \A d \in Callers : at'[d] # "asleep"
    BY <1>4
  <2> QED
    BY <1>1, <1>2, <2>1 DEF HeadIsAwake
<1> QED
  BY <1>1, <1>2, <1>3, <1>4, <1>5, <1>6

(* As long as nobody goes to sleep and the line is as it was, it is fine.  *)
LEMMA SameLine ==
    ASSUME QueueInv, waiting' = waiting, at' \in [Callers -> CallerStates],
           \A d \in Callers : (at'[d] \in {"asleep", "awake"}) <=> (at[d] \in {"asleep", "awake"})
    PROVE  OneTicket'
BY DEF QueueInv, QueueTypes, OneTicket, InLine

LEMMA Submitting ==
    ASSUME QueueInv, NEW c \in Callers, Submit(c), ~active, ~Full \/ InLine(c), UNCHANGED <<closed, late>>
    PROVE  QueueInv'
<1>1. CASE /\ active' = TRUE /\ future' = [future EXCEPT ![c] = "queued"]
           /\ calling' = calling \cup {c} /\ Leave(c, "result")
  <2>1. /\ waiting' \in Seq(Callers) /\ at' \in [Callers -> CallerStates]
        /\ OneTicket' /\ HeadIsAwake'
        /\ Len(waiting') <= Len(waiting) /\ (InLine(c) => Len(waiting') = Len(waiting) - 1)
    BY <1>1, Leaving
  <2>2. QueueTypes'
    BY <1>1, <2>1 DEF QueueInv, QueueTypes, FutureStates
  <2>3. OneCall'
    BY <1>1 DEF QueueInv, QueueTypes, OneCall, Unfinished
  <2>4. Len(waiting) \in Nat /\ Len(waiting') \in Nat
    BY <2>1 DEF QueueInv, QueueTypes
  <2>5. Room'
    BY <1>1, <2>1, <2>4, QueueAssumption DEF QueueInv, QueueTypes, Room, Full
  <2> QED
    BY <2>1, <2>2, <2>3, <2>5 DEF QueueInv
<1>2. CASE Leave(c, "failed") /\ UNCHANGED <<active, future, calling>>
  <2>1. /\ waiting' \in Seq(Callers) /\ at' \in [Callers -> CallerStates]
        /\ OneTicket' /\ HeadIsAwake' /\ Len(waiting') <= Len(waiting)
    BY <1>2, Leaving
  <2>2. QueueTypes' /\ OneCall'
    BY <1>2, <2>1 DEF QueueInv, QueueTypes, OneCall
  <2>3. Len(waiting) \in Nat /\ Len(waiting') \in Nat
    BY <2>1 DEF QueueInv, QueueTypes
  <2>4. Room'
    BY <1>2, <2>1, <2>3, QueueAssumption DEF QueueInv, QueueTypes, Room
  <2> QED
    BY <2>1, <2>2, <2>4 DEF QueueInv
<1> QED
  BY <1>1, <1>2 DEF Submit

LEMMA Arriving ==
    ASSUME QueueInv, NEW c \in Callers, NEW t \in Texts, Arrive(c, t)
    PROVE  QueueInv'
<1> USE DEF QueueInv
<1>1. at[c] = "idle" /\ UNCHANGED <<closed, late>>
  BY DEF Arrive
<1>2. CASE \E outcome \in {"got", "failed"} : End(c, outcome) /\ UNCHANGED <<active, future, calling>>
  <2>1. PICK outcome \in {"got", "failed"} : End(c, outcome)
    BY <1>2
  <2>2. /\ waiting' = waiting /\ at' \in [Callers -> CallerStates]
        /\ \A d \in Callers : at'[d] = IF d = c THEN outcome ELSE at[d]
    BY <2>1 DEF End, QueueTypes, CallerStates
  <2>3. OneTicket'
    BY <1>1, <2>2, SameLine
  <2>4. QueueTypes' /\ OneCall' /\ Room'
    BY <1>1, <1>2, <2>2 DEF QueueTypes, OneCall, Room
  <2>5. HeadIsAwake'
    BY <1>1, <1>2, <2>2 DEF HeadIsAwake, QueueTypes, OneTicket
  <2> QED
    BY <2>3, <2>4, <2>5
<1>3. CASE ~Full /\ waiting = <<>> /\ ~active /\ Submit(c)
  BY <1>1, <1>3, Submitting
<1>4. CASE /\ ~Full /\ ~(waiting = <<>> /\ ~active)
           /\ waiting' = Append(waiting, c) /\ at' = [at EXCEPT ![c] = "asleep"]
           /\ UNCHANGED <<active, future, calling>>
  <2>1. /\ Len(waiting) \in Nat /\ waiting' \in Seq(Callers) /\ Len(waiting') = Len(waiting) + 1
        /\ \A i \in DOMAIN waiting : waiting'[i] = waiting[i]
        /\ waiting'[Len(waiting) + 1] = c
    BY <1>4 DEF QueueTypes
  <2>2. /\ at' \in [Callers -> CallerStates]
        /\ \A d \in Callers : at'[d] = IF d = c THEN "asleep" ELSE at[d]
    BY <1>4 DEF QueueTypes, CallerStates
  <2>3. \A i \in DOMAIN waiting : waiting[i] \in Callers /\ waiting[i] # c
    BY <1>1 DEF QueueTypes, OneTicket
  <2>4. OneTicket'
    <3>1. \A i \in DOMAIN waiting' : i \in DOMAIN waiting \/ i = Len(waiting) + 1
      BY <2>1 DEF QueueTypes
    <3>2. \A i \in DOMAIN waiting' : at'[waiting'[i]] \in {"asleep", "awake"}
      BY <2>1, <2>2, <2>3, <3>1 DEF OneTicket
    <3>3. ASSUME NEW i \in DOMAIN waiting', NEW j \in DOMAIN waiting', waiting'[i] = waiting'[j] PROVE i = j
      BY <2>1, <2>3, <3>1, <3>3 DEF OneTicket
    <3>4. ASSUME NEW d \in Callers, at'[d] \in {"asleep", "awake"}
          PROVE \E i \in DOMAIN waiting' : waiting'[i] = d
      <4>1. CASE d = c
        BY <2>1, <4>1 DEF QueueTypes
      <4>2. CASE d # c
        <5>1. PICK i \in DOMAIN waiting : waiting[i] = d
          BY <2>2, <3>4, <4>2 DEF OneTicket, InLine
        <5> QED
          BY <2>1, <5>1 DEF QueueTypes
      <4> QED
        BY <4>1, <4>2
    <3> QED
      BY <3>2, <3>3, <3>4 DEF OneTicket, InLine
  <2>5. QueueTypes' /\ OneCall'
    BY <1>1, <1>4, <2>1, <2>2 DEF QueueTypes, OneCall
  <2>6. Room'
    BY <1>4, <2>1, QueueAssumption DEF QueueTypes, Room, Full
  <2>7. HeadIsAwake'
    <3>1. CASE active
      BY <1>4, <3>1 DEF HeadIsAwake
    <3>2. CASE ~active
      <4>1. waiting # <<>> /\ 1 \in DOMAIN waiting /\ Head(waiting) = waiting[1]
        BY <1>4, <3>2 DEF QueueTypes
      <4>2. Head(waiting') = waiting[1]
        BY <2>1, <4>1
      <4> QED
        BY <2>2, <2>3, <3>2, <4>1, <4>2 DEF HeadIsAwake
    <3> QED
      BY <3>1, <3>2
  <2> QED
    BY <2>4, <2>5, <2>6, <2>7
<1> QED
  BY <1>2, <1>3, <1>4 DEF Arrive

LEMMA Looking ==
    ASSUME QueueInv, NEW c \in Callers, LookAgain(c)
    PROVE  QueueInv'
<1> USE DEF QueueInv
<1>1. at[c] = "awake" /\ UNCHANGED <<closed, late>>
  BY DEF LookAgain
<1>2. CASE \E outcome \in {"got", "failed"} : Leave(c, outcome) /\ UNCHANGED <<active, future, calling>>
  <2>1. PICK outcome \in {"got", "failed"} : Leave(c, outcome)
    BY <1>2
  <2>2. /\ waiting' \in Seq(Callers) /\ at' \in [Callers -> CallerStates]
        /\ OneTicket' /\ HeadIsAwake' /\ Len(waiting') <= Len(waiting)
    BY <2>1, Leaving
  <2>3. QueueTypes' /\ OneCall'
    BY <1>1, <1>2, <2>2 DEF QueueTypes, OneCall
  <2>4. Len(waiting) \in Nat /\ Len(waiting') \in Nat
    BY <2>2 DEF QueueTypes
  <2>5. Room'
    BY <1>2, <2>2, <2>4, QueueAssumption DEF QueueTypes, Room
  <2> QED
    BY <2>2, <2>3, <2>5
<1>3. CASE ~active /\ Submit(c)
  BY <1>1, <1>3, Submitting DEF OneTicket
<1>4. CASE ~(~active /\ Head(waiting) = c) /\ End(c, "asleep") /\ UNCHANGED <<active, future, calling>>
  <2>1. /\ waiting' = waiting /\ at' \in [Callers -> CallerStates]
        /\ \A d \in Callers : at'[d] = IF d = c THEN "asleep" ELSE at[d]
    BY <1>4 DEF End, QueueTypes, CallerStates
  <2>2. OneTicket'
    BY <1>1, <2>1, SameLine
  <2>3. QueueTypes' /\ OneCall' /\ Room'
    BY <1>1, <1>4, <2>1 DEF QueueTypes, OneCall, Room
  <2>4. HeadIsAwake'
    BY <1>4, <2>1 DEF HeadIsAwake, QueueTypes
  <2> QED
    BY <2>2, <2>3, <2>4
<1> QED
  BY <1>2, <1>3, <1>4 DEF LookAgain

(* What happens to the call itself, and to who waits for it.               *)
LEMMA PoolSteps ==
    ASSUME QueueInv, NEW c \in Callers,
           Run(c) \/ Keep(c) \/ Resolve(c) \/ Release(c) \/ Return(c) \/ Expire(c)
    PROVE  QueueInv'
<1> USE DEF QueueInv
<1>1. CASE Run(c) \/ Keep(c) \/ Resolve(c)
  <2>1. UNCHANGED <<waiting, active, closed, at, late, calling>>
    BY <1>1 DEF Run, Keep, Resolve
  <2>2. PICK new \in FutureStates : future' = [future EXCEPT ![c] = new]
    BY <1>1 DEF Run, Keep, Resolve, FutureStates
  <2>3. future[c] \in Unfinished
    BY <1>1 DEF Run, Keep, Resolve, Unfinished
  <2>4. QueueTypes' /\ OneCall' /\ Room'
    BY <2>1, <2>2, <2>3 DEF QueueTypes, OneCall, Room
  <2>5. OneTicket' /\ HeadIsAwake'
    BY <2>1 DEF OneTicket, InLine, HeadIsAwake
  <2> QED
    BY <2>4, <2>5
<1>2. CASE Release(c)
  <2>1. /\ at' \in [Callers -> CallerStates]
        /\ \A d \in Callers : at'[d] = IF at[d] = "asleep" THEN "awake" ELSE at[d]
    BY <1>2 DEF Release, Awoken, QueueTypes, CallerStates
  <2>2. waiting' = waiting
    BY <1>2 DEF Release
  <2>3. OneTicket'
    BY <2>1, <2>2, SameLine
  <2>4. HeadIsAwake'
    BY <2>1, <2>2 DEF HeadIsAwake, QueueTypes
  <2>5. QueueTypes' /\ OneCall'
    BY <1>2, <2>1 DEF Release, QueueTypes, OneCall, Unfinished
  <2>6. Room'
    BY <1>2, QueueAssumption DEF Release, Room, QueueTypes
  <2> QED
    BY <2>3, <2>4, <2>5, <2>6
<1>3. CASE Return(c) \/ (Expire(c) /\ at[c] = "result")
  <2>1. PICK outcome \in {"got", "failed"} : at' = [at EXCEPT ![c] = outcome]
    BY <1>3 DEF Return, Expire, End, Cancelled
  <2>2. at[c] = "result" /\ UNCHANGED <<waiting, active, closed, calling>>
    BY <1>3 DEF Return, Expire, End, Cancelled
  <2>3. /\ at' \in [Callers -> CallerStates]
        /\ \A d \in Callers : at'[d] = IF d = c THEN outcome ELSE at[d]
    BY <2>1 DEF QueueTypes, CallerStates
  <2>4. OneTicket'
    BY <2>2, <2>3, SameLine
  <2>5. HeadIsAwake'
    BY <2>2, <2>3 DEF HeadIsAwake, QueueTypes, OneTicket
  <2>6. /\ future' \in [Callers -> FutureStates] /\ late' \in [Callers -> BOOLEAN]
        /\ \A d \in Callers : future'[d] \in Unfinished => future[d] \in Unfinished
    BY <1>3 DEF Return, Expire, Cancelled, QueueTypes, FutureStates, Unfinished
  <2>7. QueueTypes' /\ OneCall' /\ Room'
    BY <2>2, <2>3, <2>6 DEF QueueTypes, OneCall, Room
  <2> QED
    BY <2>4, <2>5, <2>7
<1>4. CASE Expire(c) /\ at[c] # "result"
  <2>1. /\ waiting' = waiting /\ at' \in [Callers -> CallerStates]
        /\ \A d \in Callers : at'[d] = IF d = c THEN "awake" ELSE at[d]
    BY <1>4 DEF Expire, QueueTypes, CallerStates
  <2>2. at[c] \in {"asleep", "awake"}
    BY <1>4 DEF Expire, Pressed
  <2>3. OneTicket'
    BY <2>1, <2>2, SameLine
  <2>4. QueueTypes' /\ OneCall' /\ Room'
    BY <1>4, <2>1 DEF Expire, QueueTypes, OneCall, Room
  <2>5. HeadIsAwake'
    BY <1>4, <2>1 DEF Expire, HeadIsAwake, QueueTypes
  <2> QED
    BY <2>3, <2>4, <2>5
<1> QED
  BY <1>1, <1>2, <1>3, <1>4

LEMMA Closing ==
    ASSUME QueueInv, (\E t \in Texts : Forget(t)) \/ Close \/ Shutdown \/ UNCHANGED queueVars
    PROVE  QueueInv'
<1> USE DEF QueueInv
<1>1. UNCHANGED <<waiting, active, late, calling>> /\ closed' \in BOOLEAN
  BY DEF Forget, Close, Shutdown, queueVars, QueueTypes
<1>2. /\ at' \in [Callers -> CallerStates]
      /\ \A d \in Callers : at'[d] = at[d] \/ (at[d] = "asleep" /\ at'[d] = "awake")
  BY DEF Forget, Close, Shutdown, queueVars, QueueTypes, Awoken, CallerStates
<1>3. /\ future' \in [Callers -> FutureStates]
      /\ \A d \in Callers : future'[d] \in Unfinished => future[d] \in Unfinished
  BY DEF Forget, Close, Shutdown, queueVars, QueueTypes, FutureStates, Unfinished
<1>4. OneTicket'
  BY <1>1, <1>2, SameLine
<1>5. HeadIsAwake'
  BY <1>1, <1>2 DEF HeadIsAwake, QueueTypes
<1>6. QueueTypes' /\ OneCall' /\ Room'
  BY <1>1, <1>2, <1>3 DEF QueueTypes, OneCall, Room
<1> QED
  BY <1>4, <1>5, <1>6

LEMMA QueueSteps == ASSUME QueueInv, Queries \/ UNCHANGED queueVars PROVE QueueInv'
BY Arriving, Looking, PoolSteps, Closing DEF Queries, QueueNext

LEMMA QueueStarts == QueueInit => QueueInv
<1> SUFFICES ASSUME QueueInit PROVE QueueInv
  OBVIOUS
<1>1. QueueTypes /\ OneCall
  <2>1. /\ waiting = <<>> /\ ~active /\ active \in BOOLEAN /\ closed \in BOOLEAN /\ calling = {}
        /\ \A c \in Callers : future[c] = "none"
    BY DEF QueueInit
  <2>2. waiting \in Seq(Callers)
    BY <2>1
  <2>3. /\ at \in [Callers -> CallerStates] /\ future \in [Callers -> FutureStates]
        /\ late \in [Callers -> BOOLEAN]
    BY DEF QueueInit, CallerStates, FutureStates
  <2> QED
    BY <2>1, <2>2, <2>3 DEF QueueTypes, OneCall, Unfinished
<1>2. OneTicket
  <2>1. DOMAIN waiting = {}
    BY DEF QueueInit
  <2>2. \A c \in Callers : at[c] = "idle"
    BY DEF QueueInit
  <2> QED
    BY <2>1, <2>2 DEF OneTicket
<1>3. Room /\ HeadIsAwake
  BY QueueAssumption DEF QueueInit, Room, HeadIsAwake
<1> QED
  BY <1>1, <1>2, <1>3 DEF QueueInv

LEMMA QueueMoves == QueueInv => LineMoves
<1> SUFFICES ASSUME QueueInv PROVE LineMoves
  OBVIOUS
<1> DEFINE open == {c \in Callers : future[c] \in Unfinished}
<1>1. \A b, c \in open : b = c
  BY DEF QueueInv, OneCall
<1>2. Cardinality(open) <= 1
  <2>1. CASE open = {}
    BY <2>1, FS_EmptySet
  <2>2. CASE open # {}
    <3>1. PICK c \in open : open = {c}
      BY <1>1, <2>2
    <3>2. Cardinality({c}) = 1
      BY FS_Singleton
    <3> QED
      BY <3>1, <3>2
  <2> QED
    BY <2>1, <2>2
<1> QED
  BY <1>2 DEF QueueInv, Room, LineMoves, NoBacklog

-----------------------------------------------------------------------------
(* A step of one service leaves the others where they are.                 *)
LEMMA Apart ==
    ASSUME [Next]_vars
    PROVE  /\ Queries \/ UNCHANGED queueVars
           /\ LibraryNext \/ Searching \/ Editing \/ Paging \/ UNCHANGED searchVars
           /\ PreviewsNext \/ ThumbnailsNext \/ UNCHANGED previewVars
           /\ NativeNext \/ UNCHANGED nativeVars
           /\ KeysNext \/ UNCHANGED keyVars
           /\ SetupNext \/ UNCHANGED setupVars
<1>1. Queries \/ UNCHANGED queueVars
  <2>1. LibraryNext => UNCHANGED queueVars
    BY DEF LibraryNext, Library
  <2>2. Editing \/ Paging => UNCHANGED queueVars
    BY DEF Editing, CheckDraft, LockVersion, Save, Edit, Paging, OpenVersion, FindChunk, TakePage, Page
  <2>3. Searching => Queries \/ UNCHANGED queueVars
    BY SearchAssumption DEF Searching, Begin, BeginFiles, Collect, Hydrate, Recheck, Queries
  <2> QED
    BY <2>1, <2>2, <2>3 DEF Next, vars
<1> QED
  BY <1>1 DEF Next, vars

(* Whatever callers give up, cancel and find closed: at most one native    *)
(* call is before the pool, the line behind it is within its bound, and    *)
(* when the pool is free whoever is at the head of the line is awake.      *)
THEOREM TheLineMoves == Spec => []LineMoves
<1>1. Init => QueueInv
  BY QueueStarts DEF Init
<1>2. QueueInv /\ [Next]_vars => QueueInv'
  BY Apart, QueueSteps
<1>3. QueueInv => LineMoves
  BY QueueMoves
<1> QED
  BY <1>1, <1>2, <1>3, PTL DEF Spec

-----------------------------------------------------------------------------
(* The installation.                                                       *)
Steps == {"away", "owner", "runtime", "import", "write", "read", "cluster", "initdb", "start", "role",
          "provision", "stop", "mark"}
HaveRead == {"cluster", "initdb", "start", "role", "provision", "stop", "mark"}
Attempts == [pc : Steps, password : Nat]

SetupTypes ==
    /\ stage \in {"preparing", "initialized"} /\ maintenance \in Nat
    /\ runtime \in [text : {"none", "torn", "whole"}, password : Nat]
    /\ cluster \in [state : {"none", "partial", "whole"}, owner : Nat]
    /\ role \in Nat /\ made \in Nat
    /\ setup \in [Installers -> Attempts]

(* One attempt at a time, and none after the last one.                     *)
OneAttempt ==
    /\ \A i, j \in Installers : setup[i] # Away /\ setup[j] # Away => i = j
    /\ stage = "initialized" => \A i \in Installers : setup[i] = Away

(* What an attempt has read is what is in the file, and a file that was    *)
(* once whole keeps its password.                                          *)
PasswordInv ==
    /\ runtime.text # "none" <=> runtime.password > 0
    /\ role # 0 => runtime.password = role
    /\ \A i \in Installers :
          /\ setup[i].pc = "write" => runtime.text # "none"
          /\ setup[i].pc \in HaveRead => runtime.text = "whole" /\ setup[i].password = runtime.password
          /\ setup[i].pc \in {"stop", "mark"} => role # 0
    /\ stage = "initialized" => role # 0 /\ runtime.text = "whole"

OwnerInv == cluster.state = "whole" => maintenance = cluster.owner

SetupInv == SetupTypes /\ OneAttempt /\ PasswordInv /\ OwnerInv

LEMMA GoesAhead ==
    ASSUME SetupTypes, NEW i \in Installers, NEW from, NEW to \in Steps, Ahead(i, from, to)
    PROVE  /\ setup' \in [Installers -> Attempts] /\ setup[i].pc = from
           /\ setup'[i].pc = to /\ setup'[i].password = setup[i].password
           /\ \A j \in Installers \ {i} : setup'[j] = setup[j]
<1>1. setup[i] \in Attempts /\ setup[i].pc = from /\ setup' = [setup EXCEPT ![i].pc = to]
  BY DEF Ahead, SetupTypes
<1>2. /\ [setup[i] EXCEPT !.pc = to] = [pc |-> to, password |-> setup[i].password]
      /\ setup[i].password \in Nat
  <2>1. PICK pc \in Steps, password \in Nat : setup[i] = [pc |-> pc, password |-> password]
    <3>1. \A r \in Attempts : \E pc \in Steps, password \in Nat : r = [pc |-> pc, password |-> password]
      BY DEF Attempts
    <3> QED
      BY <1>1, <3>1
  <2> QED
    BY <2>1
<1>3. setup' = [setup EXCEPT ![i] = [pc |-> to, password |-> setup[i].password]]
  BY <1>1, <1>2 DEF SetupTypes, Attempts
<1>4. [pc |-> to, password |-> setup[i].password] \in Attempts
  BY <1>2 DEF Attempts
<1> QED
  BY <1>1, <1>3, <1>4 DEF SetupTypes

(* While one attempt is under way the others are away.                     *)
LEMMA OthersAway ==
    ASSUME SetupInv, NEW i \in Installers, setup[i].pc # "away"
    PROVE  stage = "preparing" /\ \A j \in Installers \ {i} : setup[j] = Away
BY DEF SetupInv, SetupTypes, OneAttempt, Away

(* An attempt that goes on, or ends, keeps all this if the files and the   *)
(* database it leaves behind fit its new place.                            *)
LEMMA AttemptKeeps ==
    ASSUME NEW i \in Installers, SetupTypes', stage' = "preparing",
           \A j \in Installers \ {i} : setup'[j] = Away,
           (runtime.text # "none" <=> runtime.password > 0)', (role # 0 => runtime.password = role)',
           (setup[i].pc = "write" => runtime.text # "none")',
           (setup[i].pc \in HaveRead => runtime.text = "whole" /\ setup[i].password = runtime.password)',
           (setup[i].pc \in {"stop", "mark"} => role # 0)',
           OwnerInv'
    PROVE  SetupInv'
<1>1. OneAttempt'
  BY DEF OneAttempt
<1>2. PasswordInv'
  BY DEF PasswordInv, Away, HaveRead
<1> QED
  BY <1>1, <1>2 DEF SetupInv

LEMMA AttemptSteps ==
    ASSUME SetupInv, NEW i \in Installers, Install(i) \/ Interrupt(i)
    PROVE  SetupInv'
<1> USE DEF SetupInv
<1>1. CASE Enter(i)
  <2>1. /\ Ahead(i, "away", "owner") /\ UNCHANGED <<stage, maintenance, runtime, cluster, role, made>>
        /\ stage = "preparing" /\ \A j \in Installers : setup[j] = Away
    BY <1>1 DEF Enter, Uninitialized
  <2>2. /\ setup' \in [Installers -> Attempts] /\ setup'[i].pc = "owner"
        /\ \A j \in Installers \ {i} : setup'[j] = Away
    BY <2>1, GoesAhead DEF Steps
  <2> QED
    BY <2>1, <2>2, AttemptKeeps DEF SetupTypes, PasswordInv, OwnerInv, HaveRead
<1>2. CASE SecureOwner(i)
  <2>1. /\ Ahead(i, "owner", "runtime") /\ UNCHANGED <<stage, runtime, cluster, role>>
        /\ maintenance' = maintenance \/ cluster.state = "none"
        /\ maintenance' \in Nat /\ made' \in Nat
    BY <1>2 DEF SecureOwner, SetupTypes
  <2>2. /\ setup' \in [Installers -> Attempts] /\ setup[i].pc = "owner" /\ setup'[i].pc = "runtime"
        /\ \A j \in Installers \ {i} : setup'[j] = setup[j]
    BY <2>1, GoesAhead DEF Steps
  <2>3. stage = "preparing" /\ \A j \in Installers \ {i} : setup[j] = Away
    BY <2>2, OthersAway
  <2> QED
    BY <2>1, <2>2, <2>3, AttemptKeeps DEF SetupTypes, PasswordInv, OwnerInv, HaveRead
<1>3. CASE SecureRuntime(i)
  <2>1. /\ Ahead(i, "runtime", "import") /\ UNCHANGED <<stage, maintenance, cluster, role>>
        /\ \/ runtime' = runtime /\ made' = made
           \/ /\ runtime.text = "none" /\ made' = made + 1
              /\ runtime' = [text |-> "whole", password |-> made + 1]
    BY <1>3 DEF SecureRuntime, Known, Written
  <2>2. /\ setup' \in [Installers -> Attempts] /\ setup[i].pc = "runtime" /\ setup'[i].pc = "import"
        /\ \A j \in Installers \ {i} : setup'[j] = setup[j]
    BY <2>1, GoesAhead DEF Steps
  <2>3. stage = "preparing" /\ \A j \in Installers \ {i} : setup[j] = Away
    BY <2>2, OthersAway
  <2>4. /\ runtime' \in [text : {"none", "torn", "whole"}, password : Nat] /\ made' \in Nat
        /\ (runtime.text # "none" <=> runtime.password > 0)' /\ (role # 0 => runtime.password = role)'
    BY <2>1 DEF SetupTypes, PasswordInv
  <2> QED
    BY <2>1, <2>2, <2>3, <2>4, AttemptKeeps DEF SetupTypes, OwnerInv, HaveRead
<1>4. CASE OverwriteRuntime(i) \/ WriteRuntime(i)
  <2>1. UNCHANGED <<stage, maintenance, cluster, role, made>>
    BY <1>4 DEF OverwriteRuntime, WriteRuntime
  <2>2. \/ Ahead(i, "import", "write") /\ runtime.text = "whole"
        \/ Ahead(i, "write", "read") /\ runtime.text # "none"
    BY <1>4, GoesAhead DEF OverwriteRuntime, WriteRuntime, Ahead, PasswordInv
  <2>3. PICK text_ \in {"torn", "whole"} : runtime' = [runtime EXCEPT !.text = text_]
    BY <1>4 DEF OverwriteRuntime, WriteRuntime
  <2>4. /\ setup' \in [Installers -> Attempts] /\ setup[i].pc # "away" /\ setup'[i].pc \in {"write", "read"}
        /\ \A j \in Installers \ {i} : setup'[j] = setup[j]
    BY <2>2, GoesAhead DEF Steps
  <2>5. stage = "preparing" /\ \A j \in Installers \ {i} : setup[j] = Away
    BY <2>4, OthersAway
  <2>6. /\ runtime' \in [text : {"none", "torn", "whole"}, password : Nat]
        /\ runtime'.text = text_ /\ runtime'.password = runtime.password /\ runtime.text # "none"
    BY <2>2, <2>3 DEF SetupTypes
  <2> QED
    BY <2>1, <2>4, <2>5, <2>6, AttemptKeeps DEF SetupTypes, PasswordInv, OwnerInv, HaveRead
<1>5. CASE ReadRuntime(i)
  <2>1. /\ runtime.text = "whole" /\ setup[i].pc # "away"
        /\ setup' = [setup EXCEPT ![i] = [pc |-> "cluster", password |-> runtime.password]]
        /\ UNCHANGED <<stage, maintenance, runtime, cluster, role, made>>
    BY <1>5 DEF ReadRuntime
  <2>2. /\ setup' \in [Installers -> Attempts] /\ setup'[i].pc = "cluster"
        /\ setup'[i].password = runtime.password
        /\ \A j \in Installers \ {i} : setup'[j] = setup[j]
    BY <2>1 DEF SetupTypes, Attempts, Steps
  <2>3. stage = "preparing" /\ \A j \in Installers \ {i} : setup[j] = Away
    BY <2>1, OthersAway
  <2> QED
    BY <2>1, <2>2, <2>3, AttemptKeeps DEF SetupTypes, PasswordInv, OwnerInv
<1>6. CASE InitCluster(i) \/ ClusterMade(i) \/ KeepCluster(i) \/ StartServer(i)
  <2>1. UNCHANGED <<stage, maintenance, runtime, role, made>>
    BY <1>6 DEF InitCluster, ClusterMade, KeepCluster, StartServer
  <2>2. \/ Ahead(i, "cluster", "initdb") \/ Ahead(i, "initdb", "start")
        \/ Ahead(i, "cluster", "start") \/ Ahead(i, "start", "role")
    BY <1>6 DEF InitCluster, ClusterMade, KeepCluster, StartServer
  <2>3. /\ cluster' \in [state : {"none", "partial", "whole"}, owner : Nat]
        /\ cluster'.state = "whole" => maintenance = cluster'.owner
    BY <1>6 DEF InitCluster, ClusterMade, KeepCluster, StartServer, SetupTypes, OwnerInv
  <2>4. /\ setup' \in [Installers -> Attempts] /\ setup[i].pc # "away" /\ setup[i].pc \in HaveRead
        /\ setup'[i].pc \in {"initdb", "start", "role"} /\ setup'[i].password = setup[i].password
        /\ \A j \in Installers \ {i} : setup'[j] = setup[j]
    BY <2>2, GoesAhead DEF Steps, HaveRead
  <2>5. stage = "preparing" /\ \A j \in Installers \ {i} : setup[j] = Away
    BY <2>4, OthersAway
  <2>6. runtime.text = "whole" /\ setup[i].password = runtime.password
    BY <2>4 DEF PasswordInv
  <2> QED
    BY <2>1, <2>3, <2>4, <2>5, <2>6, AttemptKeeps DEF SetupTypes, PasswordInv, OwnerInv
<1>7. CASE Refuse(i) \/ Interrupt(i)
  <2>1. UNCHANGED <<stage, maintenance, runtime, role, made>>
    BY <1>7 DEF Refuse, Interrupt
  <2>2. setup' = [setup EXCEPT ![i] = Away] /\ setup[i] # Away
    <3>1. setup[i].pc # "away" => setup[i] # Away
      BY DEF Away
    <3> QED
      BY <1>7, <3>1 DEF Refuse, Interrupt
  <2>3. /\ cluster' \in [state : {"none", "partial", "whole"}, owner : Nat]
        /\ cluster'.state = "whole" => maintenance = cluster'.owner
    <3>1. cluster' = cluster \/ cluster' = [state |-> "none", owner |-> 0]
      BY <1>7 DEF Refuse, Interrupt
    <3> QED
      BY <3>1 DEF SetupTypes, OwnerInv
  <2>4. /\ setup' \in [Installers -> Attempts] /\ setup'[i] = Away
        /\ \A j \in Installers \ {i} : setup'[j] = setup[j]
    BY <2>2 DEF SetupTypes, Attempts, Away, Steps
  <2>5. stage = "preparing" /\ \A j \in Installers \ {i} : setup[j] = Away
    BY <2>2 DEF OneAttempt, SetupTypes
  <2>6. setup'[i].pc = "away"
    BY <2>4 DEF Away
  <2> QED
    BY <2>1, <2>3, <2>4, <2>5, <2>6, AttemptKeeps DEF SetupTypes, PasswordInv, OwnerInv, HaveRead
<1>8. CASE CreateRole(i) \/ SetModels(i) \/ StopServer(i)
  <2>1. UNCHANGED <<stage, maintenance, cluster, made>>
    BY <1>8 DEF CreateRole, SetModels, StopServer
  <2>2. Ahead(i, "role", "provision") \/ Ahead(i, "provision", "stop") \/ Ahead(i, "stop", "mark")
    BY <1>8 DEF CreateRole, SetModels, StopServer
  <2>3. /\ setup' \in [Installers -> Attempts] /\ setup[i].pc \in {"role", "provision", "stop"}
        /\ setup'[i].pc \in {"provision", "stop", "mark"} /\ setup'[i].password = setup[i].password
        /\ \A j \in Installers \ {i} : setup'[j] = setup[j]
    BY <2>2, GoesAhead DEF Steps
  <2>4. stage = "preparing" /\ \A j \in Installers \ {i} : setup[j] = Away
    BY <2>3, OthersAway
  <2>5. /\ runtime.text = "whole" /\ setup[i].password = runtime.password /\ runtime.password > 0
        /\ setup[i].password \in Nat
    BY <2>3 DEF PasswordInv, HaveRead, SetupTypes, Attempts
  <2>6. /\ runtime' \in [text : {"none", "torn", "whole"}, password : Nat]
        /\ runtime'.text = "whole" /\ runtime'.password = runtime.password
    BY <1>8, <2>5 DEF CreateRole, SetModels, StopServer, Written, SetupTypes
  <2>7. /\ role' \in Nat /\ (role' # 0 => runtime.password = role')
        /\ setup'[i].pc \in {"stop", "mark"} => role' # 0
    BY <1>8, <2>2, <2>3, <2>5, GoesAhead DEF CreateRole, SetModels, StopServer, SetupTypes, PasswordInv, Ahead
  <2> QED
    BY <2>1, <2>3, <2>4, <2>5, <2>6, <2>7, AttemptKeeps DEF SetupTypes, PasswordInv, OwnerInv
<1>9. CASE MarkInitialized(i)
  <2>1. /\ setup[i].pc = "mark" /\ stage' = "initialized" /\ setup' = [setup EXCEPT ![i] = Away]
        /\ UNCHANGED <<maintenance, runtime, cluster, role, made>>
    BY <1>9 DEF MarkInitialized
  <2>2. \A j \in Installers \ {i} : setup[j] = Away
    BY <2>1, OthersAway
  <2>3. setup' \in [Installers -> Attempts] /\ \A j \in Installers : setup'[j] = Away
    BY <2>1, <2>2 DEF SetupTypes, Attempts, Away, Steps
  <2>4. SetupTypes' /\ OneAttempt' /\ OwnerInv'
    BY <2>1, <2>3 DEF SetupTypes, OneAttempt, OwnerInv
  <2>5. runtime.text = "whole" /\ role # 0
    BY <2>1 DEF PasswordInv, HaveRead
  <2>6. PasswordInv'
    BY <2>1, <2>3, <2>5 DEF PasswordInv, Away, HaveRead
  <2> QED
    BY <2>4, <2>6
<1> QED
  BY <1>1, <1>2, <1>3, <1>4, <1>5, <1>6, <1>7, <1>8, <1>9 DEF Install

LEMMA SetupSteps == ASSUME SetupInv, SetupNext \/ UNCHANGED setupVars PROVE SetupInv'
<1>1. CASE SetupNext
  BY <1>1, AttemptSteps DEF SetupNext
<1>2. CASE UNCHANGED setupVars
  BY <1>2 DEF setupVars, SetupInv, SetupTypes, OneAttempt, PasswordInv, OwnerInv
<1> QED
  BY <1>1, <1>2

LEMMA SetupStarts == SetupInit => SetupInv
BY DEF SetupInit, SetupInv, SetupTypes, OneAttempt, PasswordInv, OwnerInv, Away, Attempts, Steps, HaveRead

(* However often and wherever installations were interrupted and begun     *)
(* again, the passwords in the files are those in the database, and a      *)
(* server called initialized has its role and a whole runtime.json.        *)
THEOREM CredentialsAlwaysFit == Spec => []CredentialsFit
<1>1. Init => SetupInv
  BY SetupStarts DEF Init
<1>2. SetupInv /\ [Next]_vars => SetupInv'
  BY Apart, SetupSteps
<1>3. SetupInv => CredentialsFit
  BY DEF SetupInv, PasswordInv, OwnerInv, CredentialsFit
<1> QED
  BY <1>1, <1>2, <1>3, PTL DEF Spec

-----------------------------------------------------------------------------
(* Searches, corrections and pages of text.                                *)
Stages == {"idle", "vector", "hydrate", "recheck", "done"}
Edits == [pc : {"checked", "locked", "refused", "saved"}, version : Versions, generation : Nat]
Requests == [pc : {"opened", "placed", "given"}, version : Versions, generation : Nat, chunk : Nat, text : Nat]

SearchTypes ==
    /\ latest \in [Versions -> Nat] /\ shown \in [Versions -> SUBSET Nat]
    /\ published \subseteq Versions /\ corrected \subseteq Versions
    /\ editing \in {NotEditing} \cup Edits
    /\ step \in [Callers -> Stages]
    /\ found \in [Callers -> SUBSET (Versions \X Nat)]
    /\ touched \in [Callers -> SUBSET Versions]
    /\ page \in {NoPage} \cup Requests

(* A version has no text but that of its latest parse.                     *)
OneText == \A v \in Versions : \A n \in shown[v] : n = latest[v]

(* What the approver holds stays in the index.                             *)
EditInv == editing.pc = "locked" => editing.generation \in shown[editing.version]

(* What matched and stayed as it was has been collected: by keyword before *)
(* the vector is there, then whatever the answer promises.                 *)
Collected(c, promised) ==
    \A row \in Visible : row[1] \notin touched[c] /\ (row[1] \in ByWord \/ promised) => row \in found[c]

GatherInv ==
    \A c \in Callers :
        /\ step[c] = "vector" => Collected(c, FALSE)
        /\ step[c] \in {"hydrate", "recheck"} => Collected(c, at[c] # "failed")

PlaceKept ==
    /\ page.pc = "placed" => page.chunk \in {0, page.generation}
    /\ page.pc = "given" => page.text = 0 \/ page.chunk \in {0, page.text}

SearchInv == SearchTypes /\ OneText /\ EditInv /\ GatherInv /\ PlaceKept

(* Who failed to get a vector does not get one later.                      *)
LEMMA FailedForGood ==
    ASSUME QueueTypes, Queries \/ UNCHANGED queueVars, NEW c \in Callers, at[c] = "failed"
    PROVE  at'[c] = "failed"
<1>1. \A b \in Callers, t \in Texts : Arrive(b, t) => b # c /\ at'[c] = "failed"
  BY DEF Arrive, End, Submit, Leave, Awoken, QueueTypes
<1>2. \A b \in Callers : LookAgain(b) => at'[c] = "failed"
  BY DEF LookAgain, End, Submit, Leave, Awoken, QueueTypes
<1>3. \A b \in Callers : Run(b) \/ Keep(b) \/ Resolve(b) => at' = at
  BY DEF Run, Keep, Resolve
<1>4. \A b \in Callers : Release(b) \/ Return(b) \/ Expire(b) => at'[c] = "failed"
  BY DEF Release, Return, Expire, End, Cancelled, Pressed, Awoken, QueueTypes
<1>5. (\E t \in Texts : Forget(t)) \/ Close \/ Shutdown \/ UNCHANGED queueVars => at'[c] = "failed"
  BY DEF Forget, Close, Shutdown, queueVars, Awoken, QueueTypes
<1> QED
  BY <1>1, <1>2, <1>3, <1>4, <1>5 DEF Queries, QueueNext

LEMMA LibrarySteps ==
    ASSUME SearchInv, LibraryNext
    PROVE  SearchInv'
<1> USE DEF SearchInv
<1>1. PICK v \in Versions :
         /\ Reparse(v) \/ Delete(v) \/ Publish(v) \/ Withdraw(v)
         /\ \A u \in Changed : ~Held(u)
         /\ corrected' = corrected \ {u \in Versions : shown'[u] # shown[u]}
         /\ touched' = [c \in Callers |-> IF step[c] \in {"idle", "done"} THEN touched[c]
                                          ELSE touched[c] \cup Changed]
         /\ UNCHANGED <<queueVars, editing, step, found, page>>
  BY DEF LibraryNext, Library
<1>2. /\ latest' \in [Versions -> Nat] /\ shown' \in [Versions -> SUBSET Nat]
      /\ published' \subseteq Versions /\ OneText'
  <2>1. CASE Reparse(v)
    <3>1. latest' = [latest EXCEPT ![v] = latest[v] + 1] /\ published' = published
      BY <2>1 DEF Reparse
    <3>2. PICK now \in {{}, {latest'[v]}} : shown' = [shown EXCEPT ![v] = now]
      BY <2>1 DEF Reparse, Index!Switch
    <3>3. latest' \in [Versions -> Nat] /\ latest'[v] \in Nat
      BY <3>1 DEF SearchTypes
    <3> QED
      BY <3>1, <3>2, <3>3 DEF SearchTypes, OneText
  <2>2. CASE Delete(v)
    <3>1. /\ published' = published \ {v}
          /\ latest' = [u \in Versions |-> IF u \in {v} THEN 0 ELSE latest[u]]
          /\ shown' = [u \in Versions |-> IF u \in {v} THEN {} ELSE shown[u]]
      BY <2>2 DEF Delete, Index!Remove
    <3> QED
      BY <3>1 DEF SearchTypes, OneText
  <2>3. CASE Publish(v) \/ Withdraw(v)
    <3>1. latest' = latest /\ shown' = shown /\ published' \subseteq Versions
      BY <2>3 DEF Publish, Withdraw, SearchTypes
    <3> QED
      BY <3>1 DEF SearchTypes, OneText
  <2> QED
    BY <1>1, <2>1, <2>2, <2>3
<1>3. touched' \in [Callers -> SUBSET Versions]
  BY <1>1 DEF SearchTypes, Changed
<1>4. SearchTypes'
  BY <1>1, <1>2, <1>3 DEF SearchTypes
<1>5. EditInv'
  <2>1. ASSUME editing.pc = "locked"
        PROVE  shown'[editing.version] = shown[editing.version]
    <3>1. editing.version \in Versions
      BY <2>1 DEF SearchTypes, NotEditing, Edits
    <3> QED
      BY <1>1, <2>1, <3>1 DEF Changed, Held
  <2> QED
    BY <1>1, <2>1 DEF EditInv
<1>6. ASSUME NEW c \in Callers, NEW promised \in BOOLEAN, step[c] \notin {"idle", "done"}, Collected(c, promised),
             NEW row \in Visible', row[1] \notin touched'[c], row[1] \in ByWord \/ promised
      PROVE  row \in found'[c]
  <2>1. row \in published' \X (1 .. MaxParses) /\ row[2] \in shown'[row[1]]
    BY <1>6 DEF Visible
  <2>2. row[1] \in Versions /\ row[1] \notin touched[c] \cup Changed
    BY <1>1, <1>2, <1>6, <2>1
  <2>3. row[1] \in published /\ shown'[row[1]] = shown[row[1]]
    BY <2>1, <2>2 DEF Changed
  <2>4. row \in Visible
    BY <2>1, <2>3 DEF Visible
  <2> QED
    BY <1>1, <1>6, <2>2, <2>4 DEF Collected
<1>7. GatherInv'
  <2>1. at' = at /\ step' = step /\ found' = found
    BY <1>1 DEF queueVars
  <2>2. ASSUME NEW c \in Callers, step[c] = "vector" PROVE Collected(c, FALSE)'
    <3>1. Collected(c, FALSE)
      BY <2>2 DEF GatherInv
    <3> QED
      BY <1>6, <2>2, <3>1 DEF Collected
  <2>3. ASSUME NEW c \in Callers, step[c] \in {"hydrate", "recheck"}
        PROVE  Collected(c, at[c] # "failed")'
    <3>1. Collected(c, at[c] # "failed")
      BY <2>3 DEF GatherInv
    <3> QED
      BY <1>6, <2>1, <2>3, <3>1 DEF Collected
  <2> QED
    BY <2>1, <2>2, <2>3 DEF GatherInv
<1>8. PlaceKept'
  BY <1>1 DEF PlaceKept
<1> QED
  BY <1>2, <1>4, <1>5, <1>7, <1>8

(* A search takes its next step.                                           *)
LEMMA Advancing ==
    ASSUME SearchInv, QueueTypes, Queries \/ UNCHANGED queueVars,
           NEW c \in Callers, NEW next \in Stages, NEW rows \in SUBSET (Versions \X Nat), Advance(c, next, rows),
           next = "vector" => \A row \in Visible : row[1] \in ByWord => row \in rows,
           next \in {"hydrate", "recheck"} =>
               \A row \in Visible : row[1] \notin touched[c] /\ (row[1] \in ByWord \/ at'[c] # "failed") => row \in rows
    PROVE  SearchInv'
<1> USE DEF SearchInv
<1>1. /\ step' = [step EXCEPT ![c] = next] /\ found' = [found EXCEPT ![c] = rows]
      /\ UNCHANGED <<latest, shown, gone, published, corrected, editing, touched, page>>
  BY DEF Advance, libraryVars
<1>2. SearchTypes' /\ OneText' /\ EditInv' /\ PlaceKept'
  BY <1>1 DEF SearchTypes, OneText, EditInv, PlaceKept
<1>3. Visible' = Visible
  BY <1>1 DEF Visible
<1>4. \A b \in Callers : /\ step'[b] = IF b = c THEN next ELSE step[b]
                         /\ found'[b] = IF b = c THEN rows ELSE found[b]
                         /\ touched'[b] = touched[b]
                         /\ at'[b] # "failed" => at[b] # "failed"
  BY <1>1, FailedForGood DEF SearchTypes
<1>5. GatherInv'
  <2>1. ASSUME NEW b \in Callers, step'[b] = "vector" PROVE Collected(b, FALSE)'
    BY <1>3, <1>4, <2>1 DEF GatherInv, Collected
  <2>2. ASSUME NEW b \in Callers, step'[b] \in {"hydrate", "recheck"}
        PROVE  \A row \in Visible : row[1] \notin touched[b] /\ (row[1] \in ByWord \/ at'[b] # "failed")
                                       => row \in found'[b]
    BY <1>4, <2>2 DEF GatherInv, Collected
  <2> QED
    BY <1>3, <1>4, <2>1, <2>2 DEF GatherInv, Collected
<1> QED
  BY <1>2, <1>5

LEMMA VisibleRows ==
    ASSUME SearchInv
    PROVE  /\ Visible \in SUBSET (Versions \X Nat) /\ Lexical \in SUBSET (Versions \X Nat)
           /\ Listed \in SUBSET (Versions \X Nat) /\ Visible \subseteq Listed
<1>1. Visible \in SUBSET (Versions \X Nat) /\ Lexical \in SUBSET (Versions \X Nat)
  BY SearchAssumption DEF SearchInv, SearchTypes, Visible, Lexical
<1>2. Listed \in SUBSET (Versions \X Nat)
  BY DEF SearchInv, SearchTypes, Listed
<1>3. ASSUME NEW row \in Visible PROVE row \in Listed
  <2>1. row[1] \in published /\ row = <<row[1], row[2]>> /\ row[2] \in shown[row[1]]
    BY DEF Visible
  <2>2. row[2] = latest[row[1]]
    BY <2>1 DEF SearchInv, SearchTypes, OneText
  <2> QED
    BY <2>1, <2>2 DEF Listed
<1> QED
  BY <1>1, <1>2, <1>3

LEMMA SearchingSteps ==
    ASSUME SearchInv, QueueTypes, Searching, Queries \/ UNCHANGED queueVars
    PROVE  SearchInv'
<1>1. ASSUME NEW c \in Searchers, Begin(c) \/ BeginFiles(c) \/ Collect(c) \/ Hydrate(c) \/ Recheck(c)
      PROVE  SearchInv'
  <2>1. c \in Callers /\ found[c] \in SUBSET (Versions \X Nat)
    BY <1>1, SearchAssumption DEF SearchInv, SearchTypes
  <2>2. CASE Begin(c)
    <3>1. Advance(c, "vector", Lexical) /\ \A row \in Visible : row[1] \in ByWord => row \in Lexical
      BY <2>2 DEF Begin, Lexical
    <3> QED
      BY <2>1, <3>1, VisibleRows, Advancing DEF Stages
  <2>3. CASE BeginFiles(c)
    <3>1. Advance(c, "recheck", Listed)
      BY <2>3 DEF BeginFiles
    <3> QED
      BY <2>1, <3>1, VisibleRows, Advancing DEF Stages
  <2>4. CASE Collect(c)
    <3>1. Advance(c, "hydrate", Semantic(c)) /\ step[c] = "vector" /\ at' = at /\ at[c] \in {"got", "failed"}
      BY <2>4 DEF Collect, queueVars
    <3>2. Semantic(c) \in SUBSET (Versions \X Nat)
      BY <2>1, VisibleRows DEF Semantic
    <3>3. \A row \in Visible : row[1] \notin touched[c] /\ (row[1] \in ByWord \/ at'[c] # "failed")
                                 => row \in Semantic(c)
      BY <2>1, <3>1 DEF Semantic, SearchInv, GatherInv, Collected
    <3> QED
      BY <2>1, <3>1, <3>2, <3>3, Advancing DEF Stages
  <2>5. CASE Hydrate(c)
    <3>1. Advance(c, "recheck", found[c] \cap Visible) /\ step[c] = "hydrate" /\ at' = at
      BY <2>5 DEF Hydrate, queueVars
    <3>2. found[c] \cap Visible \in SUBSET (Versions \X Nat)
      BY <2>1
    <3>3. \A row \in Visible : row[1] \notin touched[c] /\ (row[1] \in ByWord \/ at'[c] # "failed")
                                 => row \in found[c] \cap Visible
      BY <2>1, <3>1 DEF SearchInv, GatherInv, Collected
    <3> QED
      BY <2>1, <3>1, <3>2, <3>3, Advancing DEF Stages
  <2>6. CASE Recheck(c)
    <3>1. Advance(c, "done", Allowed(c))
      BY <2>6 DEF Recheck
    <3>2. Allowed(c) \in SUBSET (Versions \X Nat)
      BY <2>1 DEF Allowed
    <3> QED
      BY <2>1, <3>1, <3>2, Advancing DEF Stages
  <2> QED
    BY <1>1, <2>2, <2>3, <2>4, <2>5, <2>6
<1>2. ASSUME UNCHANGED searchVars PROVE SearchInv'
  <2>1. UNCHANGED <<latest, shown, gone, published, corrected, editing, step, found, touched, page>>
    BY <1>2 DEF searchVars, libraryVars
  <2>2. SearchTypes' /\ OneText' /\ EditInv' /\ PlaceKept'
    BY <2>1 DEF SearchInv, SearchTypes, OneText, EditInv, PlaceKept
  <2>3. Visible' = Visible /\ \A c \in Callers : at'[c] # "failed" => at[c] # "failed"
    BY <2>1, FailedForGood DEF Visible
  <2>4. GatherInv'
    BY <2>1, <2>3 DEF SearchInv, GatherInv, Collected
  <2> QED
    BY <2>2, <2>4 DEF SearchInv
<1> QED
  BY <1>1, <1>2 DEF Searching

LEMMA EditingSteps ==
    ASSUME SearchInv, Editing
    PROVE  SearchInv'
<1> USE DEF SearchInv
<1>1. PICK pc \in {"checked", "locked", "refused", "saved"}, v \in Versions, n \in Nat :
         Edit(pc, v, n) /\ (pc = "locked" => n \in shown[v])
  <2>1. ASSUME NEW v \in Versions, NEW n \in 1 .. MaxParses, CheckDraft(v, n)
        PROVE  Edit("checked", v, n) /\ n \in Nat
    BY <2>1, SearchAssumption DEF CheckDraft
  <2>2. editing.pc \in {"checked", "locked"} => editing.version \in Versions /\ editing.generation \in Nat
    BY DEF SearchTypes, Edits, NotEditing
  <2>3. ASSUME LockVersion
        PROVE  \E pc \in {"locked", "refused"} :
                  /\ Edit(pc, editing.version, editing.generation) /\ editing.pc = "checked"
                  /\ pc = "locked" => editing.generation \in shown[editing.version]
    BY <2>3 DEF LockVersion
  <2>4. Save => Edit("saved", editing.version, editing.generation) /\ editing.pc = "locked"
    BY DEF Save
  <2> QED
    BY <2>1, <2>2, <2>3, <2>4 DEF Editing
<1>2. /\ editing' = [pc |-> pc, version |-> v, generation |-> n]
      /\ UNCHANGED <<queueVars, latest, shown, gone, published, step, found, touched, page>>
  BY <1>1 DEF Edit
<1>3. corrected' \subseteq Versions
  BY DEF Editing, CheckDraft, LockVersion, Save, SearchTypes, Edits, NotEditing
<1>4. editing' \in Edits
  BY <1>2 DEF Edits
<1>5. SearchTypes' /\ OneText' /\ EditInv' /\ PlaceKept'
  BY <1>1, <1>2, <1>3, <1>4 DEF SearchTypes, OneText, EditInv, PlaceKept
<1>6. Visible' = Visible /\ at' = at
  BY <1>2 DEF Visible, queueVars
<1>7. GatherInv'
  BY <1>2, <1>6 DEF GatherInv, Collected
<1> QED
  BY <1>5, <1>7

LEMMA PagingSteps ==
    ASSUME SearchInv, Paging
    PROVE  SearchInv'
<1> USE DEF SearchInv
<1>1. UNCHANGED <<queueVars, latest, shown, gone, published, corrected, editing, step, found, touched>>
  BY DEF Paging, OpenVersion, FindChunk, TakePage, Page, libraryVars
<1>2. page' \in {NoPage} \cup Requests /\ PlaceKept'
  <2>1. ASSUME NEW v \in Versions, NEW chunk \in 0 .. MaxParses, OpenVersion(v, chunk)
        PROVE  page' \in Requests /\ PlaceKept'
    <3>1. PICK pc \in {"opened", "placed"} :
             /\ pc = "placed" => chunk = 0
             /\ page' = [pc |-> pc, version |-> v, generation |-> latest[v], chunk |-> chunk, text |-> 0]
      BY <2>1 DEF OpenVersion, Page
    <3>2. latest[v] \in Nat /\ chunk \in Nat
      BY SearchAssumption DEF SearchTypes
    <3> QED
      BY <3>1, <3>2 DEF Requests, PlaceKept
  <2>2. ASSUME page \in Requests, NEW pc \in {"placed", "given"}, NEW text_ \in Nat
        PROVE  LET to == [page EXCEPT !.pc = pc, !.text = text_]
               IN  /\ to \in Requests /\ to.pc = pc /\ to.text = text_
                   /\ to.chunk = page.chunk /\ to.generation = page.generation
    BY <2>2 DEF Requests
  <2>3. ASSUME FindChunk PROVE page' \in {NoPage} \cup Requests /\ PlaceKept'
    <3>1. page \in Requests
      BY <2>3 DEF FindChunk, SearchTypes, NoPage
    <3>2. CASE page' = NoPage
      BY <3>2 DEF NoPage, PlaceKept
    <3>3. CASE page' = [page EXCEPT !.pc = "placed"] /\ page.chunk = page.generation
      <4>1. page' \in Requests /\ page'.pc = "placed" /\ page'.chunk = page'.generation
        BY <3>1, <3>3 DEF Requests
      <4> QED
        BY <4>1 DEF PlaceKept
    <3> QED
      BY <2>3, <3>2, <3>3 DEF FindChunk, Page
  <2>4. ASSUME TakePage PROVE page' \in Requests /\ PlaceKept'
    <3>1. page \in Requests /\ page.pc = "placed"
      BY <2>4 DEF TakePage, SearchTypes, NoPage
    <3>2. PICK text_ \in {0, page.generation} : page' = [page EXCEPT !.pc = "given", !.text = text_]
      BY <2>4 DEF TakePage, Page
    <3>3. text_ \in Nat
      BY <3>1 DEF Requests
    <3>4. /\ page' \in Requests /\ page'.pc = "given" /\ page'.text = text_ /\ page'.chunk = page.chunk
      BY <2>2, <3>1, <3>2, <3>3
    <3> QED
      BY <3>1, <3>4 DEF PlaceKept
  <2> QED
    BY <2>1, <2>3, <2>4 DEF Paging
<1>3. SearchTypes' /\ OneText' /\ EditInv'
  BY <1>1, <1>2 DEF SearchTypes, OneText, EditInv
<1>4. Visible' = Visible /\ at' = at
  BY <1>1 DEF Visible, queueVars
<1>5. GatherInv'
  BY <1>1, <1>4 DEF GatherInv, Collected
<1> QED
  BY <1>2, <1>3, <1>5

LEMMA SearchSteps == ASSUME SearchInv, QueueTypes, [Next]_vars PROVE SearchInv'
<1>1. Queries \/ UNCHANGED queueVars
  BY Apart
<1>2. CASE UNCHANGED searchVars
  <2>1. UNCHANGED <<latest, shown, gone, published, corrected, editing, step, found, touched, page>>
    BY <1>2 DEF searchVars, libraryVars
  <2>2. SearchTypes' /\ OneText' /\ EditInv' /\ PlaceKept'
    BY <2>1 DEF SearchInv, SearchTypes, OneText, EditInv, PlaceKept
  <2>3. Visible' = Visible /\ \A c \in Callers : at'[c] # "failed" => at[c] # "failed"
    BY <1>1, <2>1, FailedForGood DEF Visible
  <2>4. GatherInv'
    BY <2>1, <2>3 DEF SearchInv, GatherInv, Collected
  <2> QED
    BY <2>2, <2>4 DEF SearchInv
<1> QED
  BY <1>1, <1>2, Apart, LibrarySteps, SearchingSteps, EditingSteps, PagingSteps

LEMMA SearchStarts == SearchInit => SearchInv
<1> SUFFICES ASSUME SearchInit PROVE SearchInv
  OBVIOUS
<1>1. SearchTypes /\ OneText
  BY DEF SearchInit, SearchTypes, OneText, Stages
<1>2. EditInv /\ PlaceKept /\ GatherInv
  BY DEF SearchInit, EditInv, PlaceKept, GatherInv, NotEditing, NoPage
<1> QED
  BY <1>1, <1>2 DEF SearchInv

LEMMA SearchesAreInvariant == Spec => [](QueueInv /\ SearchInv)
<1>1. Init => QueueInv /\ SearchInv
  BY QueueStarts, SearchStarts DEF Init
<1>2. QueueInv /\ SearchInv /\ [Next]_vars => (QueueInv /\ SearchInv)'
  <2>1. QueueInv /\ [Next]_vars => QueueInv'
    BY Apart, QueueSteps
  <2>2. QueueInv /\ SearchInv /\ [Next]_vars => SearchInv'
    BY SearchSteps DEF QueueInv
  <2> QED
    BY <2>1, <2>2
<1> QED
  BY <1>1, <1>2, PTL DEF Spec

(* A search that ends answers from the library as it is at its last        *)
(* question, with everything that matched and stayed as it was, and a page *)
(* that starts from a chunk is of the text that chunk was found in,        *)
(* whatever the library did between the statements of a request.           *)
THEOREM AnswersAreCurrent == Spec => EveryAnswerIsCurrent
<1>1. ASSUME QueueInv, SearchInv, [Next]_vars, NEW c \in Callers, Answers(c)
      PROVE  CurrentAnswer(c)
  <2>1. step[c] # "done" /\ step'[c] = "done"
    BY <1>1 DEF Answers
  <2>2. PICK b \in Callers, next \in Stages, rows \in SUBSET (Versions \X Nat) :
           /\ Advance(b, next, rows)
           /\ next = "done" => Recheck(b) /\ rows = Allowed(b)
    <3>1. LibraryNext \/ Searching \/ Editing \/ Paging \/ UNCHANGED searchVars
      BY <1>1, Apart
    <3>2. ~(step' = step)
      BY <2>1
    <3>3. Searching /\ ~(UNCHANGED searchVars)
      BY <3>1, <3>2 DEF LibraryNext, Library, Editing, CheckDraft, LockVersion, Save, Edit, Paging, OpenVersion,
         FindChunk, TakePage, Page, searchVars
    <3>4. PICK b \in Searchers : Begin(b) \/ BeginFiles(b) \/ Collect(b) \/ Hydrate(b) \/ Recheck(b)
      BY <3>3 DEF Searching
    <3>5. b \in Callers /\ found[b] \in SUBSET (Versions \X Nat)
      BY <1>1, SearchAssumption DEF SearchInv, SearchTypes
    <3>6. /\ Semantic(b) \in SUBSET (Versions \X Nat) /\ found[b] \cap Visible \in SUBSET (Versions \X Nat)
          /\ Allowed(b) \in SUBSET (Versions \X Nat)
      BY <1>1, <3>5, VisibleRows DEF Semantic, Allowed
    <3>7. \E next \in Stages, rows \in SUBSET (Versions \X Nat) :
             Advance(b, next, rows) /\ (next = "done" => Recheck(b) /\ rows = Allowed(b))
      <4>1. CASE Begin(b)
        <5>1. Advance(b, "vector", Lexical)
          BY <4>1 DEF Begin
        <5> QED
          BY <1>1, <5>1, VisibleRows DEF Stages
      <4>2. CASE BeginFiles(b)
        <5>1. Advance(b, "recheck", Listed)
          BY <4>2 DEF BeginFiles
        <5> QED
          BY <1>1, <5>1, VisibleRows DEF Stages
      <4>3. CASE Collect(b)
        BY <3>6, <4>3 DEF Collect, Stages
      <4>4. CASE Hydrate(b)
        BY <3>6, <4>4 DEF Hydrate, Stages
      <4>5. CASE Recheck(b)
        BY <3>6, <4>5 DEF Recheck, Stages
      <4> QED
        BY <3>4, <4>1, <4>2, <4>3, <4>4, <4>5
    <3> QED
      BY <3>5, <3>7
  <2>3. b = c /\ next = "done" /\ found'[c] = rows
    BY <1>1, <2>1, <2>2 DEF Advance, SearchInv, SearchTypes
  <2>4. Recheck(c) /\ found'[c] = Allowed(c)
    BY <2>2, <2>3
  <2>5. step[c] = "recheck" /\ published' = published
    BY <2>4 DEF Recheck, Advance, libraryVars
  <2>6. \A row \in found'[c] : row[1] \in published
    BY <2>4 DEF Allowed
  <2>7. ASSUME NEW row \in Visible, row[1] \notin touched[c], row[1] \in ByWord \/ at[c] # "failed"
        PROVE  row \in found'[c]
    <3>1. row \in found[c]
      BY <1>1, <2>5, <2>7 DEF SearchInv, GatherInv, Collected
    <3>2. row[1] \in published
      BY <2>7 DEF Visible
    <3> QED
      BY <2>4, <3>1, <3>2 DEF Allowed
  <2> QED
    BY <2>6, <2>7 DEF CurrentAnswer
<1>2. QueueInv /\ SearchInv /\ [Next]_vars
        => [(\A c \in Callers : Answers(c) => CurrentAnswer(c)) /\ CurrentPage']_searchVars
  <2>1. QueueInv /\ SearchInv /\ [Next]_vars => CurrentPage'
    BY SearchSteps DEF QueueInv, SearchInv, PlaceKept, CurrentPage
  <2> QED
    BY <1>1, <2>1
<1> QED
  BY <1>2, SearchesAreInvariant, PTL DEF Spec, EveryAnswerIsCurrent

(* A correction that was reported as saved is in the text readers find: no *)
(* parse replaces the text between the approver's check and the write.     *)
THEOREM SavedEditsAreShown == Spec => SavedEditIsShown
<1>1. ASSUME SearchInv, [Next]_vars, editing.pc # "saved", editing'.pc = "saved"
      PROVE  editing.version \in corrected'
  <2>1. LibraryNext \/ Searching \/ Editing \/ Paging \/ UNCHANGED searchVars
    BY <1>1, Apart
  <2>2. ~(editing' = editing)
    BY <1>1
  <2>3. Editing
    BY <2>1, <2>2 DEF LibraryNext, Library, Searching, Begin, BeginFiles, Collect, Hydrate, Recheck, Advance,
       Paging, OpenVersion, FindChunk, TakePage, Page, searchVars
  <2>4. Save
    <3>1. \A pc, v, n : Edit(pc, v, n) => editing'.pc = pc
      BY DEF Edit
    <3> QED
      BY <1>1, <2>3, <3>1 DEF Editing, CheckDraft, LockVersion
  <2>5. editing.generation \in shown[editing.version]
    BY <1>1, <2>4 DEF SearchInv, EditInv, Save
  <2> QED
    BY <2>4, <2>5 DEF Save
<1>2. SearchInv /\ [Next]_vars
        => [editing.pc # "saved" /\ editing'.pc = "saved" => editing.version \in corrected']_searchVars
  BY <1>1
<1> QED
  BY <1>2, SearchesAreInvariant, PTL DEF Spec, SavedEditIsShown

-----------------------------------------------------------------------------
(* The native text of a PDF.                                               *)
Texted == {"ready", "partial"}
JsonFiles == [text : {"json"}, parser : Parsers, status : Texted, since : Nat, gap : BOOLEAN]
AtWorkOn == {"start", "whole", "range", "keep", "keeping", "write", "writing", "clear"}
Works == [pc : AtWorkOn, after : Nat, range : 0 .. Ranges, status : Texted, since : Nat, gap : BOOLEAN,
          some : BOOLEAN, own : {NoFile} \cup JsonFiles]
Dones == [pc : {"done"}, status : Texted, since : Nat, gap : BOOLEAN, after : Nat]

(* What is called ready has no gap; and as long as no retry has found an   *)
(* executor at work (over), what is kept and what is merged was read       *)
(* after the last one (n).                                                 *)
Sound(x) == x.status = "ready" => ~x.gap
Kept(over, n) == {f \in JsonFiles : Sound(f) /\ (over \/ f.since >= n)}
OnDisk(over, n) == {NoFile, TornFile} \cup Kept(over, n)
Bases(over) == {r \in Dones : Sound(r) /\ (over \/ r.since >= r.after)}
Working(over, n) ==
    {r \in Works : /\ Sound(r)
                   /\ over \/ (r.after = n /\ r.since >= n)
                   /\ r.pc \in {"keep", "keeping"} => r.own \in Kept(over, n)}
Idle == {[pc |-> "waiting"], [pc |-> "failed"]}

NativeInv ==
    /\ retries \in Nat /\ overtaken \in BOOLEAN /\ long \in BOOLEAN /\ removing \in BOOLEAN
    /\ disk \in [0 .. Ranges -> OnDisk(overtaken, retries)]
    /\ reader \in [Readers -> Idle \cup Bases(overtaken) \cup Working(overtaken, retries)]
    /\ removing /\ ~overtaken => disk[0] = NoFile /\ \A e \in Readers : reader[e].pc \notin AtWorkOn

(* Who is at one of the steps of a reading has its fields.                 *)
LEMMA WhoWorks ==
    ASSUME NativeInv, NEW e \in Readers, reader[e].pc \in AtWorkOn
    PROVE  reader[e] \in Working(overtaken, retries) /\ reader[e] \in Works
BY DEF NativeInv, Idle, Bases, Dones, Working, AtWorkOn

LEMMA SavedText ==
    ASSUME NativeInv, NEW f \in 0 .. Ranges, disk[f].text = "json"
    PROVE  disk[f] \in Kept(overtaken, retries)
BY DEF NativeInv, OnDisk, NoFile, TornFile

LEMMA ReaderGoes ==
    ASSUME NativeInv, NEW e \in Readers, reader[e].pc \in AtWorkOn,
           NEW change \in Idle \cup Bases(overtaken) \cup Working(overtaken, retries),
           Go(e, change), UNCHANGED <<long, retries, removing, overtaken>>,
           disk' \in [0 .. Ranges -> OnDisk(overtaken, retries)]
    PROVE  NativeInv'
<1>1. reader' = [reader EXCEPT ![e] = change]
  BY DEF Go
<1>2. reader' \in [Readers -> Idle \cup Bases(overtaken) \cup Working(overtaken, retries)]
  BY <1>1 DEF NativeInv
<1>3. ~removing \/ overtaken
  BY DEF NativeInv
<1> QED
  BY <1>2, <1>3 DEF NativeInv

(* Once a retry has met an executor, nothing is asked of what was read     *)
(* when.                                                                   *)
LEMMA OvertakenIsWider ==
    ASSUME NEW over \in BOOLEAN, NEW n \in Nat, NEW m \in Nat
    PROVE  /\ OnDisk(over, n) \subseteq OnDisk(TRUE, m)
           /\ Bases(over) \subseteq Bases(TRUE)
           /\ Working(over, n) \subseteq Working(TRUE, m)
BY DEF OnDisk, Kept, Bases, Working

(* One more range is merged: what it lacks makes the whole partial.        *)
LEMMA RangeThrough ==
    ASSUME NativeInv, NEW e \in Readers, reader[e].pc \in AtWorkOn,
           NEW status \in Texted \cup {"failed"}, NEW since \in Nat, NEW gap \in BOOLEAN, NEW text_ \in BOOLEAN,
           status = "ready" => ~gap, overtaken \/ since >= retries,
           Through(e, status, since, gap, text_),
           UNCHANGED <<long, retries, removing, overtaken>>, disk' \in [0 .. Ranges -> OnDisk(overtaken, retries)]
    PROVE  NativeInv'
<1> DEFINE r == reader[e]
           last == r.range = Ranges
           some == text_ \/ r.some
           pc == IF last THEN "write" ELSE "range"
           next == IF last THEN 0 ELSE r.range + 1
           now == Merged(e, status)
           oldest == IF since < r.since THEN since ELSE r.since
           missing == gap \/ r.gap
           merged == [r EXCEPT !.pc = pc, !.range = next, !.status = now, !.since = oldest, !.gap = missing,
                               !.some = some, !.own = NoFile]
<1>1. r \in Works /\ r \in Working(overtaken, retries)
  BY WhoWorks
<1>2. Go(e, IF last /\ ~some THEN [pc |-> "failed"] ELSE merged)
  BY DEF Through
<1>3. /\ r.range \in 0 .. Ranges /\ r.status \in Texted /\ r.since \in Nat /\ r.gap \in BOOLEAN
      /\ r.some \in BOOLEAN /\ r.after \in Nat
  BY <1>1 DEF Works
<1>4. /\ pc \in {"write", "range"} /\ next \in 0 .. Ranges /\ oldest \in Nat /\ some \in BOOLEAN
      /\ missing \in BOOLEAN /\ now \in Texted
  BY <1>3, NativeAssumption DEF Merged, Texted
<1>5. now = "ready" => ~missing
  BY <1>1 DEF Merged, Working, Sound
<1>6. overtaken \/ (r.after = retries /\ oldest >= retries)
  BY <1>1 DEF Working
<1>7. merged \in Working(overtaken, retries)
  <2> HIDE DEF pc, next, now, oldest, missing, some, r
  <2>1. /\ merged \in Works /\ merged.pc = pc /\ merged.status = now /\ merged.since = oldest
        /\ (merged.gap <=> missing) /\ merged.after = r.after
    BY <1>1, <1>4 DEF Works, AtWorkOn
  <2> QED
    BY <1>4, <1>5, <1>6, <2>1 DEF Working, Sound
<1>8. (IF last /\ ~some THEN [pc |-> "failed"] ELSE merged) \in Idle \cup Working(overtaken, retries)
  BY <1>7 DEF Idle
<1> QED
  BY <1>2, <1>8, ReaderGoes

LEMMA ReaderSteps ==
    ASSUME NativeInv, NEW e \in Readers,
           \/ Claim(e) \/ Start(e) \/ ParseWhole(e) \/ Load(e) \/ Parse(e) \/ Miss(e) \/ Truncate(e)
           \/ KeepRange(e) \/ WriteWhole(e) \/ Clear(e) \/ Crash(e)
    PROVE  NativeInv'
<1> DEFINE r == reader[e]
           Fit == Idle \cup Bases(overtaken) \cup Working(overtaken, retries)
<1>0. /\ disk \in [0 .. Ranges -> OnDisk(overtaken, retries)]
      /\ retries \in Nat /\ overtaken \in BOOLEAN /\ 0 \in 0 .. Ranges
  BY NativeAssumption DEF NativeInv
<1>1. CASE Claim(e)
  <2> DEFINE q == [pc |-> "start", after |-> retries, range |-> 1, status |-> "ready", since |-> retries,
                   gap |-> FALSE, some |-> FALSE, own |-> NoFile]
  <2>1. /\ reader' = [reader EXCEPT ![e] = q] /\ overtaken' = (overtaken \/ removing)
        /\ UNCHANGED <<long, disk, retries, removing>>
    BY <1>1 DEF Claim, Go
  <2>2. q \in Works
    BY <1>0, NativeAssumption DEF Works, AtWorkOn, Texted
  <2>3. q \in Working(overtaken', retries)
    BY <1>0, <2>2 DEF Working, Sound
  <2>4. /\ OnDisk(overtaken, retries) \subseteq OnDisk(overtaken', retries)
        /\ Bases(overtaken) \subseteq Bases(overtaken')
        /\ Working(overtaken, retries) \subseteq Working(overtaken', retries)
    <3>1. overtaken' = overtaken \/ overtaken' = TRUE
      BY <2>1 DEF NativeInv
    <3> QED
      BY <1>0, <3>1, OvertakenIsWider
  <2>5. disk' \in [0 .. Ranges -> OnDisk(overtaken', retries')]
    BY <1>0, <2>1, <2>4
  <2>6. reader' \in [Readers -> Idle \cup Bases(overtaken') \cup Working(overtaken', retries')]
    BY <2>1, <2>3, <2>4 DEF NativeInv
  <2>7. removing' => overtaken'
    BY <2>1
  <2> QED
    BY <2>1, <2>5, <2>6, <2>7 DEF NativeInv
<1>2. CASE Start(e)
  <2>0. reader[e].pc \in AtWorkOn
    BY <1>2 DEF Start, At, AtWorkOn
  <2>1. r.pc = "start" /\ UNCHANGED <<long, disk, retries, removing, overtaken>>
    BY <1>2 DEF Start, At
  <2>2. r \in Works /\ r \in Working(overtaken, retries)
    BY <2>1, WhoWorks DEF AtWorkOn
  <2>3. CASE Usable(0, e)
    <3> DEFINE q == Base(e, disk[0].status, disk[0].since, disk[0].gap)
    <3>1. Go(e, q)
      BY <1>2, <2>3 DEF Start
    <3>2. disk[0] \in Kept(overtaken, retries)
      BY <1>0, <2>3, SavedText DEF Usable
    <3>3. /\ disk[0].status \in Texted /\ disk[0].since \in Nat /\ disk[0].gap \in BOOLEAN
          /\ disk[0].status = "ready" => ~disk[0].gap
          /\ overtaken \/ disk[0].since >= retries
      BY <3>2 DEF Kept, JsonFiles, Sound
    <3>4. r.after \in Nat /\ (overtaken \/ r.after = retries)
      BY <2>2 DEF Works, Working
    <3>5. q \in Dones
      BY <3>3, <3>4 DEF Base, Dones
    <3>6. q \in Bases(overtaken)
      BY <3>3, <3>4, <3>5 DEF Base, Bases, Sound
    <3> QED
      BY <1>0, <2>1, <3>1, <3>6, <2>0, ReaderGoes
  <2>4. CASE ~Usable(0, e)
    <3>1. PICK pc \in {"range", "whole"} : Go(e, [r EXCEPT !.pc = pc])
      BY <1>2, <2>4 DEF Start
    <3> DEFINE q == [r EXCEPT !.pc = pc]
    <3> HIDE DEF r
    <3>2. q \in Works /\ q.pc = pc /\ q.status = r.status /\ q.gap = r.gap /\ q.after = r.after /\ q.since = r.since
      BY <2>2 DEF Works, AtWorkOn
    <3> HIDE DEF q
    <3>3. q \in Working(overtaken, retries)
      BY <2>2, <3>2 DEF Working, Sound
    <3>4. Go(e, q)
      BY <3>1 DEF q
    <3> QED
      BY <1>0, <2>1, <3>3, <3>4, <2>0, ReaderGoes
  <2> QED
    BY <2>3, <2>4
<1>3. CASE ParseWhole(e)
  <2>0. reader[e].pc \in AtWorkOn
    BY <1>3 DEF ParseWhole, At, AtWorkOn
  <2>1. r.pc = "whole" /\ UNCHANGED <<long, disk, retries, removing, overtaken>>
    BY <1>3 DEF ParseWhole, At
  <2>2. r \in Works /\ r \in Working(overtaken, retries)
    BY <2>1, WhoWorks DEF AtWorkOn
  <2>3. ASSUME NEW gap \in BOOLEAN,
               Go(e, [r EXCEPT !.pc = "write", !.range = 0, !.since = retries, !.gap = gap,
                               !.status = IF gap THEN "partial" ELSE "ready"])
        PROVE  NativeInv'
    <3>1. PICK status \in Texted : status = IF gap THEN "partial" ELSE "ready"
      BY DEF Texted
    <3> DEFINE q == [r EXCEPT !.pc = "write", !.range = 0, !.since = retries, !.gap = gap, !.status = status]
    <3> HIDE DEF r
    <3>2. q \in Works /\ q.pc = "write" /\ q.status = status /\ (q.gap <=> gap) /\ q.after = r.after /\ q.since = retries
      BY <1>0, <2>2 DEF Works, AtWorkOn
    <3>3. Go(e, q)
      BY <2>3, <3>1
    <3> HIDE DEF q
    <3>4. q \in Working(overtaken, retries)
      BY <1>0, <2>2, <3>1, <3>2 DEF Working, Sound
    <3> QED
      BY <1>0, <2>1, <3>3, <3>4, <2>0, ReaderGoes
  <2>4. ASSUME Go(e, [pc |-> "failed"]) PROVE NativeInv'
    BY <1>0, <2>1, <2>4, <2>0, ReaderGoes DEF Idle
  <2>5. ASSUME Go(e, [r EXCEPT !.pc = "range"]) PROVE NativeInv'
    <3> DEFINE q == [r EXCEPT !.pc = "range"]
    <3> HIDE DEF r
    <3>1. q \in Works /\ q.pc = "range" /\ q.status = r.status /\ q.gap = r.gap /\ q.after = r.after /\ q.since = r.since
      BY <2>2 DEF Works, AtWorkOn
    <3>2. Go(e, q)
      BY <2>5
    <3> HIDE DEF q
    <3>3. q \in Working(overtaken, retries)
      BY <2>2, <3>1 DEF Working, Sound
    <3> QED
      BY <1>0, <2>1, <3>2, <3>3, <2>0, ReaderGoes
  <2> QED
    BY <1>3, <2>3, <2>4, <2>5 DEF ParseWhole
<1>4. CASE Load(e)
  <2>1. /\ r.pc = "range" /\ Usable(r.range, e) /\ UNCHANGED <<long, disk, retries, removing, overtaken>>
        /\ Through(e, disk[r.range].status, disk[r.range].since, disk[r.range].gap, TRUE)
    BY <1>4 DEF Load, At
  <2>2. r.pc \in AtWorkOn
    BY <2>1 DEF AtWorkOn
  <2>3. r.range \in 0 .. Ranges
    BY <2>2, WhoWorks DEF Works
  <2>4. disk[r.range] \in Kept(overtaken, retries)
    BY <2>1, <2>3, SavedText DEF Usable
  <2>5. /\ disk[r.range].status \in Texted /\ disk[r.range].since \in Nat /\ disk[r.range].gap \in BOOLEAN
        /\ disk[r.range].status = "ready" => ~disk[r.range].gap
        /\ overtaken \/ disk[r.range].since >= retries
    BY <2>4 DEF Kept, JsonFiles, Sound
  <2> QED
    BY <1>0, <2>1, <2>2, <2>5, RangeThrough
<1>5. CASE Parse(e)
  <2>0. reader[e].pc \in AtWorkOn
    BY <1>5 DEF Parse, At, AtWorkOn
  <2>1. PICK gap \in BOOLEAN :
           Go(e, [r EXCEPT !.pc = "keep",
                           !.own = Json(ParserOf[e], IF gap THEN "partial" ELSE "ready", retries, gap)])
    BY <1>5 DEF Parse
  <2>2. r.pc = "range" /\ UNCHANGED <<long, disk, retries, removing, overtaken>>
    BY <1>5 DEF Parse, At
  <2>3. r \in Works /\ r \in Working(overtaken, retries)
    BY <2>2, WhoWorks DEF AtWorkOn
  <2> DEFINE own == Json(ParserOf[e], IF gap THEN "partial" ELSE "ready", retries, gap)
             q == [r EXCEPT !.pc = "keep", !.own = own]
  <2>4. own \in JsonFiles /\ own.status = (IF gap THEN "partial" ELSE "ready") /\ (own.gap <=> gap)
        /\ own.since = retries
    BY <1>0, NativeAssumption DEF Json, JsonFiles, Texted
  <2>5. Go(e, q)
    BY <2>1
  <2> HIDE DEF r, own
  <2>6. own \in Kept(overtaken, retries)
    BY <1>0, <2>4 DEF Kept, Sound
  <2>7. /\ q \in Works /\ q.pc = "keep" /\ q.own = own /\ q.status = r.status /\ q.gap = r.gap
        /\ q.after = r.after /\ q.since = r.since
    BY <2>3, <2>4 DEF Works, AtWorkOn
  <2> HIDE DEF q
  <2>8. q \in Working(overtaken, retries)
    BY <2>3, <2>6, <2>7 DEF Working, Sound
  <2> QED
    BY <1>0, <2>2, <2>5, <2>8, <2>0, ReaderGoes
<1>6. CASE Miss(e)
  <2>1. r.pc = "range" /\ Through(e, "failed", retries, TRUE, FALSE) /\ UNCHANGED <<long, disk, retries, removing, overtaken>>
    BY <1>6 DEF Miss, At
  <2>2. r.pc \in AtWorkOn
    BY <2>1 DEF AtWorkOn
  <2>3. ASSUME NEW status \in Texted \cup {"failed"}, NEW gap \in BOOLEAN, NEW text_ \in BOOLEAN,
               status # "ready", Through(e, status, retries, gap, text_)
        PROVE  NativeInv'
    BY <1>0, <2>1, <2>2, <2>3, RangeThrough
  <2>4. "failed" \in Texted \cup {"failed"}
    OBVIOUS
  <2> QED
    BY <2>1, <2>3, <2>4
<1>7. CASE Truncate(e)
  <2>0. reader[e].pc \in AtWorkOn
    BY <1>7 DEF Truncate, At, AtWorkOn
  <2>1. /\ r.pc \in {"keep", "write"} /\ UNCHANGED <<long, retries, removing, overtaken>>
        /\ disk' = [disk EXCEPT ![r.range] = TornFile]
    BY <1>7 DEF Truncate, At
  <2>2. PICK pc \in {"keeping", "writing"} : Go(e, [r EXCEPT !.pc = pc]) /\ (pc = "keeping" => r.pc = "keep")
    BY <1>7 DEF Truncate, At
  <2>3. r \in Works /\ r \in Working(overtaken, retries)
    BY <2>1, WhoWorks DEF AtWorkOn
  <2> DEFINE q == [r EXCEPT !.pc = pc]
  <2>4. Go(e, q)
    BY <2>2
  <2> HIDE DEF r
  <2>5. /\ q \in Works /\ q.pc = pc /\ q.own = r.own /\ q.status = r.status /\ q.gap = r.gap
        /\ q.after = r.after /\ q.since = r.since
    BY <2>3 DEF Works, AtWorkOn
  <2> HIDE DEF q
  <2>6. q \in Working(overtaken, retries)
    BY <2>2, <2>3, <2>5 DEF Working, Sound
  <2>7. disk' \in [0 .. Ranges -> OnDisk(overtaken, retries)]
    BY <1>0, <2>1 DEF OnDisk
  <2> QED
    BY <2>1, <2>4, <2>6, <2>7, <2>0, ReaderGoes
<1>8. CASE KeepRange(e)
  <2>1. /\ r.pc = "keeping" /\ Put(e, r.own) /\ UNCHANGED <<long, retries, removing, overtaken>>
        /\ Through(e, r.own.status, r.own.since, r.own.gap, TRUE)
    BY <1>8 DEF KeepRange, At
  <2>2. r.pc \in AtWorkOn
    BY <2>1 DEF AtWorkOn
  <2>3. r.own \in Kept(overtaken, retries)
    BY <2>1, <2>2, WhoWorks DEF Working
  <2>4. /\ r.own.status \in Texted /\ r.own.since \in Nat /\ r.own.gap \in BOOLEAN
        /\ r.own.status = "ready" => ~r.own.gap
        /\ overtaken \/ r.own.since >= retries
    BY <2>3 DEF Kept, JsonFiles, Sound
  <2>5. disk' \in [0 .. Ranges -> OnDisk(overtaken, retries)]
    <3>1. PICK left \in {r.own, TornFile} : disk' = [disk EXCEPT ![r.range] = left]
      BY <2>1 DEF Put
    <3> QED
      BY <1>0, <2>3, <3>1 DEF OnDisk
  <2> QED
    BY <2>1, <2>2, <2>4, <2>5, RangeThrough
<1>9. CASE WriteWhole(e)
  <2>0. reader[e].pc \in AtWorkOn
    BY <1>9 DEF WriteWhole, At, AtWorkOn
  <2>1. /\ r.pc = "writing" /\ UNCHANGED <<long, retries, removing, overtaken>>
        /\ Put(e, Json(ParserOf[e], r.status, r.since, r.gap)) /\ Go(e, [r EXCEPT !.pc = "clear"])
    BY <1>9 DEF WriteWhole, At
  <2>2. r \in Works /\ r \in Working(overtaken, retries)
    BY <2>1, WhoWorks DEF AtWorkOn
  <2> DEFINE whole == Json(ParserOf[e], r.status, r.since, r.gap)
             q == [r EXCEPT !.pc = "clear"]
  <2>3. Go(e, q) /\ Put(e, whole)
    BY <2>1
  <2>4. PICK left \in {whole, TornFile} : disk' = [disk EXCEPT ![r.range] = left]
    BY <2>3 DEF Put
  <2> HIDE DEF r
  <2>5. whole \in JsonFiles /\ whole.status = r.status /\ whole.gap = r.gap /\ whole.since = r.since
    BY <2>2, NativeAssumption DEF Json, JsonFiles, Works
  <2> HIDE DEF whole
  <2>6. whole \in Kept(overtaken, retries)
    BY <2>2, <2>5 DEF Kept, Working, Sound
  <2>7. disk' \in [0 .. Ranges -> OnDisk(overtaken, retries)]
    BY <1>0, <2>4, <2>6 DEF OnDisk
  <2>8. /\ q \in Works /\ q.pc = "clear" /\ q.status = r.status /\ q.gap = r.gap
        /\ q.after = r.after /\ q.since = r.since
    BY <2>2 DEF Works, AtWorkOn
  <2> HIDE DEF q
  <2>9. q \in Working(overtaken, retries)
    BY <2>2, <2>8 DEF Working, Sound
  <2> QED
    BY <2>1, <2>3, <2>7, <2>9, <2>0, ReaderGoes
<1>10. CASE Clear(e)
  <2>0. reader[e].pc \in AtWorkOn
    BY <1>10 DEF Clear, At, AtWorkOn
  <2>1. /\ r.pc = "clear" /\ UNCHANGED <<long, retries, removing, overtaken>> /\ disk' = NoSegments
        /\ Go(e, Base(e, r.status, r.since, r.gap))
    BY <1>10 DEF Clear, At
  <2>2. r \in Works /\ r \in Working(overtaken, retries)
    BY <2>1, WhoWorks DEF AtWorkOn
  <2>3. disk' \in [0 .. Ranges -> OnDisk(overtaken, retries)]
    BY <1>0, <2>1 DEF NoSegments, OnDisk
  <2> DEFINE q == Base(e, r.status, r.since, r.gap)
  <2>4. /\ r.status \in Texted /\ r.since \in Nat /\ r.gap \in BOOLEAN /\ r.after \in Nat
        /\ r.status = "ready" => ~r.gap
        /\ overtaken \/ r.since >= r.after
    BY <1>0, <2>2 DEF Works, Working, Sound
  <2>5. q \in Dones
    BY <2>4 DEF Base, Dones
  <2>6. q \in Bases(overtaken)
    BY <2>4, <2>5 DEF Base, Bases, Sound
  <2> QED
    BY <2>1, <2>3, <2>6, <2>0, ReaderGoes
<1>11. CASE Crash(e)
  <2>0. reader[e].pc \in AtWorkOn
    BY <1>11 DEF Crash, AtWork, NativeInv, Idle, Bases, Dones, Working, Works
  <2>1. Go(e, [pc |-> "failed"]) /\ UNCHANGED <<long, disk, retries, removing, overtaken>>
    BY <1>11 DEF Crash
  <2> QED
    BY <1>0, <2>1, <2>0, ReaderGoes DEF Idle
<1> QED
  BY <1>1, <1>2, <1>3, <1>4, <1>5, <1>6, <1>7, <1>8, <1>9, <1>10, <1>11

LEMMA RetryBegins ==
    ASSUME NativeInv, RemoveWhole
    PROVE  NativeInv'
<1>1. /\ removing' = TRUE /\ disk' = [disk EXCEPT ![0] = NoFile] /\ overtaken' = (overtaken \/ AtWork # {})
      /\ long' = long /\ reader' = reader /\ retries' = retries
  BY DEF RemoveWhole
<1>2. /\ retries \in Nat /\ overtaken \in BOOLEAN /\ 0 \in 0 .. Ranges
      /\ disk \in [0 .. Ranges -> OnDisk(overtaken, retries)]
  BY NativeAssumption DEF NativeInv
<1>3. /\ OnDisk(overtaken, retries) \subseteq OnDisk(overtaken', retries)
      /\ Bases(overtaken) \subseteq Bases(overtaken')
      /\ Working(overtaken, retries) \subseteq Working(overtaken', retries)
  <2>1. overtaken' = overtaken \/ overtaken' = TRUE
    BY <1>1, <1>2
  <2> QED
    BY <1>2, <2>1, OvertakenIsWider
<1>4. disk' \in [0 .. Ranges -> OnDisk(overtaken', retries')] /\ disk'[0] = NoFile
  BY <1>1, <1>2, <1>3 DEF OnDisk
<1>5. reader' \in [Readers -> Idle \cup Bases(overtaken') \cup Working(overtaken', retries')]
  BY <1>1, <1>3 DEF NativeInv
<1>6. ASSUME ~overtaken', NEW e \in Readers PROVE reader'[e].pc \notin AtWorkOn
  BY <1>1, <1>6 DEF AtWork, AtWorkOn
<1> QED
  BY <1>1, <1>4, <1>5, <1>6 DEF NativeInv

LEMMA RetryEnds ==
    ASSUME NativeInv, RemoveRanges
    PROVE  NativeInv'
<1>1. /\ removing /\ removing' = FALSE /\ retries' = retries + 1 /\ disk' = Removed
      /\ long' = long /\ reader' = reader /\ overtaken' = overtaken
  BY DEF RemoveRanges
<1>2. /\ retries \in Nat /\ retries' \in Nat /\ overtaken \in BOOLEAN /\ 0 \in 0 .. Ranges
      /\ disk \in [0 .. Ranges -> OnDisk(overtaken, retries)]
  BY <1>1, NativeAssumption DEF NativeInv
<1>3. CASE overtaken
  <2>1. /\ OnDisk(overtaken, retries) \subseteq OnDisk(overtaken', retries')
        /\ Bases(overtaken) \subseteq Bases(overtaken')
        /\ Working(overtaken, retries) \subseteq Working(overtaken', retries')
    <3>1. overtaken' = TRUE
      BY <1>1, <1>2, <1>3
    <3> QED
      BY <1>2, <3>1, OvertakenIsWider
  <2>2. disk' \in [0 .. Ranges -> OnDisk(overtaken', retries')]
    BY <1>1, <1>2, <2>1 DEF Removed, NoSegments, OnDisk
  <2>3. reader' \in [Readers -> Idle \cup Bases(overtaken') \cup Working(overtaken', retries')]
    BY <1>1, <2>1 DEF NativeInv
  <2> QED
    BY <1>1, <1>2, <2>2, <2>3 DEF NativeInv
<1>4. CASE ~overtaken
  <2>1. disk[0] = NoFile /\ \A e \in Readers : reader[e].pc \notin AtWorkOn
    BY <1>1, <1>4 DEF NativeInv
  <2>2. disk' = [f \in 0 .. Ranges |-> NoFile]
    BY <1>1, <2>1 DEF Removed, NoSegments
  <2>3. disk' \in [0 .. Ranges -> OnDisk(overtaken', retries')]
    BY <2>2 DEF OnDisk
  <2>4. ASSUME NEW e \in Readers PROVE reader[e] \in Idle \cup Bases(overtaken')
    BY <1>1, <2>1 DEF NativeInv, Working, Works
  <2>5. reader' \in [Readers -> Idle \cup Bases(overtaken') \cup Working(overtaken', retries')]
    BY <1>1, <2>4 DEF NativeInv
  <2> QED
    BY <1>1, <1>2, <2>3, <2>5 DEF NativeInv
<1> QED
  BY <1>3, <1>4

LEMMA NativeSteps == ASSUME NativeInv, NativeNext \/ UNCHANGED nativeVars PROVE NativeInv'
<1>1. CASE UNCHANGED nativeVars
  BY <1>1 DEF nativeVars, NativeInv
<1> QED
  BY <1>1, ReaderSteps, RetryBegins, RetryEnds DEF NativeNext

LEMMA NativeStarts == NativeInit => NativeInv
<1> SUFFICES ASSUME NativeInit PROVE NativeInv
  OBVIOUS
<1>1. retries \in Nat /\ overtaken \in BOOLEAN /\ long \in BOOLEAN /\ removing = FALSE
  BY DEF NativeInit
<1>2. disk \in [0 .. Ranges -> OnDisk(overtaken, retries)]
  BY DEF NativeInit, OnDisk
<1>3. reader \in [Readers -> Idle]
  BY DEF NativeInit, Idle
<1> QED
  BY <1>1, <1>2, <1>3 DEF NativeInv

(* What a reading takes from the checkpoint files is the whole document    *)
(* when it is called ready, and nothing that an explicit retry discarded,  *)
(* however many executors read it side by side, are cut off or mix their   *)
(* files.                                                                  *)
THEOREM PagesAlwaysTheDocument == Spec => []PagesAreTheDocument
<1>1. Init => NativeInv
  BY NativeStarts DEF Init
<1>2. NativeInv /\ [Next]_vars => NativeInv'
  BY Apart, NativeSteps
<1>3. NativeInv => PagesAreTheDocument
  <2> SUFFICES ASSUME NativeInv, NEW e \in Readers, At(e, "done")
               PROVE  /\ reader[e].status = "ready" => ~reader[e].gap
                      /\ ~overtaken => reader[e].since >= reader[e].after
    BY DEF PagesAreTheDocument, ReadyIsWhole, RetryIsFresh
  <2>1. reader[e] \in Bases(overtaken)
    BY DEF NativeInv, At, Idle, Working, Works, AtWorkOn
  <2> QED
    BY <2>1 DEF Bases, Sound
<1> QED
  BY <1>1, <1>2, <1>3, PTL DEF Spec

-----------------------------------------------------------------------------
(* Previews and thumbnails.                                                *)
Gone == [pc |-> "gone"]
Live == [pc : {"open", "write", "rename", "over"}, makes : Targets, file : Children, orphan : BOOLEAN]
FileStates == [text : {Torn, Whole}, last : Children, overlap : BOOLEAN]

PreviewTypes ==
    /\ files \in [Children -> FileStates]
    /\ target \in [Targets -> Children \cup {Absent}] /\ part \in [Targets -> Children \cup {Absent}]
    /\ child \in [Children -> {Unborn, Gone} \cup Live]
    /\ jobs \in [Targets -> {"none", "running", "finished"}]

Maker(k, t) == child[k] \in Live /\ child[k].makes = t /\ ~child[k].orphan

(* The running service has one child for a file, and a job as long as the  *)
(* file is not there.                                                      *)
OneMaker ==
    \A t \in Targets : \A k, l \in Children : Maker(k, t) /\ Maker(l, t) => k = l
JobRuns ==
    \A t \in Targets, k \in Children : Maker(k, t) => jobs[t] = "running" \/ target[t] # Absent
WaitedFor == \A k \in Children : child[k].pc = "over" => ~child[k].orphan

(* No file has two names.                                                  *)
FreshFiles ==
    \A k \in Children : child[k].pc \in {"unborn", "open"} => \A t \in Targets : target[t] # k /\ part[t] # k
OwnNames ==
    \A t, u \in Targets : part[t] # Absent => target[u] # part[t] /\ (part[u] = part[t] => u = t)

(* If two services did not overlap when the temporary file was opened,     *)
(* whoever may still rename it is the one who opened it, and has written   *)
(* it to its end by then.                                                  *)
Writes(k, t) ==
    /\ child[k].file = part[t] /\ files[part[t]].last = k
    /\ child[k].pc = "rename" => files[part[t]].text = Whole
PartWritten ==
    \A t \in Targets : part[t] # Absent /\ ~files[part[t]].overlap =>
        \A k \in Children : InHand(k, t) => Writes(k, t)
TargetWhole ==
    \A t \in Targets : target[t] # Absent => files[target[t]].text = Whole \/ files[target[t]].overlap

PreviewInv ==
    /\ PreviewTypes /\ OneMaker /\ JobRuns /\ WaitedFor /\ FreshFiles /\ OwnNames /\ PartWritten
    /\ TargetWhole

LEMMA LiveChild ==
    ASSUME PreviewTypes, NEW k \in Children, child[k].pc \notin {"unborn", "gone"}
    PROVE  child[k] \in Live
BY DEF PreviewTypes, Unborn, Gone

(* A child goes on: it still makes the same file for the same service.     *)
LEMMA ChildGoes ==
    ASSUME PreviewTypes, NEW k \in Children, child[k] \in Live, NEW new \in Live,
           new.makes = child[k].makes, new.orphan <=> child[k].orphan,
           child' = [child EXCEPT ![k] = new]
    PROVE  /\ child' \in [Children -> {Unborn, Gone} \cup Live]
           /\ \A l \in Children, t \in Targets : Maker(l, t)' <=> Maker(l, t)
           /\ child'[k] = new /\ \A l \in Children \ {k} : child'[l] = child[l]
<1>1. /\ child' \in [Children -> {Unborn, Gone} \cup Live]
      /\ child'[k] = new /\ \A l \in Children \ {k} : child'[l] = child[l]
  BY DEF PreviewTypes
<1> QED
  BY <1>1 DEF Maker

(* A child ends: one of the running service is waited for, an orphan goes. *)
LEMMA ChildEnds ==
    ASSUME PreviewTypes, NEW k \in Children, child[k] \in Live, child' = [child EXCEPT ![k] = Ended(k)]
    PROVE  /\ child' \in [Children -> {Unborn, Gone} \cup Live]
           /\ \A l \in Children, t \in Targets : Maker(l, t)' <=> Maker(l, t)
           /\ child'[k].pc \in {"over", "gone"} /\ (child'[k].pc = "over" => ~child'[k].orphan)
           /\ \A l \in Children \ {k} : child'[l] = child[l]
<1>1. CASE child[k].orphan
  <2>1. child' = [child EXCEPT ![k] = Gone] /\ Gone \notin Live /\ Gone.pc = "gone"
    BY <1>1 DEF Ended, Gone, Live
  <2>2. /\ child' \in [Children -> {Unborn, Gone} \cup Live]
        /\ child'[k] = Gone /\ \A l \in Children \ {k} : child'[l] = child[l]
    BY <2>1 DEF PreviewTypes
  <2> QED
    BY <1>1, <2>1, <2>2 DEF Maker
<1>2. CASE ~child[k].orphan
  <2> DEFINE new == [child[k] EXCEPT !.pc = "over"]
  <2>1. /\ new \in Live /\ new.pc = "over" /\ new.makes = child[k].makes /\ ~new.orphan
    BY <1>2 DEF Live
  <2>2. child' = [child EXCEPT ![k] = new]
    BY <1>2 DEF Ended
  <2> HIDE DEF new
  <2> QED
    BY <1>2, <2>1, <2>2, ChildGoes
<1> QED
  BY <1>1, <1>2

(* A request changes neither the files nor a child that is there; a new    *)
(* child is made when there is none, and no file.                          *)
LEMMA Requesting ==
    ASSUME PreviewInv, NEW t \in Targets, Served(t) \/ Refused(t) \/ Awaited(t) \/ Submitted(t),
           UNCHANGED <<files, target, part>>
    PROVE  PreviewInv'
<1> USE DEF PreviewInv
<1>1. CASE Served(t) \/ Refused(t) \/ Awaited(t) \/ (Submitted(t) /\ child' = child)
  <2>1. child' = child
    BY <1>1 DEF Served, Refused, Awaited
  <2>2. \A l \in Children, u \in Targets : (Maker(l, u)' <=> Maker(l, u)) /\ (InHand(l, u)' <=> InHand(l, u))
    BY <2>1 DEF Maker, InHand
  <2>3. /\ jobs' \in [Targets -> {"none", "running", "finished"}]
        /\ \A u \in Targets : jobs[u] = "running" /\ target[u] = Absent => jobs'[u] = "running"
    <3>1. Served(t) => jobs' = [jobs EXCEPT ![t] = "none"] /\ target[t] # Absent
      BY DEF Served, Made
    <3>2. Refused(t) => jobs' = [u \in Targets |-> IF u \in {t} \cap {w \in Targets : jobs[w] = "finished"}
                                                  THEN "none" ELSE jobs[u]]
      BY DEF Refused
    <3>3. Awaited(t) => jobs' = jobs
      BY DEF Awaited
    <3>4. Submitted(t) /\ child' = child =>
            jobs' = [u \in Targets |-> IF u \in {w \in Pool(t) : jobs[w] = "finished"} THEN "none" ELSE jobs[u]]
      <4>1. ASSUME NEW k \in Children, child[k] = Unborn,
                   child' = [child EXCEPT ![k] = [pc |-> "open", makes |-> t, file |-> k, orphan |-> FALSE]]
            PROVE  child' # child
        <5>1. child'[k].pc = "open" /\ child[k].pc = "unborn"
          BY <4>1 DEF PreviewTypes, Unborn
        <5> QED
          BY <5>1
      <4> QED
        BY <4>1 DEF Submitted
    <3> QED
      BY <1>1, <3>1, <3>2, <3>3, <3>4 DEF PreviewTypes
  <2>4. PreviewTypes' /\ OneMaker' /\ JobRuns' /\ WaitedFor' /\ FreshFiles' /\ OwnNames'
    BY <2>1, <2>2, <2>3 DEF PreviewTypes, OneMaker, JobRuns, WaitedFor, FreshFiles, OwnNames
  <2>5. PartWritten' /\ TargetWhole'
    BY <2>1, <2>2 DEF PartWritten, TargetWhole, Writes
  <2> QED
    BY <2>4, <2>5
<1>2. CASE Submitted(t) /\ child' # child
  <2> DEFINE done == {u \in Pool(t) : jobs[u] = "finished"}
             left == [u \in Targets |-> IF u \in done THEN "none" ELSE jobs[u]]
  <2>1. PICK k \in Children :
           /\ target[t] = Absent /\ jobs[t] = "none" /\ child[k] = Unborn
           /\ child' = [child EXCEPT ![k] = [pc |-> "open", makes |-> t, file |-> k, orphan |-> FALSE]]
           /\ jobs' = [left EXCEPT ![t] = "running"]
    BY <1>2 DEF Submitted, Made
  <2> HIDE DEF done
  <2> DEFINE new == [pc |-> "open", makes |-> t, file |-> k, orphan |-> FALSE]
  <2>2. new \in Live /\ new.pc = "open" /\ new.makes = t /\ ~new.orphan
    BY DEF Live
  <2>3. /\ child' \in [Children -> {Unborn, Gone} \cup Live]
        /\ child'[k] = new /\ \A l \in Children \ {k} : child'[l] = child[l]
    BY <2>1, <2>2 DEF PreviewTypes
  <2> HIDE DEF new
  <2>4. child[k] \notin Live /\ child[k].pc = "unborn"
    BY <2>1 DEF Unborn, Live
  <2>5. \A l \in Children, u \in Targets : Maker(l, u)' <=> (Maker(l, u) \/ (l = k /\ u = t))
    BY <2>2, <2>3, <2>4 DEF Maker
  <2>6. \A l \in Children, u \in Targets : InHand(l, u)' => InHand(l, u) /\ l # k
    BY <2>2, <2>3 DEF InHand
  <2>7. \A l \in Children : ~Maker(l, t)
    BY <2>1 DEF JobRuns
  <2>8. jobs' \in [Targets -> {"none", "running", "finished"}] /\ jobs'[t] = "running"
        /\ \A u \in Targets : jobs[u] = "running" => jobs'[u] = "running"
    BY <2>1 DEF PreviewTypes, done
  <2>9. PreviewTypes' /\ OneMaker' /\ JobRuns' /\ WaitedFor'
    BY <2>2, <2>3, <2>5, <2>7, <2>8 DEF PreviewTypes, OneMaker, JobRuns, WaitedFor
  <2>10. FreshFiles' /\ OwnNames'
    BY <2>3, <2>4 DEF FreshFiles, OwnNames
  <2>11. PartWritten' /\ TargetWhole'
    BY <2>3, <2>6 DEF PartWritten, TargetWhole, Writes
  <2> QED
    BY <2>9, <2>10, <2>11
<1> QED
  BY <1>1, <1>2

(* The child that opens the temporary file empties it.  If no other has it *)
(* in hand the file is its own; two of one service never meet there.       *)
LEMMA Opening ==
    ASSUME PreviewInv, NEW k \in Children, Open(k)
    PROVE  PreviewInv'
<1> USE DEF PreviewInv
<1> DEFINE t == child[k].makes
           f == IF part[t] = Absent THEN k ELSE part[t]
           new == [child[k] EXCEPT !.pc = "write", !.file = f]
           opened == [text |-> Torn, last |-> k, overlap |-> Overlaps(k)]
<1>1. /\ child[k].pc = "open" /\ child' = [child EXCEPT ![k] = new]
      /\ part' = [part EXCEPT ![t] = f]
      /\ files' = [files EXCEPT ![f] = opened]
      /\ UNCHANGED <<target, jobs, failed, clock, restarts>>
  BY DEF Open, Goes
<1>2. child[k] \in Live /\ t \in Targets
  BY <1>1, LiveChild DEF Live
<1>3. f \in Children /\ part[t] \in Children \cup {Absent}
  BY <1>2 DEF PreviewTypes
<1>4. /\ new \in Live /\ new.pc = "write" /\ new.file = f /\ new.makes = child[k].makes
      /\ new.orphan = child[k].orphan
  <2> HIDE DEF f
  <2> QED
    BY <1>2, <1>3 DEF Live
<1>5. opened \in FileStates /\ opened.last = k /\ (opened.overlap <=> Overlaps(k))
  BY DEF FileStates, Overlaps
<1> HIDE DEF new, opened
<1>6. /\ child' \in [Children -> {Unborn, Gone} \cup Live]
      /\ \A l \in Children, u \in Targets : Maker(l, u)' <=> Maker(l, u)
      /\ child'[k] = new /\ \A l \in Children \ {k} : child'[l] = child[l]
  BY <1>1, <1>2, <1>4, ChildGoes
<1>7. /\ files' \in [Children -> FileStates] /\ files'[f] = opened
      /\ \A g \in Children \ {f} : files'[g] = files[g]
  BY <1>1, <1>3, <1>5 DEF PreviewTypes
<1>8. part' \in [Targets -> Children \cup {Absent}] /\ part'[t] = f /\ \A u \in Targets \ {t} : part'[u] = part[u]
  BY <1>1, <1>2, <1>3 DEF PreviewTypes
<1>9. f # Absent /\ \A u \in Targets : target[u] # f /\ (u # t => part[u] # f)
  BY <1>1, <1>2, PreviewsAssumption DEF FreshFiles, OwnNames
<1>10. PreviewTypes' /\ OneMaker' /\ JobRuns' /\ WaitedFor'
  BY <1>1, <1>4, <1>6, <1>7, <1>8 DEF PreviewTypes, OneMaker, JobRuns, WaitedFor
<1>11. FreshFiles'
  <2>1. ASSUME NEW l \in Children, child'[l].pc \in {"unborn", "open"} PROVE l # k /\ child'[l] = child[l]
    BY <1>4, <1>6, <2>1
  <2>2. ASSUME NEW l \in Children, child'[l].pc \in {"unborn", "open"}, NEW u \in Targets
        PROVE  target'[u] # l /\ part'[u] # l
    <3>1. target[u] # l /\ part[u] # l /\ part[t] # l /\ l # k
      BY <1>2, <2>1, <2>2 DEF FreshFiles
    <3> QED
      BY <1>1, <1>8, <3>1
  <2> QED
    BY <2>2 DEF FreshFiles
<1>12. OwnNames'
  BY <1>1, <1>8, <1>9 DEF OwnNames
<1>13. PartWritten'
  <2>1. ASSUME ~opened.overlap, NEW l \in Children \ {k} PROVE ~InHand(l, t)
    <3> SUFFICES ASSUME InHand(l, t) PROVE FALSE
      OBVIOUS
    <3>1. ~child[l].orphan /\ ~child[k].orphan
      BY <1>5, <2>1 DEF Overlaps
    <3>2. child[l] \in Live
      BY LiveChild DEF InHand
    <3>3. Maker(l, t) /\ Maker(k, t)
      BY <1>2, <3>1, <3>2 DEF Maker, InHand
    <3> QED
      BY <1>2, <3>3 DEF OneMaker
  <2>2. ASSUME NEW u \in Targets, part'[u] # Absent, ~files'[part'[u]].overlap, NEW l \in Children,
               InHand(l, u)'
        PROVE  Writes(l, u)'
    <3>1. CASE u = t
      <4>1. ~opened.overlap
        BY <1>7, <1>8, <2>2, <3>1
      <4>2. l = k
        <5> SUFFICES ASSUME l # k PROVE FALSE
          OBVIOUS
        <5>1. InHand(l, t)
          BY <1>6, <2>2, <3>1 DEF InHand
        <5> QED
          BY <2>1, <4>1, <5>1
      <4> HIDE DEF f, t
      <4> QED
        BY <1>4, <1>5, <1>6, <1>7, <1>8, <3>1, <4>2 DEF Writes
    <3>2. CASE u # t
      <4>1. part'[u] = part[u] /\ part[u] \in Children
        BY <1>8, <2>2, <3>2 DEF PreviewTypes
      <4>2. files'[part[u]] = files[part[u]]
        BY <1>7, <1>9, <3>2, <4>1
      <4>3. l # k
        BY <1>4, <1>6, <2>2, <3>2 DEF InHand
      <4>4. child'[l] = child[l] /\ InHand(l, u)
        BY <1>6, <2>2, <4>3 DEF InHand
      <4>5. Writes(l, u)
        BY <2>2, <4>1, <4>2, <4>4 DEF PartWritten
      <4> QED
        BY <4>1, <4>2, <4>4, <4>5 DEF Writes
    <3> QED
      BY <3>1, <3>2
  <2> QED
    BY <2>2 DEF PartWritten
<1>14. TargetWhole'
  BY <1>1, <1>7, <1>9 DEF TargetWhole, PreviewTypes
<1> QED
  BY <1>10, <1>11, <1>12, <1>13, <1>14

LEMMA Writing ==
    ASSUME PreviewInv, NEW k \in Children, Write(k)
    PROVE  PreviewInv'
<1> USE DEF PreviewInv
<1> DEFINE f == child[k].file
           new == [child[k] EXCEPT !.pc = "rename"]
<1>1. /\ child[k].pc = "write" /\ child' = [child EXCEPT ![k] = new]
      /\ files' = IF files[f].last = k THEN [files EXCEPT ![f].text = Whole] ELSE files
      /\ UNCHANGED <<target, part, jobs, failed, clock, restarts>>
  BY DEF Write, Goes
<1>2. child[k] \in Live /\ f \in Children
  BY <1>1, LiveChild DEF Live
<1>3. /\ new \in Live /\ new.pc = "rename" /\ new.file = f /\ new.makes = child[k].makes
      /\ new.orphan = child[k].orphan
  BY <1>2 DEF Live
<1> HIDE DEF new
<1>4. /\ child' \in [Children -> {Unborn, Gone} \cup Live]
      /\ \A l \in Children, u \in Targets : Maker(l, u)' <=> Maker(l, u)
      /\ child'[k] = new /\ \A l \in Children \ {k} : child'[l] = child[l]
  BY <1>1, <1>2, <1>3, ChildGoes
<1> HIDE DEF f
<1>5. /\ files' \in [Children -> FileStates]
      /\ \A g \in Children : /\ files'[g].last = files[g].last
                             /\ files'[g].overlap = files[g].overlap
                             /\ files'[g].text = files[g].text \/ files'[g].text = Whole
      /\ files[f].last = k => files'[f].text = Whole
  BY <1>1, <1>2 DEF PreviewTypes, FileStates
<1>6. PreviewTypes' /\ OneMaker' /\ JobRuns' /\ WaitedFor'
  BY <1>1, <1>3, <1>4, <1>5 DEF PreviewTypes, OneMaker, JobRuns, WaitedFor
<1>7. FreshFiles' /\ OwnNames'
  BY <1>1, <1>3, <1>4 DEF FreshFiles, OwnNames
<1>8. PartWritten'
  <2>1. ASSUME NEW u \in Targets, part[u] # Absent, ~files'[part[u]].overlap, NEW l \in Children,
               InHand(l, u)'
        PROVE  Writes(l, u)'
    <3>1. part[u] \in Children /\ ~files[part[u]].overlap
      BY <1>5, <2>1 DEF PreviewTypes
    <3>2. InHand(l, u)
      BY <1>1, <1>3, <1>4, <2>1 DEF InHand
    <3>3. Writes(l, u)
      BY <2>1, <3>1, <3>2 DEF PartWritten
    <3>4. CASE l = k
      BY <1>1, <1>3, <1>4, <1>5, <3>1, <3>3, <3>4 DEF Writes, f
    <3>5. CASE l # k
      BY <1>1, <1>4, <1>5, <3>1, <3>3, <3>5 DEF Writes
    <3> QED
      BY <3>4, <3>5
  <2> QED
    BY <1>1, <2>1 DEF PartWritten
<1>9. TargetWhole'
  BY <1>1, <1>5 DEF TargetWhole, PreviewTypes
<1> QED
  BY <1>6, <1>7, <1>8, <1>9

(* What a child that ends leaves as it was.                                *)
LEMMA EndingKeeps ==
    ASSUME PreviewInv, NEW k \in Children, child[k].pc \in {"open", "write", "rename"},
           child' = [child EXCEPT ![k] = Ended(k)], UNCHANGED jobs
    PROVE  /\ child' \in [Children -> {Unborn, Gone} \cup Live]
           /\ OneMaker' /\ WaitedFor'
           /\ \A l \in Children, u \in Targets : Maker(l, u)' <=> Maker(l, u)
           /\ \A l \in Children, u \in Targets : InHand(l, u)' => InHand(l, u) /\ l # k
           /\ \A l \in Children : child'[l].pc \in {"unborn", "open"} => l # k
           /\ \A l \in Children \ {k} : child'[l] = child[l]
<1>1. child[k] \in Live
  BY LiveChild DEF PreviewInv
<1>2. /\ child' \in [Children -> {Unborn, Gone} \cup Live]
      /\ \A l \in Children, t \in Targets : Maker(l, t)' <=> Maker(l, t)
      /\ child'[k].pc \in {"over", "gone"} /\ (child'[k].pc = "over" => ~child'[k].orphan)
      /\ \A l \in Children \ {k} : child'[l] = child[l]
  BY <1>1, ChildEnds DEF PreviewInv
<1>3. OneMaker' /\ WaitedFor'
  BY <1>2 DEF PreviewInv, OneMaker, WaitedFor
<1>4. \A l \in Children, u \in Targets : InHand(l, u)' => InHand(l, u) /\ l # k
  BY <1>2 DEF InHand
<1> QED
  BY <1>2, <1>3, <1>4

LEMMA Renaming ==
    ASSUME PreviewInv, NEW k \in Children, Rename(k)
    PROVE  PreviewInv'
<1> USE DEF PreviewInv
<1> DEFINE t == child[k].makes
<1>1. /\ child[k].pc = "rename" /\ child' = [child EXCEPT ![k] = Ended(k)]
      /\ UNCHANGED <<files, jobs, failed, clock, restarts>>
  BY DEF Rename, Goes
<1>2. t \in Targets /\ InHand(k, t)
  BY <1>1, LiveChild DEF Live, InHand
<1>3. /\ child' \in [Children -> {Unborn, Gone} \cup Live]
      /\ OneMaker' /\ WaitedFor'
      /\ \A l \in Children, u \in Targets : Maker(l, u)' <=> Maker(l, u)
      /\ \A l \in Children, u \in Targets : InHand(l, u)' => InHand(l, u) /\ l # k
      /\ \A l \in Children : child'[l].pc \in {"unborn", "open"} => l # k
      /\ \A l \in Children \ {k} : child'[l] = child[l]
  BY <1>1, EndingKeeps
<1>4. \/ part[t] = Absent /\ UNCHANGED <<target, part>>
      \/ /\ part[t] # Absent /\ target' = [target EXCEPT ![t] = part[t]]
         /\ part' = [part EXCEPT ![t] = Absent]
  BY DEF Rename
<1> HIDE DEF t
<1>5. /\ target' \in [Targets -> Children \cup {Absent}] /\ part' \in [Targets -> Children \cup {Absent}]
      /\ \A u \in Targets \ {t} : target'[u] = target[u] /\ part'[u] = part[u]
      /\ part'[t] = Absent
      /\ target'[t] = IF part[t] = Absent THEN target[t] ELSE part[t]
  BY <1>2, <1>4 DEF PreviewTypes
<1>6. PreviewTypes' /\ JobRuns'
  BY <1>1, <1>3, <1>5 DEF PreviewTypes, JobRuns
<1>7. FreshFiles'
  <2>1. ASSUME NEW l \in Children, child'[l].pc \in {"unborn", "open"}, NEW u \in Targets
        PROVE  target'[u] # l /\ part'[u] # l
    <3>1. child'[l] = child[l]
      BY <1>3, <2>1
    <3>2. target[u] # l /\ part[u] # l
      BY <2>1, <3>1 DEF FreshFiles
    <3>3. Absent # l
      BY PreviewsAssumption
    <3> QED
      BY <1>2, <1>5, <3>2, <3>3
  <2> QED
    BY <2>1 DEF FreshFiles
<1>8. OwnNames'
  BY <1>2, <1>5 DEF OwnNames
<1>9. PartWritten'
  <2>1. ASSUME NEW u \in Targets, part'[u] # Absent, ~files[part'[u]].overlap, NEW l \in Children,
               InHand(l, u)'
        PROVE  Writes(l, u)'
    <3>1. part'[u] = part[u] /\ InHand(l, u) /\ child'[l] = child[l]
      BY <1>3, <1>5, <2>1
    <3>2. Writes(l, u)
      BY <2>1, <3>1 DEF PartWritten
    <3> QED
      BY <1>1, <3>1, <3>2 DEF Writes
  <2> QED
    BY <1>1, <2>1 DEF PartWritten
<1>10. TargetWhole'
  <2>1. part[t] # Absent /\ ~files[part[t]].overlap => files[part[t]].text = Whole
    BY <1>1, <1>2 DEF PartWritten, Writes
  <2> QED
    BY <1>1, <1>2, <1>5, <2>1 DEF TargetWhole
<1> QED
  BY <1>3, <1>6, <1>7, <1>8, <1>9, <1>10

LEMMA Dying ==
    ASSUME PreviewInv, NEW k \in Children, Die(k)
    PROVE  PreviewInv'
<1> USE DEF PreviewInv
<1>1. /\ child[k].pc \in {"open", "write", "rename"} /\ child' = [child EXCEPT ![k] = Ended(k)]
      /\ UNCHANGED <<files, target, part, jobs, failed, clock, restarts>>
  BY DEF Die
<1>2. /\ child' \in [Children -> {Unborn, Gone} \cup Live]
      /\ OneMaker' /\ WaitedFor'
      /\ \A l \in Children, u \in Targets : Maker(l, u)' <=> Maker(l, u)
      /\ \A l \in Children, u \in Targets : InHand(l, u)' => InHand(l, u) /\ l # k
      /\ \A l \in Children : child'[l].pc \in {"unborn", "open"} => l # k
      /\ \A l \in Children \ {k} : child'[l] = child[l]
  BY <1>1, EndingKeeps
<1>3. PreviewTypes' /\ JobRuns' /\ FreshFiles' /\ OwnNames' /\ TargetWhole'
  BY <1>1, <1>2 DEF PreviewTypes, JobRuns, FreshFiles, OwnNames, TargetWhole
<1>4. PartWritten'
  BY <1>1, <1>2 DEF PartWritten, Writes
<1> QED
  BY <1>2, <1>3, <1>4

LEMMA Finishing ==
    ASSUME PreviewInv, NEW k \in Children, Finish(k)
    PROVE  PreviewInv'
<1> USE DEF PreviewInv
<1>1. /\ child[k].pc = "over" /\ ~child[k].orphan /\ child' = [child EXCEPT ![k] = Gone]
      /\ UNCHANGED <<files, target, failed, clock, restarts>>
  BY DEF Finish, Gone, WaitedFor
<1>2. child[k] \in Live
  BY <1>1, LiveChild
<1>3. PICK t \in Targets : t = child[k].makes
  BY <1>2 DEF Live
<1>4. /\ part' = [part EXCEPT ![t] = Absent]
      /\ jobs' = [jobs EXCEPT ![t] = IF jobs[t] = "running" THEN "finished" ELSE jobs[t]]
  BY <1>3 DEF Finish
<1>5. Gone \notin Live /\ Gone.pc = "gone"
  BY DEF Gone, Live
<1>6. /\ child' \in [Children -> {Unborn, Gone} \cup Live]
      /\ child'[k] = Gone /\ \A l \in Children \ {k} : child'[l] = child[l]
  BY <1>1 DEF PreviewTypes
<1>7. \A l \in Children, u \in Targets : Maker(l, u)' <=> (Maker(l, u) /\ l # k)
  BY <1>5, <1>6 DEF Maker
<1>8. \A l \in Children, u \in Targets : InHand(l, u)' => InHand(l, u) /\ l # k
  BY <1>5, <1>6 DEF InHand
<1>9. /\ part' \in [Targets -> Children \cup {Absent}] /\ jobs' \in [Targets -> {"none", "running", "finished"}]
      /\ part'[t] = Absent /\ \A u \in Targets \ {t} : part'[u] = part[u] /\ jobs'[u] = jobs[u]
  BY <1>4 DEF PreviewTypes
<1>10. PreviewTypes' /\ OneMaker' /\ WaitedFor' /\ TargetWhole'
  BY <1>1, <1>5, <1>6, <1>7, <1>9 DEF PreviewTypes, OneMaker, WaitedFor, TargetWhole
<1>11. JobRuns'
  <2>1. ASSUME NEW l \in Children, Maker(l, t), l # k PROVE FALSE
    BY <1>1, <1>2, <1>3, <2>1 DEF OneMaker, Maker
  <2> QED
    BY <1>1, <1>7, <1>9, <2>1 DEF JobRuns
<1>12. FreshFiles'
  <2>1. ASSUME NEW l \in Children, child'[l].pc \in {"unborn", "open"}, NEW u \in Targets
        PROVE  target'[u] # l /\ part'[u] # l
    <3>1. child'[l] = child[l] /\ Absent # l
      BY <1>5, <1>6, <2>1, PreviewsAssumption
    <3> QED
      BY <1>1, <1>9, <2>1, <3>1 DEF FreshFiles
  <2> QED
    BY <2>1 DEF FreshFiles
<1>13. OwnNames'
  BY <1>1, <1>9 DEF OwnNames
<1>14. PartWritten'
  <2>1. ASSUME NEW u \in Targets, part'[u] # Absent, ~files[part'[u]].overlap, NEW l \in Children,
               InHand(l, u)'
        PROVE  Writes(l, u)'
    <3>1. part'[u] = part[u] /\ InHand(l, u) /\ child'[l] = child[l]
      BY <1>6, <1>8, <1>9, <2>1
    <3>2. Writes(l, u)
      BY <2>1, <3>1 DEF PartWritten
    <3> QED
      BY <1>1, <3>1, <3>2 DEF Writes
  <2> QED
    BY <1>1, <2>1 DEF PartWritten
<1> QED
  BY <1>10, <1>11, <1>12, <1>13, <1>14

(* A restart leaves the children it finds at work behind, with the file    *)
(* each has in hand.                                                       *)
LEMMA Restarting ==
    ASSUME PreviewInv, Restart
    PROVE  PreviewInv'
<1> USE DEF PreviewInv
<1>1. /\ child' = [k \in Children |-> IF child[k].pc \in {"unborn", "gone"} THEN child[k]
                                     ELSE IF child[k].pc = "over" THEN Gone
                                     ELSE [child[k] EXCEPT !.orphan = TRUE]]
      /\ jobs' = [t \in Targets |-> "none"]
      /\ UNCHANGED <<files, target, part>>
  BY DEF Restart, Gone
<1>2. ASSUME NEW k \in Children, child[k].pc \notin {"unborn", "gone", "over"}
      PROVE  /\ child'[k] \in Live /\ child'[k].makes = child[k].makes /\ child'[k].orphan
             /\ child'[k].pc = child[k].pc /\ child'[k].file = child[k].file /\ child[k].pc # "over"
  <2>1. child[k] \in Live
    BY <1>2, LiveChild
  <2>2. child'[k] = [child[k] EXCEPT !.orphan = TRUE]
    BY <1>1, <1>2
  <2> QED
    BY <1>2, <2>1, <2>2 DEF Live
<1>3. ASSUME NEW k \in Children, child[k].pc \in {"unborn", "gone", "over"}
      PROVE  /\ child'[k] \in {Unborn, Gone} /\ child'[k] \notin Live
             /\ child'[k].pc \in {"unborn", "gone"} /\ (child'[k].pc = "unborn" => child[k].pc = "unborn")
  <2>1. child[k].pc \in {"unborn", "gone"} => child[k] \in {Unborn, Gone}
    BY DEF PreviewTypes, Live
  <2>2. child'[k] = IF child[k].pc \in {"unborn", "gone"} THEN child[k] ELSE Gone
    BY <1>1, <1>3
  <2> QED
    BY <1>3, <2>1, <2>2 DEF Unborn, Gone, Live
<1>4. child' \in [Children -> {Unborn, Gone} \cup Live]
  <2>1. \A k \in Children : child'[k] \in {Unborn, Gone} \cup Live
    BY <1>2, <1>3
  <2>2. child' = [k \in Children |-> child'[k]]
    BY <1>1
  <2> QED
    BY <2>1, <2>2
<1>5. \A k \in Children, t \in Targets : ~Maker(k, t)'
  BY <1>2, <1>3 DEF Maker
<1>6. \A k \in Children, t \in Targets :
        InHand(k, t)' => InHand(k, t) /\ child'[k].pc = child[k].pc /\ child'[k].file = child[k].file
  BY <1>2, <1>3 DEF InHand
<1>7. PreviewTypes'
  BY <1>1, <1>4 DEF PreviewTypes
<1>8. OneMaker' /\ JobRuns' /\ WaitedFor'
  BY <1>2, <1>3, <1>5 DEF OneMaker, JobRuns, WaitedFor
<1>9. FreshFiles' /\ OwnNames'
  BY <1>1, <1>2, <1>3 DEF FreshFiles, OwnNames
<1>10. PartWritten' /\ TargetWhole'
  BY <1>1, <1>6 DEF PartWritten, TargetWhole, Writes
<1> QED
  BY <1>7, <1>8, <1>9, <1>10

LEMMA PreviewSteps ==
    ASSUME PreviewInv, PreviewsNext \/ ThumbnailsNext \/ UNCHANGED previewVars
    PROVE  PreviewInv'
<1>1. CASE (\E t \in Targets : Request(t)) \/ (\E t \in Thumbnails : Get(t))
  BY <1>1, Requesting, PreviewsAssumption DEF Request, Get
<1>2. CASE Tick \/ UNCHANGED previewVars
  <2>1. UNCHANGED <<files, target, part, child, jobs>>
    BY <1>2 DEF Tick, previewVars
  <2>2. \A l \in Children, u \in Targets : (Maker(l, u)' <=> Maker(l, u)) /\ (InHand(l, u)' <=> InHand(l, u))
    BY <2>1 DEF Maker, InHand
  <2> QED
    BY <2>1, <2>2 DEF PreviewInv, PreviewTypes, OneMaker, JobRuns, WaitedFor, FreshFiles, OwnNames,
       PartWritten, Writes, TargetWhole
<1> QED
  BY <1>1, <1>2, Opening, Writing, Renaming, Dying, Finishing, Restarting DEF PreviewsNext, ThumbnailsNext, Rendering

LEMMA PreviewsStart == PreviewsInit => PreviewInv
<1> SUFFICES ASSUME PreviewsInit PROVE PreviewInv
  OBVIOUS
<1>1. PreviewTypes
  BY DEF PreviewsInit, PreviewTypes, FileStates
<1>2. \A k \in Children : child[k].pc = "unborn" /\ child[k] \notin Live
  BY DEF PreviewsInit, Unborn, Live
<1>3. \A t \in Targets : target[t] = Absent /\ part[t] = Absent
  BY DEF PreviewsInit
<1>4. OneMaker /\ JobRuns /\ WaitedFor
  BY <1>2 DEF OneMaker, JobRuns, WaitedFor, Maker
<1>5. FreshFiles /\ OwnNames
  BY <1>3, PreviewsAssumption DEF FreshFiles, OwnNames
<1>6. PartWritten /\ TargetWhole
  BY <1>3 DEF PartWritten, TargetWhole
<1> QED
  BY <1>1, <1>4, <1>5, <1>6 DEF PreviewInv

(* What has the final name was written to its end, unless, when its file   *)
(* was opened, another child had it in hand and one of the two was left    *)
(* from before a restart: however many children of one service, restarts   *)
(* and deaths there are, and whoever renames what another wrote.           *)
THEOREM WholeButForOverlaps == Spec => []WholeUnlessOverlap
<1>1. Init => PreviewInv
  BY PreviewsStart DEF Init
<1>2. PreviewInv /\ [Next]_vars => PreviewInv'
  BY Apart, PreviewSteps
<1>3. PreviewInv => WholeUnlessOverlap
  BY DEF PreviewInv, TargetWhole, WholeUnlessOverlap, Made, Torn, Whole
<1> QED
  BY <1>1, <1>2, <1>3, PTL DEF Spec

-----------------------------------------------------------------------------
(* The keys of the model providers.                                        *)
Actors == Developers \cup {Operator}
KeyFiles == [key : Nat, model : Models, under : Nat]
SealingSteps == {"seal", "create", "fill", "write"}
Sealings == [pc : SealingSteps, profile : Profiles, key : Nat, model : Models,
             purpose : {"replace", "select", "move", "upgrade"}]
Requested == {t \in Sealings : t.purpose \in {"replace", "select"}}
Migrating == {t \in Sealings : t.purpose \in {"move", "upgrade"}}
Provisions == [pc : SealingSteps, purpose : {"provision"}]
Checks == [pc : {"check"}, profile : Profiles]

KeyTypes ==
    /\ managed \in [Profiles -> {Nothing} \cup KeyFiles] /\ legacy \in [Profiles -> {Nothing} \cup KeyFiles]
    /\ newest \in Nat /\ material \in {Missing, Hollow, newest}
    /\ entered \in Nat /\ serving \in BOOLEAN
    /\ administrator \in Developers \cup {Nothing}
    /\ \A p \in overwritten : p \in Profiles \X Nat
    /\ task \in [Actors -> {NoTask} \cup Requested \cup Migrating \cup Provisions \cup Checks]
    /\ \A d \in Developers : task[d] \in {NoTask} \cup Requested
    /\ task[Operator] \in {NoTask} \cup Migrating \cup Provisions \cup Checks

(* Requests take turns, and the migration has the files to itself.         *)
LockInv ==
    /\ \A d \in Developers : task[d] # NoTask => administrator = d /\ serving
    /\ \A d \in Developers : administrator = d => task[d] # NoTask
    /\ task[Operator] # NoTask => ~serving

(* What is encrypted is so with the last material, and none is made while  *)
(* something is.                                                           *)
UnderLast ==
    \A n \in Profiles : /\ managed[n] # Nothing => managed[n].under \in {0, newest}
                        /\ legacy[n] # Nothing => legacy[n].under = 0

(* No key is newer than those that were entered.                           *)
KeysKnown ==
    /\ \A n \in Profiles : /\ managed[n] # Nothing => managed[n].key <= entered
                           /\ legacy[n] # Nothing => legacy[n].key <= entered
    /\ \A p \in overwritten : p[2] <= entered
    /\ \A n \in Profiles : ReplacedKeyIsGone(n)

(* What a task is about to write: a new key, or the one that is there.     *)
NewKey(t) ==
    /\ t.key = entered
    /\ \A n \in Profiles : managed[n] # Nothing => managed[n].key < entered
    /\ \A p \in overwritten : p[2] < entered
SameKey(t) == Current(t.profile) # Nothing /\ t.key = Current(t.profile).key

Fits(t) ==
    /\ t \in Sealings => IF t.purpose = "replace" THEN NewKey(t) ELSE SameKey(t)
    /\ t.pc \in {"create", "fill"} => \A n \in Profiles : ~Encrypted(managed[n])
    /\ t.pc = "write" => material = newest /\ newest # 0

KeysInv == KeyTypes /\ LockInv /\ UnderLast /\ KeysKnown /\ \A a \in Actors : Fits(task[a])

(* The property of one step.                                               *)
KeyStep == \A n \in Profiles : ReplacedKeyIsGone(n)' /\ KeyIsKept(n)

LEMMA Alone ==
    ASSUME KeysInv, NEW a \in Actors, NEW b \in Actors, task[a] # NoTask, task[b] # NoTask
    PROVE  a = b
BY DEF KeysInv, LockInv, Actors

LEMMA KeyNumbers ==
    ASSUME KeysInv
    PROVE  /\ entered \in Nat /\ newest \in Nat /\ \A p \in overwritten : p[2] \in Nat
           /\ \A n \in Profiles : managed[n] # Nothing => managed[n] \in KeyFiles /\ managed[n].key \in Nat
           /\ \A n \in Profiles : legacy[n] # Nothing => legacy[n] \in KeyFiles /\ legacy[n].key \in Nat
BY DEF KeysInv, KeyTypes, KeyFiles

LEMMA OldKeys ==
    ASSUME KeysInv
    PROVE  /\ \A n \in Profiles : managed[n] # Nothing => managed[n].key \in Nat /\ managed[n].key <= entered
           /\ \A n \in Profiles : legacy[n] # Nothing => legacy[n].key \in Nat /\ legacy[n].key <= entered
           /\ \A p \in overwritten : p[2] \in Nat /\ p[2] <= entered
<1>1. KeysKnown
  BY DEF KeysInv
<1>2. \A n \in Profiles : managed[n] # Nothing => managed[n].key \in Nat /\ managed[n].key <= entered
  BY <1>1, KeyNumbers DEF KeysKnown
<1>3. \A n \in Profiles : legacy[n] # Nothing => legacy[n].key \in Nat /\ legacy[n].key <= entered
  BY <1>1, KeyNumbers DEF KeysKnown
<1>4. \A p \in overwritten : p[2] \in Nat /\ p[2] <= entered
  BY <1>1, KeyNumbers DEF KeysKnown
<1> QED
  BY <1>2, <1>3, <1>4

(* As long as files and material are as they were, nothing is lost.        *)
LEMMA SameFiles ==
    ASSUME KeysInv, UNCHANGED <<managed, legacy, newest, overwritten>>, entered' \in Nat, entered' >= entered
    PROVE  UnderLast' /\ KeysKnown' /\ KeyStep
<1>1. \A n \in Profiles : Current(n)' = Current(n)
  BY DEF Current
<1>2. \A n \in Profiles : Current(n) # Nothing => Current(n).under \in {0, newest}
  BY DEF KeysInv, UnderLast, Current
<1>3. \A n \in Profiles : ReplacedKeyIsGone(n)'
  BY <1>1 DEF KeysInv, KeysKnown, ReplacedKeyIsGone
<1>4. UnderLast'
  BY DEF KeysInv, UnderLast
<1>5. KeysKnown'
  <2>1. ASSUME NEW n \in Profiles
        PROVE  /\ managed'[n] # Nothing => managed'[n].key <= entered'
               /\ legacy'[n] # Nothing => legacy'[n].key <= entered'
    <3>1. \A x \in Nat : x <= entered => x <= entered'
      BY KeyNumbers
    <3>2. /\ managed[n] # Nothing => managed[n].key \in Nat /\ managed[n].key <= entered
          /\ legacy[n] # Nothing => legacy[n].key \in Nat /\ legacy[n].key <= entered
      BY OldKeys
    <3>3. managed' = managed /\ legacy' = legacy
      OBVIOUS
    <3> QED
      BY <3>1, <3>2, <3>3
  <2>2. \A p \in overwritten' : p[2] <= entered'
    <3>1. \A p \in overwritten : p[2] \in Nat /\ p[2] <= entered
      BY KeyNumbers DEF KeysInv, KeysKnown
    <3> QED
      BY <3>1, KeyNumbers
  <2> QED
    BY <1>3, <2>1, <2>2 DEF KeysKnown
<1> QED
  BY <1>1, <1>2, <1>3, <1>4, <1>5 DEF KeyStep, KeyIsKept

LEMMA TaskGoes ==
    ASSUME KeysInv, NEW a \in Actors, NEW new, Proceeds(a, new), Fits(new)',
           a \in Developers => new \in {NoTask} \cup Requested,
           a = Operator => new \in {NoTask} \cup Migrating \cup Provisions \cup Checks,
           \A b \in Actors \ {a} : task[b] = NoTask
    PROVE  /\ task' \in [Actors -> {NoTask} \cup Requested \cup Migrating \cup Provisions \cup Checks]
           /\ \A d \in Developers : task'[d] \in {NoTask} \cup Requested
           /\ task'[Operator] \in {NoTask} \cup Migrating \cup Provisions \cup Checks
           /\ \A b \in Actors : Fits(task[b])'
           /\ task'[a] = new /\ \A b \in Actors \ {a} : task'[b] = NoTask
<1>1. task' = [task EXCEPT ![a] = new] /\ task \in [Actors -> {NoTask} \cup Requested \cup Migrating \cup Provisions \cup Checks]
  BY DEF Proceeds, KeysInv, KeyTypes
<1>2. a \in Developers \/ a = Operator
  BY DEF Actors
<1>3. task'[a] = new /\ \A b \in Actors \ {a} : task'[b] = NoTask
  BY <1>1
<1>4. task' \in [Actors -> {NoTask} \cup Requested \cup Migrating \cup Provisions \cup Checks]
  BY <1>1, <1>2
<1>5. ASSUME NEW b \in Actors PROVE Fits(task[b])'
  <2>1. CASE b = a
    BY <1>3, <2>1 DEF Fits, NewKey, SameKey
  <2>2. CASE b # a
    BY <1>3, <2>2 DEF NoTask, Fits, Sealings, SealingSteps
  <2> QED
    BY <2>1, <2>2
<1>6. \A d \in Developers : d \in Actors /\ d # Operator
  BY ApiKeysAssumption DEF Actors
<1> QED
  BY <1>2, <1>3, <1>4, <1>5, <1>6 DEF Actors

(* A request of the API begins.                                            *)
LEMMA Asking ==
    ASSUME KeysInv, NEW d \in Developers, Asks(d),
           NEW new \in Requested, new.pc = "seal", Proceeds(d, new),
           entered' \in Nat, entered' >= entered,
           IF new.purpose = "replace" THEN new.key = entered' /\ entered' > entered ELSE SameKey(new),
           UNCHANGED <<managed, legacy, material, newest, serving, overwritten>>
    PROVE  KeysInv' /\ KeyStep
<1>1. serving /\ administrator = Nothing /\ administrator' = d /\ task[d] = NoTask
  BY DEF Asks, Turn
<1>2. \A b \in Actors : task[b] = NoTask
  BY <1>1, ApiKeysAssumption DEF KeysInv, LockInv, Actors
<1>3. UnderLast' /\ KeysKnown' /\ KeyStep
  BY SameFiles
<1>4. Fits(new)'
  <2>1. NewKey(new)' \/ ~(new.purpose = "replace")
    <3> SUFFICES ASSUME new.purpose = "replace" PROVE NewKey(new)'
      OBVIOUS
    <3>1. \A x \in Nat : x <= entered => x < entered'
      BY KeyNumbers
    <3>2. ASSUME NEW n \in Profiles, managed'[n] # Nothing PROVE managed'[n].key < entered'
      <4>1. managed[n] # Nothing => managed[n].key \in Nat /\ managed[n].key <= entered
        BY OldKeys
      <4>2. managed' = managed
        OBVIOUS
      <4> QED
        BY <3>1, <3>2, <4>1, <4>2
    <3>3. ASSUME NEW p \in overwritten' PROVE p[2] < entered'
      <4>1. p[2] \in Nat /\ p[2] <= entered
        BY <3>3, KeyNumbers DEF KeysInv, KeysKnown
      <4> QED
        BY <3>1, <4>1
    <3> QED
      BY <3>2, <3>3 DEF NewKey
  <2>2. SameKey(new)' \/ new.purpose = "replace"
    BY DEF SameKey, Current
  <2> QED
    BY <2>1, <2>2 DEF Fits
<1>5. d \in Actors /\ d # Operator
  BY ApiKeysAssumption DEF Actors
<1>6. /\ task' \in [Actors -> {NoTask} \cup Requested \cup Migrating \cup Provisions \cup Checks]
      /\ \A e \in Developers : task'[e] \in {NoTask} \cup Requested
      /\ task'[Operator] \in {NoTask} \cup Migrating \cup Provisions \cup Checks
      /\ \A b \in Actors : Fits(task[b])'
      /\ task'[d] = new /\ \A b \in Actors \ {d} : task'[b] = NoTask
  BY <1>2, <1>4, <1>5, TaskGoes
<1>7. KeyTypes'
  BY <1>1, <1>6 DEF KeysInv, KeyTypes
<1>8. LockInv'
  <2>1. new # NoTask
    BY DEF NoTask
  <2>2. \A e \in Developers : e \in Actors /\ (e = d \/ task'[e] = NoTask)
    BY <1>6 DEF Actors
  <2>3. task'[Operator] = NoTask
    BY <1>5, <1>6 DEF Actors
  <2> QED
    BY <1>1, <1>6, <2>1, <2>2, <2>3 DEF LockInv
<1> QED
  BY <1>3, <1>6, <1>7, <1>8 DEF KeysInv

(* The migration begins with a profile, or with the material.              *)
LEMMA MigrationBegins ==
    ASSUME KeysInv, Migrates, NEW new \in Migrating \cup Provisions \cup Checks, Proceeds(Operator, new),
           new.pc \in {"seal", "check"}, new \in Migrating => SameKey(new),
           UNCHANGED <<managed, legacy, material, newest, serving, overwritten>>
    PROVE  KeysInv' /\ KeyStep
<1>1. ~serving /\ UNCHANGED <<administrator, entered>> /\ entered \in Nat
  BY KeyNumbers DEF Migrates
<1>2. \A b \in Actors \ {Operator} : task[b] = NoTask
  BY <1>1 DEF KeysInv, LockInv, Actors
<1>3. UnderLast' /\ KeysKnown' /\ KeyStep
  BY <1>1, SameFiles
<1>4. Fits(new)'
  <2>1. new \in Sealings => new \in Migrating
    BY DEF Migrating, Sealings, Provisions, Checks, SealingSteps
  <2>2. new \in Migrating => SameKey(new)' /\ new.purpose # "replace"
    BY DEF SameKey, Current, Migrating
  <2> QED
    BY <2>1, <2>2 DEF Fits
<1>5. Operator \in Actors /\ Operator \notin Developers
  BY ApiKeysAssumption DEF Actors
<1>6. /\ task' \in [Actors -> {NoTask} \cup Requested \cup Migrating \cup Provisions \cup Checks]
      /\ \A d \in Developers : task'[d] \in {NoTask} \cup Requested
      /\ task'[Operator] \in {NoTask} \cup Migrating \cup Provisions \cup Checks
      /\ \A b \in Actors : Fits(task[b])'
      /\ \A b \in Actors \ {Operator} : task'[b] = NoTask
  BY <1>2, <1>4, <1>5, TaskGoes
<1>7. KeyTypes'
  BY <1>1, <1>6 DEF KeysInv, KeyTypes
<1>8. LockInv'
  <2>1. \A d \in Developers : task'[d] = NoTask /\ task[d] = NoTask
    BY <1>2, <1>5, <1>6 DEF Actors
  <2> QED
    BY <1>1, <2>1 DEF KeysInv, LockInv
<1> QED
  BY <1>3, <1>6, <1>7, <1>8 DEF KeysInv

LEMMA WhoSeals ==
    ASSUME KeysInv, NEW a \in Actors, task[a] # NoTask
    PROVE  /\ task[a] \in Sealings \cup Provisions \cup Checks
           /\ a \in Developers => task[a] \in Requested /\ administrator = a /\ serving
           /\ a = Operator => task[a] \in Migrating \cup Provisions \cup Checks /\ ~serving
           /\ \A b \in Actors \ {a} : task[b] = NoTask
<1>1. a \in Developers => task[a] \in Requested /\ administrator = a /\ serving
  BY DEF KeysInv, KeyTypes, LockInv
<1>2. a = Operator => task[a] \in Migrating \cup Provisions \cup Checks /\ ~serving
  BY DEF KeysInv, KeyTypes, LockInv
<1>3. a \in Developers \/ a = Operator
  BY DEF Actors
<1>4. Requested \cup Migrating \subseteq Sealings
  BY DEF Requested, Migrating
<1> QED
  BY <1>1, <1>2, <1>3, <1>4, Alone

(* Whoever holds the lock goes on with the same file, or comes to an end.  *)
LEMMA GoingOn ==
    ASSUME KeysInv, NEW a \in Actors, task[a] # NoTask, NEW new, Proceeds(a, new), Fits(new)',
           \/ new = NoTask /\ Unlocks(a)
           \/ /\ new # NoTask /\ UNCHANGED administrator
              /\ a \in Developers => new \in Requested
              /\ a = Operator => new \in Migrating \cup Provisions \cup Checks
           \/ a = Operator /\ new \in {NoTask} \cup Checks /\ UNCHANGED administrator,
           serving' = serving,
           managed' \in [Profiles -> {Nothing} \cup KeyFiles], legacy' \in [Profiles -> {Nothing} \cup KeyFiles],
           newest' \in Nat, material' \in {Missing, Hollow, newest'},
           entered' \in Nat, \A p \in overwritten' : p \in Profiles \X Nat
    PROVE  KeyTypes' /\ LockInv' /\ \A b \in Actors : Fits(task[b])'
<1>1. /\ a \in Developers => administrator = a /\ serving
      /\ a = Operator => ~serving
      /\ \A b \in Actors \ {a} : task[b] = NoTask
  BY WhoSeals
<1>2. /\ a \in Developers \/ a = Operator
      /\ Operator \in Actors /\ \A d \in Developers : d \in Actors /\ d # Operator
      /\ Nothing \notin Developers
  BY ApiKeysAssumption DEF Actors
<1>3. /\ a \in Developers => new \in {NoTask} \cup Requested
      /\ a = Operator => new \in {NoTask} \cup Migrating \cup Provisions \cup Checks
  BY <1>2
<1>4. /\ task' \in [Actors -> {NoTask} \cup Requested \cup Migrating \cup Provisions \cup Checks]
      /\ \A d \in Developers : task'[d] \in {NoTask} \cup Requested
      /\ task'[Operator] \in {NoTask} \cup Migrating \cup Provisions \cup Checks
      /\ \A b \in Actors : Fits(task[b])'
      /\ task'[a] = new /\ \A b \in Actors \ {a} : task'[b] = NoTask
  BY <1>1, <1>3, TaskGoes
<1>5. administrator \in Developers \cup {Nothing}
  BY DEF KeysInv, KeyTypes
<1>6. administrator' \in Developers \cup {Nothing}
  BY <1>5 DEF Unlocks
<1>7. serving' \in BOOLEAN
  BY DEF KeysInv, KeyTypes
<1>8. KeyTypes'
  BY <1>4, <1>6, <1>7 DEF KeyTypes
<1>9. LockInv'
  <2>1. CASE a \in Developers
    <3>1. task'[Operator] = NoTask
      BY <1>2, <1>4, <2>1
    <3>2. \A d \in Developers : d # a => task'[d] = NoTask
      BY <1>2, <1>4
    <3>3. new # NoTask => administrator' = a
      BY <1>1, <1>2, <2>1
    <3>4. new = NoTask => administrator' = Nothing
      BY <1>1, <1>2, <2>1 DEF Unlocks
    <3> QED
      BY <1>1, <1>2, <1>4, <2>1, <3>1, <3>2, <3>3, <3>4 DEF LockInv
  <2>2. CASE a = Operator
    <3>1. \A d \in Developers : task'[d] = NoTask /\ task[d] = NoTask
      BY <1>1, <1>2, <1>4, <2>2
    <3>2. \A d \in Developers : administrator # d
      BY <3>1 DEF KeysInv, LockInv
    <3>3. \A d \in Developers : administrator' # d
      BY <1>2, <1>5, <2>2, <3>2 DEF Unlocks
    <3> QED
      BY <1>1, <2>2, <3>1, <3>3 DEF LockInv
  <2> QED
    BY <1>2, <2>1, <2>2
<1> QED
  BY <1>4, <1>8, <1>9

(* A seal moves on: only where it stands changes.                          *)
LEMMA MovingOn ==
    ASSUME KeysInv, NEW a \in Actors, task[a].pc \in SealingSteps, NEW p \in SealingSteps,
           Proceeds(a, [task[a] EXCEPT !.pc = p]),
           p \in {"create", "fill"} => \A n \in Profiles : ~Encrypted(managed[n]),
           p = "write" => material' = newest' /\ newest' # 0,
           newest' \in Nat, material' \in {Missing, Hollow, newest'},
           UNCHANGED <<managed, legacy, administrator, serving, entered, overwritten>>
    PROVE  KeyTypes' /\ LockInv' /\ \A b \in Actors : Fits(task[b])'
<1> PICK old : old = task[a]
  OBVIOUS
<1> PICK new : new = [old EXCEPT !.pc = p]
  OBVIOUS
<1>1. task[a] # NoTask
  BY DEF NoTask, SealingSteps
<1>2. /\ old \in Sealings \cup Provisions \cup Checks
      /\ a \in Developers => old \in Requested
      /\ a = Operator => old \in Migrating \cup Provisions \cup Checks
  BY <1>1, WhoSeals
<1>3. old \notin Checks
  BY DEF Checks, SealingSteps
<1>4. old \in Provisions => new \in Provisions /\ new \notin Sealings /\ new.pc = p
  BY DEF Provisions, Sealings
<1>5. old \in Sealings => /\ new \in Sealings /\ new.pc = p /\ new.purpose = old.purpose
                          /\ new.key = old.key /\ new.profile = old.profile
  BY DEF Sealings
<1>6. /\ old \in Requested => new \in Requested
      /\ old \in Migrating => new \in Migrating
  BY <1>5 DEF Requested, Migrating
<1>7. Fits(old)
  BY DEF KeysInv
<1>8. Fits(new)'
  <2>1. CASE old \in Provisions
    BY <1>4, <2>1 DEF Fits, Encrypted
  <2>2. CASE old \in Sealings
    <3>1. IF old.purpose = "replace" THEN NewKey(old) ELSE SameKey(old)
      BY <1>7, <2>2 DEF Fits
    <3>2. NewKey(old) => NewKey(new)'
      BY <1>5, <2>2 DEF NewKey
    <3>3. SameKey(old) => SameKey(new)'
      BY <1>5, <2>2 DEF SameKey, Current
    <3> QED
      BY <1>5, <2>2, <3>1, <3>2, <3>3 DEF Fits, Encrypted
  <2> QED
    BY <1>2, <1>3, <2>1, <2>2
<1>9. new # NoTask
  BY <1>2, <1>3, <1>4, <1>5 DEF NoTask, Sealings, Provisions, SealingSteps
<1>10. /\ a \in Developers => new \in Requested
       /\ a = Operator => new \in Migrating \cup Provisions \cup Checks
  BY <1>2, <1>3, <1>4, <1>6
<1>11. /\ managed' \in [Profiles -> {Nothing} \cup KeyFiles] /\ legacy' \in [Profiles -> {Nothing} \cup KeyFiles]
       /\ entered' \in Nat /\ \A q \in overwritten' : q \in Profiles \X Nat
  BY DEF KeysInv, KeyTypes
<1> HIDE DEF SealingSteps
<1> QED
  BY <1>1, <1>8, <1>9, <1>10, <1>11, GoingOn

LEMMA MaterialSteps ==
    ASSUME KeysInv, NEW a \in Actors, Seal(a) \/ Create(a) \/ Fill(a)
    PROVE  KeysInv' /\ KeyStep
<1>1. UNCHANGED <<managed, legacy, administrator, serving, entered, overwritten>>
  BY DEF Seal, Create, Fill
<1>2. newest \in Nat /\ entered \in Nat /\ material \in {Missing, Hollow, newest} /\ Fits(task[a])
  BY DEF KeysInv, KeyTypes
<1>3. CASE Seal(a)
  <2>1. task[a].pc = "seal" /\ UNCHANGED <<material, newest>>
    BY <1>3 DEF Seal
  <2>2. KeyTypes' /\ LockInv' /\ \A b \in Actors : Fits(task[b])'
    <3>1. CASE material = Missing
      <4>1. ~Missed /\ Proceeds(a, [task[a] EXCEPT !.pc = "create"])
        BY <1>3, <3>1 DEF Seal
      <4>2. \A n \in Profiles : ~Encrypted(managed[n])
        BY <4>1 DEF Missed
      <4> QED
        BY <1>1, <1>2, <2>1, <4>1, <4>2, MovingOn DEF SealingSteps
    <3>2. CASE material # Missing
      <4>1. material # Hollow /\ Proceeds(a, [task[a] EXCEPT !.pc = "write"])
        BY <1>3, <3>2 DEF Seal
      <4>2. material' = newest' /\ newest' # 0
        BY <1>2, <2>1, <3>2, <4>1 DEF Missing
      <4> QED
        BY <1>1, <1>2, <2>1, <4>1, <4>2, MovingOn DEF SealingSteps
    <3> QED
      BY <3>1, <3>2
  <2>3. UnderLast' /\ KeysKnown' /\ KeyStep
    BY <1>1, <1>2, <2>1, SameFiles
  <2> QED
    BY <2>2, <2>3 DEF KeysInv
<1>4. CASE Create(a)
  <2>1. task[a].pc = "create" /\ newest' = newest
    BY <1>4 DEF Create
  <2>2. material' \in {Missing, Hollow, newest'}
    BY <1>2, <1>4, <2>1 DEF Create
  <2>3. \A n \in Profiles : ~Encrypted(managed[n])
    BY <1>2, <2>1 DEF Fits
  <2>4. PICK p \in {"fill", "seal"} : Proceeds(a, [task[a] EXCEPT !.pc = p])
    BY <1>4 DEF Create
  <2>5. KeyTypes' /\ LockInv' /\ \A b \in Actors : Fits(task[b])'
    BY <1>1, <1>2, <2>1, <2>2, <2>3, <2>4, MovingOn DEF SealingSteps
  <2>6. UnderLast' /\ KeysKnown' /\ KeyStep
    BY <1>1, <1>2, <2>1, SameFiles
  <2> QED
    BY <2>5, <2>6 DEF KeysInv
<1>5. CASE Fill(a)
  <2>1. task[a].pc = "fill" /\ newest' = newest + 1 /\ material' = newest'
    BY <1>5 DEF Fill
  <2>2. \A n \in Profiles : ~Encrypted(managed[n])
    BY <1>2, <2>1 DEF Fits
  <2>3. Proceeds(a, [task[a] EXCEPT !.pc = "seal"])
    BY <1>5 DEF Fill
  <2>4. newest' \in Nat
    BY <1>2, <2>1
  <2>5. KeyTypes' /\ LockInv' /\ \A b \in Actors : Fits(task[b])'
    BY <1>1, <2>1, <2>3, <2>4, MovingOn DEF SealingSteps
  <2>6. \A n \in Profiles : Current(n)' = Current(n) /\ (Current(n) # Nothing => Current(n).under = 0)
    <3>1. \A n \in Profiles : /\ managed[n] # Nothing => managed[n].under = 0
                              /\ legacy[n] # Nothing => legacy[n].under = 0
      BY <2>2 DEF KeysInv, UnderLast, Encrypted
    <3> QED
      BY <1>1, <3>1 DEF Current
  <2>7. UnderLast'
    <3>1. \A n \in Profiles : /\ managed[n] # Nothing => managed[n].under = 0
                              /\ legacy[n] # Nothing => legacy[n].under = 0
      BY <2>2 DEF KeysInv, UnderLast, Encrypted
    <3> QED
      BY <1>1, <3>1 DEF UnderLast
  <2>8. \A n \in Profiles : ReplacedKeyIsGone(n)'
    BY <1>1, <2>6 DEF KeysInv, KeysKnown, ReplacedKeyIsGone
  <2>9. KeysKnown'
    BY <1>1, <2>8 DEF KeysInv, KeysKnown
  <2> QED
    BY <2>5, <2>6, <2>7, <2>8, <2>9 DEF KeysInv, KeyStep, KeyIsKept
<1> QED
  BY <1>3, <1>4, <1>5

(* A file is written: with a new key, or with the one that was there.      *)
LEMMA SavingFiles == ASSUME KeysInv, NEW a \in Actors, SaveFile(a) PROVE KeysInv' /\ KeyStep
<1> PICK old : old = task[a]
  OBVIOUS
<1> PICK n : n = old.profile
  OBVIOUS
<1> PICK file : file = File(old.key, old.model, material)
  OBVIOUS
<1>1. /\ old.pc = "write" /\ old.purpose # "provision"
      /\ managed' = [managed EXCEPT ![n] = file]
      /\ overwritten' = IF old.purpose = "replace" /\ managed[n] # Nothing
                        THEN overwritten \cup {<<n, managed[n].key>>} ELSE overwritten
      /\ Proceeds(a, IF old.purpose = "move" THEN [pc |-> "check", profile |-> n] ELSE NoTask)
      /\ Unlocks(a)
      /\ UNCHANGED <<legacy, material, newest, serving, entered>>
  BY DEF SaveFile
<1>2. task[a] # NoTask
  BY <1>1 DEF NoTask
<1>3. /\ old \in Sealings
      /\ a \in Developers => old \in Requested
      /\ a = Operator => old \in Migrating
  BY <1>1, <1>2, WhoSeals DEF Checks, Provisions
<1>4. n \in Profiles /\ old.key \in Nat /\ old.model \in Models
  BY <1>3 DEF Sealings
<1>5. /\ IF old.purpose = "replace" THEN NewKey(old) ELSE SameKey(old)
      /\ material = newest /\ newest # 0 /\ newest \in Nat /\ entered \in Nat
  BY <1>1, <1>3 DEF KeysInv, KeyTypes, Fits
<1>6. file \in KeyFiles /\ file.key = old.key /\ file.under = newest
  BY <1>4, <1>5 DEF File, KeyFiles
<1>7. file # Nothing
  BY <1>6, ApiKeysAssumption DEF KeyFiles
<1>8. /\ managed \in [Profiles -> {Nothing} \cup KeyFiles] /\ legacy \in [Profiles -> {Nothing} \cup KeyFiles]
      /\ \A p \in overwritten : p \in Profiles \X Nat
  BY DEF KeysInv, KeyTypes
<1>9. managed'[n] = file /\ \A m \in Profiles : m # n => managed'[m] = managed[m]
  BY <1>1, <1>4, <1>8
<1>10. Current(n)' = file /\ \A m \in Profiles : m # n => Current(m)' = Current(m)
  BY <1>1, <1>7, <1>9 DEF Current
<1>11. managed' \in [Profiles -> {Nothing} \cup KeyFiles]
  BY <1>1, <1>4, <1>6, <1>8
<1>12. \A p \in overwritten' : p \in Profiles \X Nat /\ p[2] <= entered
  <2>1. \A p \in overwritten : p \in Profiles \X Nat /\ p[2] <= entered
    BY <1>8, OldKeys
  <2>2. managed[n] # Nothing => <<n, managed[n].key>> \in Profiles \X Nat /\ managed[n].key <= entered
    BY <1>4, OldKeys
  <2> QED
    BY <1>1, <2>1, <2>2
<1>13. Fits(IF old.purpose = "move" THEN [pc |-> "check", profile |-> n] ELSE NoTask)'
  BY DEF Fits, NoTask, Sealings, SealingSteps
<1>14. KeyTypes' /\ LockInv' /\ \A b \in Actors : Fits(task[b])'
  <2>1. legacy' \in [Profiles -> {Nothing} \cup KeyFiles] /\ newest' \in Nat /\ entered' \in Nat
        /\ material' \in {Missing, Hollow, newest'} /\ serving' = serving
    BY <1>1, <1>5, <1>8
  <2>2. CASE old.purpose = "move"
    <3>1. a = Operator
      BY <1>3, <2>2 DEF Requested, Actors
    <3>2. administrator' = administrator
      <4>1. administrator \in Developers \cup {Nothing} /\ Operator \notin Developers
        BY ApiKeysAssumption DEF KeysInv, KeyTypes
      <4> QED
        BY <1>1, <3>1, <4>1 DEF Unlocks
    <3>3. [pc |-> "check", profile |-> n] \in Checks
      BY <1>4 DEF Checks
    <3> QED
      BY <1>1, <1>2, <1>11, <1>12, <1>13, <2>1, <2>2, <3>1, <3>2, <3>3, GoingOn
  <2>3. CASE old.purpose # "move"
    BY <1>1, <1>2, <1>11, <1>12, <1>13, <2>1, <2>3, GoingOn
  <2> QED
    BY <2>2, <2>3
<1>15. UnderLast'
  <2>1. \A m \in Profiles : /\ managed[m] # Nothing => managed[m].under \in {0, newest}
                            /\ legacy[m] # Nothing => legacy[m].under = 0
    BY DEF KeysInv, UnderLast
  <2> QED
    BY <1>1, <1>6, <1>9, <2>1 DEF UnderLast
<1>16. file.key <= entered
  <2>1. old.purpose = "replace" => file.key = entered
    BY <1>5, <1>6 DEF NewKey
  <2>2. old.purpose # "replace" => Current(n) # Nothing /\ file.key = Current(n).key
    BY <1>5, <1>6 DEF SameKey
  <2>3. Current(n) # Nothing => Current(n).key <= entered
    BY <1>4, OldKeys DEF Current
  <2> QED
    BY <1>5, <2>1, <2>2, <2>3
<1>17. \A m \in Profiles : ReplacedKeyIsGone(m)'
  <2>1. ASSUME NEW m \in Profiles, m # n PROVE ReplacedKeyIsGone(m)'
    <3>1. Current(m) # Nothing => <<m, Current(m).key>> \notin overwritten
      BY DEF KeysInv, KeysKnown, ReplacedKeyIsGone
    <3>2. Current(m)' # Nothing => <<m, Current(m)'.key>> \notin overwritten'
      BY <1>1, <1>10, <2>1, <3>1
    <3> QED
      BY <3>2 DEF ReplacedKeyIsGone
  <2>2. <<n, file.key>> \notin overwritten'
    <3>1. CASE old.purpose = "replace"
      <4>1. file.key = entered
        BY <1>5, <1>6, <3>1 DEF NewKey
      <4>2. managed[n] # Nothing => managed[n].key # entered
        <5>1. managed[n] # Nothing => managed[n].key \in Nat /\ managed[n].key < entered
          BY <1>4, <1>5, <3>1, KeyNumbers DEF NewKey
        <5> QED
          BY <1>5, <5>1
      <4>3. \A p \in overwritten : p[2] # entered
        <5>1. \A p \in overwritten : p[2] \in Nat /\ p[2] < entered
          BY <1>5, <3>1, KeyNumbers DEF NewKey
        <5> QED
          BY <1>5, <5>1
      <4> QED
        BY <1>1, <4>1, <4>2, <4>3
    <3>2. CASE old.purpose # "replace"
      <4>1. Current(n) # Nothing /\ file.key = Current(n).key
        BY <1>5, <1>6, <3>2 DEF SameKey
      <4>2. <<n, Current(n).key>> \notin overwritten
        BY <1>4, <4>1 DEF KeysInv, KeysKnown, ReplacedKeyIsGone
      <4> QED
        BY <1>1, <3>2, <4>1, <4>2
    <3> QED
      BY <3>1, <3>2
  <2>3. ReplacedKeyIsGone(n)'
    <3>1. <<n, Current(n)'.key>> \notin overwritten'
      BY <1>10, <2>2
    <3> QED
      BY <3>1 DEF ReplacedKeyIsGone
  <2> QED
    BY <2>1, <2>3
<1>18. KeysKnown'
  <2>1. \A m \in Profiles : /\ managed[m] # Nothing => managed[m].key <= entered
                            /\ legacy[m] # Nothing => legacy[m].key <= entered
    BY OldKeys
  <2>2. \A m \in Profiles : managed'[m] # Nothing => managed'[m].key <= entered'
    BY <1>1, <1>9, <1>16, <2>1
  <2>3. \A m \in Profiles : legacy'[m] # Nothing => legacy'[m].key <= entered'
    BY <1>1, <2>1
  <2>4. \A p \in overwritten' : p[2] <= entered'
    BY <1>1, <1>12
  <2> QED
    BY <1>17, <2>2, <2>3, <2>4 DEF KeysKnown
<1>19. \A m \in Profiles : KeyIsKept(m)
  <2>1. \A m \in Profiles : Current(m) # Nothing => Current(m).under \in {0, newest}
    BY DEF KeysInv, UnderLast, Current
  <2>2. ASSUME NEW m \in Profiles, Current(m) # Nothing
        PROVE  Current(m)' # Nothing /\ Current(m)'.under \in {0, newest'}
    BY <1>1, <1>6, <1>7, <1>10, <2>1, <2>2
  <2> QED
    BY <2>2 DEF KeyIsKept
<1> QED
  BY <1>14, <1>15, <1>17, <1>18, <1>19 DEF KeysInv, KeyStep

(* The other steps change no managed file.                                 *)
LEMMA EndingSteps ==
    ASSUME KeysInv, NEW a \in Actors, Unlink(a) \/ Fail(a) \/ (a = Operator /\ Provisioned)
    PROVE  KeysInv' /\ KeyStep
<1>1. task[a] # NoTask /\ Proceeds(a, NoTask) /\ UNCHANGED <<managed, newest, serving, entered, overwritten>>
  BY DEF Unlink, Fail, Provisioned, NoTask
<1>2. Fits(NoTask)'
  BY DEF Fits, NoTask, Sealings, SealingSteps
<1>3. /\ managed \in [Profiles -> {Nothing} \cup KeyFiles] /\ legacy \in [Profiles -> {Nothing} \cup KeyFiles]
      /\ newest \in Nat /\ entered \in Nat /\ material \in {Missing, Hollow, newest}
      /\ \A p \in overwritten : p \in Profiles \X Nat
  BY DEF KeysInv, KeyTypes
<1>4. CASE Fail(a)
  <2>1. Unlocks(a) /\ legacy' = legacy /\ material' \in {Missing, Hollow, newest'}
    BY <1>1, <1>3, <1>4 DEF Fail
  <2>2. KeyTypes' /\ LockInv' /\ \A b \in Actors : Fits(task[b])'
    BY <1>1, <1>2, <1>3, <2>1, GoingOn
  <2> QED
    BY <1>1, <1>3, <2>1, <2>2, SameFiles DEF KeysInv
<1>5. CASE a = Operator /\ Provisioned
  <2>1. UNCHANGED <<administrator, legacy, material>>
    BY <1>5 DEF Provisioned
  <2>2. KeyTypes' /\ LockInv' /\ \A b \in Actors : Fits(task[b])'
    BY <1>1, <1>2, <1>3, <1>5, <2>1, GoingOn
  <2> QED
    BY <1>1, <1>3, <2>1, <2>2, SameFiles DEF KeysInv
<1>6. CASE Unlink(a)
  <2> PICK n : n = task[a].profile
    OBVIOUS
  <2>1. /\ task[a].pc = "check" /\ Readable(managed[n]) /\ legacy' = [legacy EXCEPT ![n] = Nothing]
        /\ UNCHANGED <<administrator, material>>
    BY <1>6 DEF Unlink
  <2>2. a = Operator /\ task[a] \in Checks
    <3>1. task[a] \notin Sealings \cup Provisions
      BY <2>1 DEF Sealings, Provisions, SealingSteps
    <3> QED
      BY <1>1, <3>1, WhoSeals DEF Requested, Actors
  <2>3. n \in Profiles /\ managed[n] # Nothing
    BY <2>1, <2>2 DEF Checks, Readable
  <2>4. legacy'[n] = Nothing /\ \A m \in Profiles : m # n => legacy'[m] = legacy[m]
    BY <1>3, <2>1, <2>3
  <2>5. legacy' \in [Profiles -> {Nothing} \cup KeyFiles]
    BY <1>3, <2>1, <2>3
  <2>6. KeyTypes' /\ LockInv' /\ \A b \in Actors : Fits(task[b])'
    BY <1>1, <1>2, <1>3, <2>1, <2>2, <2>5, GoingOn
  <2>7. \A m \in Profiles : Current(m)' = Current(m)
    BY <1>1, <2>3, <2>4 DEF Current
  <2>8. UnderLast'
    BY <1>1, <2>4 DEF KeysInv, UnderLast
  <2>9. \A m \in Profiles : ReplacedKeyIsGone(m)'
    BY <1>1, <2>7 DEF KeysInv, KeysKnown, ReplacedKeyIsGone
  <2>10. KeysKnown'
    BY <1>1, <2>4, <2>9 DEF KeysInv, KeysKnown
  <2>11. \A m \in Profiles : Current(m) # Nothing => Current(m).under \in {0, newest}
    BY DEF KeysInv, UnderLast, Current
  <2>12. \A m \in Profiles : KeyIsKept(m)
    BY <1>1, <2>7, <2>11 DEF KeyIsKept
  <2> QED
    BY <2>6, <2>8, <2>9, <2>10, <2>12 DEF KeysInv, KeyStep
<1> QED
  BY <1>4, <1>5, <1>6

LEMMA OperationSteps == ASSUME KeysInv, Stop \/ Serve \/ Relocate \/ UNCHANGED keyVars PROVE KeysInv' /\ KeyStep
<1>1. UNCHANGED <<managed, legacy, newest, administrator, task, entered, overwritten>>
  BY DEF Stop, Serve, Relocate, keyVars
<1>2. UnderLast' /\ KeysKnown' /\ KeyStep
  BY <1>1, KeyNumbers, SameFiles
<1>3. /\ material \in {Missing, Hollow, newest} /\ material' \in {Missing, Hollow, newest}
      /\ serving \in BOOLEAN /\ serving' \in BOOLEAN
  BY DEF KeysInv, KeyTypes, Stop, Serve, Relocate, keyVars
<1>4. KeyTypes'
  BY <1>1, <1>3 DEF KeysInv, KeyTypes
<1>5. \/ UNCHANGED <<serving, material>>
      \/ UNCHANGED material /\ \A b \in Actors : task[b] = NoTask
      \/ UNCHANGED serving /\ \A b \in Actors : task[b] = NoTask
  <2>1. CASE Stop
    BY <2>1 DEF Stop, KeysInv, LockInv, Actors
  <2>2. CASE Serve
    BY <2>2 DEF Serve, KeysInv, LockInv, Actors
  <2>3. CASE Relocate
    BY <2>3 DEF Relocate, KeysInv, LockInv, Actors
  <2> QED
    BY <2>1, <2>2, <2>3 DEF keyVars
<1>6. LockInv'
  BY <1>1, <1>5, ApiKeysAssumption DEF KeysInv, LockInv, Actors
<1>7. ASSUME NEW b \in Actors PROVE Fits(task[b])'
  <2>1. task'[b] = task[b] /\ Fits(task[b])
    BY <1>1 DEF KeysInv
  <2>2. CASE task[b] = NoTask
    BY <2>1, <2>2 DEF NoTask, Fits, Sealings, SealingSteps
  <2>3. CASE UNCHANGED <<serving, material>>
    BY <1>1, <2>1, <2>3 DEF Fits, NewKey, SameKey, Current, Encrypted
  <2> QED
    BY <1>5, <2>2, <2>3
<1> QED
  BY <1>2, <1>4, <1>6, <1>7 DEF KeysInv

LEMMA BeginningSteps ==
    ASSUME KeysInv,
           \/ \E d \in Developers, n \in Profiles : Replace(d, n) \/ \E m \in Models : Select(d, n, m)
           \/ \E n \in Profiles : Move(n) \/ Upgrade(n)
           \/ Provision
    PROVE  KeysInv' /\ KeyStep
<1>1. Preferred \in Models
  BY ApiKeysAssumption DEF Preferred
<1>2. ASSUME NEW d \in Developers, NEW n \in Profiles, Replace(d, n) PROVE KeysInv' /\ KeyStep
  <2> PICK model : model = IF managed[n] = Nothing THEN Preferred ELSE managed[n].model
    OBVIOUS
  <2>1. /\ Asks(d) /\ entered' = entered + 1 /\ Sealing(d, n, entered', model, "replace")
    BY <1>2 DEF Replace
  <2>2. entered \in Nat /\ entered' \in Nat /\ entered' > entered
    BY <2>1, KeyNumbers
  <2>3. model \in Models
    BY <1>1, KeyNumbers DEF KeyFiles
  <2> PICK new : new = [pc |-> "seal", profile |-> n, key |-> entered', model |-> model, purpose |-> "replace"]
    OBVIOUS
  <2>4. new \in Requested /\ new.pc = "seal" /\ new.purpose = "replace" /\ new.key = entered'
    BY <2>2, <2>3 DEF Requested, Sealings, SealingSteps
  <2>5. Proceeds(d, new) /\ UNCHANGED <<managed, legacy, material, newest, serving, overwritten>>
    BY <2>1 DEF Sealing
  <2> QED
    BY <2>1, <2>2, <2>4, <2>5, Asking
<1>3. ASSUME NEW d \in Developers, NEW n \in Profiles, NEW m \in Models, Select(d, n, m) PROVE KeysInv' /\ KeyStep
  <2>1. /\ Asks(d) /\ Current(n) # Nothing /\ entered' = entered /\ Sealing(d, n, Current(n).key, m, "select")
    BY <1>3 DEF Select, Readable
  <2>2. Current(n).key \in Nat /\ entered \in Nat
    BY <2>1, KeyNumbers DEF Current
  <2> PICK new : new = [pc |-> "seal", profile |-> n, key |-> Current(n).key, model |-> m, purpose |-> "select"]
    OBVIOUS
  <2>3. new \in Requested /\ new.pc = "seal" /\ new.purpose # "replace" /\ SameKey(new)
    BY <2>1, <2>2 DEF Requested, Sealings, SealingSteps, SameKey
  <2>4. Proceeds(d, new) /\ UNCHANGED <<managed, legacy, material, newest, serving, overwritten>>
    BY <2>1 DEF Sealing
  <2> QED
    BY <2>1, <2>2, <2>3, <2>4, Asking
<1>4. ASSUME NEW n \in Profiles, Move(n) PROVE KeysInv' /\ KeyStep
  <2>1. Migrates /\ legacy[n] # Nothing
    BY <1>4 DEF Move
  <2>2. CASE managed[n] = Nothing
    <3>1. legacy[n].key \in Nat /\ legacy[n].model \in Models
      BY <2>1, KeyNumbers DEF KeyFiles
    <3> PICK new : new = [pc |-> "seal", profile |-> n, key |-> legacy[n].key, model |-> legacy[n].model, purpose |-> "move"]
      OBVIOUS
    <3>2. new \in Migrating /\ new.pc = "seal" /\ SameKey(new)
      BY <2>1, <2>2, <3>1 DEF Migrating, Sealings, SealingSteps, SameKey, Current
    <3>3. Proceeds(Operator, new) /\ UNCHANGED <<managed, legacy, material, newest, serving, overwritten>>
      BY <1>4, <2>2 DEF Move, Sealing
    <3> QED
      BY <2>1, <3>2, <3>3, MigrationBegins
  <2>3. CASE managed[n] # Nothing
    <3> PICK new : new = [pc |-> "check", profile |-> n]
      OBVIOUS
    <3>1. new \in Checks /\ new.pc = "check" /\ new \notin Migrating
      BY DEF Checks, Migrating, Sealings
    <3>2. Proceeds(Operator, new) /\ UNCHANGED <<managed, legacy, material, newest, serving, overwritten>>
      BY <1>4, <2>3 DEF Move
    <3> QED
      BY <2>1, <3>1, <3>2, MigrationBegins
  <2> QED
    BY <2>2, <2>3
<1>5. ASSUME NEW n \in Profiles, Upgrade(n) PROVE KeysInv' /\ KeyStep
  <2>1. Migrates /\ managed[n] # Nothing
    BY <1>5 DEF Upgrade
  <2>2. managed[n].key \in Nat /\ managed[n].model \in Models
    BY <2>1, KeyNumbers DEF KeyFiles
  <2> PICK new : new = [pc |-> "seal", profile |-> n, key |-> managed[n].key, model |-> managed[n].model, purpose |-> "upgrade"]
    OBVIOUS
  <2>3. new \in Migrating /\ new.pc = "seal" /\ SameKey(new)
    BY <2>1, <2>2 DEF Migrating, Sealings, SealingSteps, SameKey, Current
  <2>4. Proceeds(Operator, new) /\ UNCHANGED <<managed, legacy, material, newest, serving, overwritten>>
    BY <1>5 DEF Upgrade, Sealing
  <2> QED
    BY <2>1, <2>3, <2>4, MigrationBegins
<1>6. ASSUME Provision PROVE KeysInv' /\ KeyStep
  <2> PICK new : new = [pc |-> "seal", purpose |-> "provision"]
    OBVIOUS
  <2>1. new \in Provisions /\ new.pc = "seal" /\ new \notin Migrating
    BY DEF Provisions, Migrating, Sealings, SealingSteps
  <2>2. Migrates /\ Proceeds(Operator, new) /\ UNCHANGED <<managed, legacy, material, newest, serving, overwritten>>
    BY <1>6 DEF Provision
  <2> QED
    BY <2>1, <2>2, MigrationBegins
<1> QED
  BY <1>2, <1>3, <1>4, <1>5, <1>6

LEMMA KeySteps == ASSUME KeysInv, KeysNext \/ UNCHANGED keyVars PROVE KeysInv' /\ KeyStep
<1>1. Operator \in Actors
  BY DEF Actors
<1> QED
  BY <1>1, BeginningSteps, MaterialSteps, SavingFiles, EndingSteps, OperationSteps DEF KeysNext, Actors

LEMMA KeysStart == KeysInit => KeysInv
<1> SUFFICES ASSUME KeysInit PROVE KeysInv
  OBVIOUS
<1>1. Preferred \in Models
  BY ApiKeysAssumption DEF Preferred
<1>2. Plain(0, Preferred) \in KeyFiles /\ Plain(1, Preferred) \in KeyFiles
  BY <1>1 DEF Plain, File, KeyFiles
<1>3. /\ managed \in [Profiles -> {Nothing} \cup KeyFiles]
      /\ legacy \in [Profiles -> {Nothing} \cup KeyFiles]
      /\ \A n \in Profiles : /\ managed[n] # Nothing => managed[n].under = 0 /\ managed[n].key = 1
                             /\ legacy[n] # Nothing => legacy[n].under = 0 /\ legacy[n].key = 0
  BY <1>2 DEF KeysInit, Plain, File
<1>4. task = [b \in Actors |-> NoTask]
  BY DEF KeysInit, Actors
<1>5. KeyTypes
  BY <1>3, <1>4 DEF KeysInit, KeyTypes, Missing, Actors
<1>6. LockInv
  BY <1>4, ApiKeysAssumption DEF KeysInit, LockInv, Actors
<1>7. UnderLast /\ KeysKnown
  BY <1>3 DEF KeysInit, UnderLast, KeysKnown, ReplacedKeyIsGone
<1>8. \A b \in Actors : Fits(task[b])
  BY <1>4 DEF Fits, NoTask, Sealings, SealingSteps
<1> QED
  BY <1>5, <1>6, <1>7, <1>8 DEF KeysInv

(* Whatever changes of keys and models, migrations, crashes and lost       *)
(* material come together: no replaced key comes back, and a profile that  *)
(* has a key keeps one that the last material opens.                       *)
THEOREM KeysAreAlwaysKept == Spec => KeysAreKept
<1>1. Init => KeysInv
  BY KeysStart DEF Init
<1>2. KeysInv /\ [Next]_vars => KeysInv'
  BY Apart, KeySteps
<1>3. KeysInv /\ [Next]_vars => [KeyStep]_keyVars
  BY Apart, KeySteps
<1> QED
  BY <1>1, <1>2, <1>3, PTL DEF Spec, KeysAreKept, KeyStep
=============================================================================
