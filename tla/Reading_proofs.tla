--------------------------- MODULE Reading_proofs ---------------------------
(* Proofs about module Reading: what is known of each region when a file   *)
(* is called ready or partial, and which pieces are asked for.             *)
EXTENDS Reading, WellFoundedInduction, SequenceTheorems, TLAPS

-----------------------------------------------------------------------------
(* Pieces.                                                                 *)

(* A set of natural numbers has a least element.                           *)
Below == OpToRel(<, Nat)

LEMMA Least == ASSUME NEW T, T \subseteq Nat, T # {} PROVE \E x \in T : \A y \in T : x <= y
<1>1. IsWellFoundedOn(Below, Nat)
  BY NatLessThanWellFounded DEF Below
<1>2. PICK x \in T : \A y \in T : <<y, x>> \notin Below
  BY <1>1, WFMin
<1>3. \A y \in T : ~(y < x)
  BY <1>2 DEF Below, OpToRel
<1> QED
  BY <1>3

LEMMA PieceParts ==
    ASSUME NEW p \in Pieces
    PROVE  /\ p[1] \in Regions /\ p \in Seq(Regions \cup {1, 2})
           /\ Len(p) \in 1 .. MaxDepth + 1
           /\ Len(p) = 1 => p = <<p[1]>>
<1>1. PICK r \in Regions, half \in BoundedSeq(1 .. 2, MaxDepth) : p = <<r>> \o half
  BY DEF Pieces
<1>a. PICK n \in 0 .. MaxDepth : half \in [1 .. n -> 1 .. 2]
  BY DEF BoundedSeq, SeqOf
<1>2. half \in Seq({1, 2}) /\ Len(half) = n /\ MaxDepth \in Nat
  BY <1>a, ReadingAssumption
<1>3. <<r>> \in Seq(Regions) /\ Len(<<r>>) = 1
  OBVIOUS
<1>4. p \in Seq(Regions \cup {1, 2}) /\ Len(p) = n + 1 /\ p[1] = r
  BY <1>1, <1>2, <1>3
<1> QED
  BY <1>2, <1>4

LEMMA LongPieces ==
    ASSUME NEW p \in Pieces
    PROVE  /\ Len(p) > 1 => p # <<p[1]>>
           /\ ~(Len(p) > 1) => p = <<p[1]>>
<1>1. PICK n \in Nat : n = Len(p) /\ n >= 1 /\ (n = 1 => p = <<p[1]>>)
  <2>1. Len(p) \in 1 .. MaxDepth + 1 /\ (Len(p) = 1 => p = <<p[1]>>)
    BY PieceParts
  <2>2. MaxDepth \in Nat
    BY ReadingAssumption
  <2>3. Len(p) \in Nat /\ Len(p) >= 1
    BY <2>1, <2>2
  <2> QED
    BY <2>1, <2>3
<1>2. ~(n > 1) => p = <<p[1]>>
  BY <1>1
<1>3. ASSUME NEW x, p = <<x>> PROVE n = 1
  BY <1>1, <1>3
<1>4. n > 1 => p # <<p[1]>>
  BY <1>3
<1> QED
  BY <1>1, <1>2, <1>4

LEMMA WholePieces == ASSUME NEW r \in Regions PROVE <<r>> \in Pieces /\ Len(<<r>>) = 1 /\ <<r>>[1] = r
<1>1. <<>> \in BoundedSeq(1 .. 2, MaxDepth)
  BY ReadingAssumption DEF BoundedSeq, SeqOf
<1> QED
  BY <1>1 DEF Pieces

LEMMA HalfPieces ==
    ASSUME NEW p \in Pieces, Len(p) <= MaxDepth, NEW i \in 1 .. 2
    PROVE  Append(p, i) \in Pieces
<1>1. PICK r \in Regions, half \in BoundedSeq(1 .. 2, MaxDepth) : p = <<r>> \o half
  BY DEF Pieces
<1>a. PICK n \in 0 .. MaxDepth : half \in [1 .. n -> 1 .. 2]
  BY DEF BoundedSeq, SeqOf
<1>2. half \in Seq(1 .. 2) /\ Len(half) = n /\ MaxDepth \in Nat /\ n \in Nat
  BY <1>a, ReadingAssumption
<1>3. Len(p) = n + 1
  BY <1>1, <1>2
<1>4. Append(half, i) \in [1 .. n + 1 -> 1 .. 2]
  <2>1. Append(half, i) \in Seq(1 .. 2) /\ Len(Append(half, i)) = n + 1
    BY <1>2
  <2> QED
    BY <2>1, LenProperties
<1>5. Append(half, i) \in BoundedSeq(1 .. 2, MaxDepth)
  BY <1>2, <1>3, <1>4 DEF BoundedSeq, SeqOf
<1>6. Append(p, i) = <<r>> \o Append(half, i)
  BY <1>1, <1>2
<1>7. <<r>> \o Append(half, i) \in {<<r>> \o h : h \in BoundedSeq(1 .. 2, MaxDepth)}
  BY <1>5
<1> QED
  BY <1>6, <1>7 DEF Pieces

(* The thread of a region that is not settled always finds a piece to read *)
(* next: going down into halves that are not settled comes to an end.      *)
OnPath(r, p) ==
    /\ p[1] = r /\ ~Settled(p)
    /\ \A i \in 1 .. Len(p) - 1 :
          LET q == SubSeq(p, 1, i) IN
          HasHalves(q) /\ ~Settled(q) /\ (p[i + 1] = 2 => Settled(Append(q, 1)))

LEMMA Beginnings ==
    ASSUME NEW S, NEW p \in Seq(S), NEW i, NEW j \in 1 .. Len(p)
    PROVE  /\ SubSeq(Append(p, i), 1, j) = SubSeq(p, 1, j)
           /\ Append(p, i)[j] = p[j] /\ Append(p, i)[Len(p) + 1] = i /\ Len(Append(p, i)) = Len(p) + 1
           /\ SubSeq(p, 1, Len(p)) = p
<1> PICK T : T = S \cup {i}
  OBVIOUS
<1>1. p \in Seq(T) /\ Append(p, i) \in Seq(T) /\ Len(p) \in Nat
  BY SeqMonotonic
<1>2. /\ Append(p, i)[Len(p) + 1] = i /\ Len(Append(p, i)) = Len(p) + 1
      /\ \A k \in 1 .. Len(p) : Append(p, i)[k] = p[k]
  BY <1>1
<1>3. \A k \in 1 .. j : p[k] \in T /\ Append(p, i)[k] \in T
  BY <1>1, <1>2, ElementOfSeq
<1>4. /\ SubSeq(p, 1, j) \in Seq(T) /\ Len(SubSeq(p, 1, j)) = j
      /\ \A k \in 1 .. j : SubSeq(p, 1, j)[k] = p[k]
  BY <1>1, <1>3
<1>5. /\ SubSeq(Append(p, i), 1, j) \in Seq(T) /\ Len(SubSeq(Append(p, i), 1, j)) = j
      /\ \A k \in 1 .. j : SubSeq(Append(p, i), 1, j)[k] = Append(p, i)[k]
  BY <1>1, <1>2, <1>3
<1>6. SubSeq(Append(p, i), 1, j) = SubSeq(p, 1, j)
  BY <1>2, <1>4, <1>5, SeqEqual
<1>7. SubSeq(p, 1, Len(p)) = p
  BY <1>1
<1> QED
  BY <1>2, <1>6, <1>7

LEMMA NextPiece ==
    ASSUME NEW r \in Regions, ~Settled(<<r>>), NEW p, p = FirstUnsettled(r)
    PROVE  /\ p \in Pieces /\ p[1] = r /\ ~Settled(p)
           /\ ~HasHalves(p) \/ \A h \in Halves(p) : Settled(h)
           /\ Len(p) > 1 => HasHalves(<<r>>)
<1> DEFINE S == {q \in Pieces : OnPath(r, q)}
<1>1. <<r>> \in S
  <2>1. \A i \in 1 .. Len(<<r>>) - 1 : FALSE
    OBVIOUS
  <2> QED
    BY <2>1, WholePieces DEF OnPath
<1>2. PICK deep \in S : \A q \in S : Len(q) <= Len(deep)
  <2> DEFINE T == {MaxDepth + 1 - Len(q) : q \in S}
  <2>1. MaxDepth \in Nat /\ \A q \in S : Len(q) \in 1 .. MaxDepth + 1
    BY PieceParts, ReadingAssumption
  <2>2. T \subseteq Nat /\ T # {}
    BY <1>1, <2>1
  <2>3. PICK x \in T : \A y \in T : x <= y
    BY <2>2, Least
  <2>4. PICK deep \in S : x = MaxDepth + 1 - Len(deep)
    BY <2>3
  <2>5. \A q \in S : MaxDepth + 1 - Len(deep) <= MaxDepth + 1 - Len(q)
    BY <2>3, <2>4
  <2>6. \A q \in S : Len(q) <= Len(deep)
    BY <2>1, <2>5
  <2> QED
    BY <2>6
<1>3. ~HasHalves(deep) \/ \A h \in Halves(deep) : Settled(h)
  <2> SUFFICES ASSUME HasHalves(deep), NEW h \in Halves(deep), ~Settled(h) PROVE FALSE
    OBVIOUS
  <2> PICK i : i = IF Settled(Append(deep, 1)) THEN 2 ELSE 1
    OBVIOUS
  <2> PICK longer : longer = Append(deep, i)
    OBVIOUS
  <2>1. deep \in Pieces /\ OnPath(r, deep) /\ Len(deep) <= MaxDepth
    BY DEF HasHalves
  <2>2. ~Settled(longer) /\ i \in 1 .. 2 /\ (i = 2 => Settled(Append(deep, 1)))
    <3>1. h = Append(deep, 1) \/ h = Append(deep, 2)
      BY DEF Halves
    <3>2. CASE Settled(Append(deep, 1))
      <4>1. i = 2 /\ h = Append(deep, 2)
        BY <3>1, <3>2
      <4> QED
        BY <3>2, <4>1
    <3>3. CASE ~Settled(Append(deep, 1))
      <4>1. i = 1
        BY <3>3
      <4> QED
        BY <3>3, <4>1
    <3> QED
      BY <3>2, <3>3
  <2>3. longer \in Pieces
    BY <2>1, <2>2, HalfPieces
  <2>4. deep \in Seq(Regions \cup {1, 2}) /\ Len(deep) \in Nat /\ Len(deep) >= 1
    BY <2>1, PieceParts
  <2>5. Len(longer) = Len(deep) + 1 /\ longer[Len(deep) + 1] = i
        /\ SubSeq(longer, 1, Len(deep)) = deep
        /\ \A j \in 1 .. Len(deep) : SubSeq(longer, 1, j) = SubSeq(deep, 1, j) /\ longer[j] = deep[j]
    BY <2>4, Beginnings
  <2>6. longer[1] = r
    BY <2>1, <2>4, <2>5 DEF OnPath
  <2>7. ASSUME NEW j \in 1 .. Len(longer) - 1
        PROVE  LET q == SubSeq(longer, 1, j) IN
               HasHalves(q) /\ ~Settled(q) /\ (longer[j + 1] = 2 => Settled(Append(q, 1)))
    <3>1. CASE j = Len(deep)
      <4>1. SubSeq(longer, 1, j) = deep /\ longer[j + 1] = i
        BY <2>5, <3>1
      <4> QED
        BY <2>1, <2>2, <4>1 DEF OnPath
    <3>2. CASE j # Len(deep)
      <4>1. j \in 1 .. Len(deep) - 1 /\ j + 1 \in 1 .. Len(deep) /\ j \in 1 .. Len(deep)
        <5>1. Len(deep) \in Nat /\ Len(longer) = Len(deep) + 1
          BY <2>4, <2>5
        <5> QED
          BY <3>2, <5>1
      <4>2. SubSeq(longer, 1, j) = SubSeq(deep, 1, j) /\ longer[j + 1] = deep[j + 1]
        BY <2>5, <4>1
      <4> QED
        BY <2>1, <4>1, <4>2 DEF OnPath
    <3> QED
      BY <3>1, <3>2
  <2>8. OnPath(r, longer)
    BY <2>2, <2>6, <2>7 DEF OnPath
  <2>9. longer \in S
    BY <2>3, <2>8
  <2>10. Len(longer) <= Len(deep)
    BY <1>2, <2>9
  <2>11. Len(longer) = Len(deep) + 1 /\ Len(deep) \in Nat
    BY <2>4, <2>5
  <2> QED
    BY <2>10, <2>11
<1>4. /\ p \in Pieces /\ p[1] = r /\ ~Settled(p)
      /\ ~HasHalves(p) \/ \A h \in Halves(p) : Settled(h)
      /\ \A i \in 1 .. Len(p) - 1 :
            LET q == SubSeq(p, 1, i) IN
            HasHalves(q) /\ ~Settled(q) /\ (p[i + 1] = 2 => Settled(Append(q, 1)))
  BY <1>2, <1>3 DEF FirstUnsettled, OnPath
<1>5. Len(p) > 1 => HasHalves(<<r>>)
  <2> SUFFICES ASSUME Len(p) > 1 PROVE HasHalves(<<r>>)
    OBVIOUS
  <2>1. p \in Seq(Regions \cup {1, 2}) /\ Len(p) \in Nat
    BY <1>4, PieceParts
  <2>2. HasHalves(SubSeq(p, 1, 1))
    BY <1>4, <2>1
  <2>3. SubSeq(p, 1, 1) = <<r>>
    <3>1. SubSeq(p, 1, 1) \in Seq(Regions \cup {1, 2}) /\ Len(SubSeq(p, 1, 1)) = 1 /\ SubSeq(p, 1, 1)[1] = p[1]
      BY <2>1
    <3>2. <<r>> \in Seq(Regions \cup {1, 2}) /\ Len(<<r>>) = 1 /\ <<r>>[1] = r
      OBVIOUS
    <3>3. \A i \in 1 .. 1 : i = 1
      OBVIOUS
    <3> QED
      BY <1>4, <3>1, <3>2, <3>3, SeqEqual
  <2> QED
    BY <2>2, <2>3
<1> QED
  BY <1>4, <1>5

-----------------------------------------------------------------------------
(* The invariant.                                                          *)
Draft == <<Head(Primary)>>
WholeOnly(r) == Office \/ IsField(r)
IsText(t) == \E S : t \in Seq(S)

Routes == {"primary", "fallback"}
Waiting == [pc : {"idle", "kept", "next", "done", "unclear", "deferred", "skipped", "failed", "broke"}]
Entering(t) == [pc : {"enter"}, route : Routes, piece : Pieces, text : {t.text}]
Trying(t) ==
    [pc : {"try", "asked", "retry"}, route : Routes, piece : Pieces, text : {t.text}, left : {t.left}, again : BOOLEAN]
ThreadTypes(t) == t \in Waiting \cup Entering(t) \cup Trying(t)

Maps ==
    /\ cache = [p \in Pieces |-> cache[p]]
    /\ short = [p \in Pieces |-> short[p]]
    /\ saved = [p \in Pieces |-> saved[p]]
    /\ \A q \in DOMAIN level : level[q] \in Nat

(* What is written is never text of the wrong kind: a picture of an Office *)
(* file has no numbers to miss, and only regions of pages are settled.     *)
OwnTexts ==
    \A p \in Pieces : /\ WholeOnly(p[1]) => saved[p] = <<>>
                      /\ Office => short[p] = {}

(* A thread that has a piece has one of its own region, not settled and    *)
(* not so often cut off that it is to be halved.                           *)
AtWork(r) ==
    at[r].pc \in Busy =>
        /\ r \in Shown /\ ~Settled(<<r>>) /\ at[r].piece[1] = r /\ IsText(at[r].text)
        /\ WholeOnly(r) => at[r].piece = <<r>>
        /\ Office => at[r].text = <<>>
        /\ mode = "direct" /\ ~WholeOnly(r) /\ Len(at[r].piece) <= MaxDepth => Level(at[r].piece, Draft) < SplitLevel
Queued(r) == at[r].pc = "next" => r \in Shown /\ ~Settled(<<r>>)

(* What a thread leaves behind.                                            *)
Through(r) ==
    /\ at[r].pc = "done" => IF WholeOnly(r) THEN cache[<<r>>] \ short[<<r>>] # {} ELSE Settled(<<r>>)
    /\ at[r].pc = "kept" => r \notin Shown \/ Settled(<<r>>)
    /\ at[r].pc = "skipped" => Office

Thread(r) == ThreadTypes(at[r]) /\ AtWork(r) /\ Queued(r) /\ Through(r)

Ends ==
    /\ status # "open" => ~pass
    /\ status \in {"ready", "partial"} => Now(Busy \cup {"next", "deferred"}) = {}
    /\ status = "ready" => AllDescribed /\ Gaps = {}

ReadInv ==
    /\ file \in Files /\ Maps /\ OwnTexts /\ Ends
    /\ at = [r \in Regions |-> at[r]] /\ \A r \in Regions : Thread(r)

-----------------------------------------------------------------------------
(* A step of one thread: it writes about its own region only.              *)
Elsewhere(r) ==
    \A p \in Pieces : p[1] # r => /\ cache'[p] = cache[p] /\ short'[p] = short[p] /\ saved'[p] = saved[p]
                                  /\ Level(p, Draft)' = Level(p, Draft)

LEMMA OthersStay ==
    ASSUME ReadInv, NEW r \in Regions, Elsewhere(r), UNCHANGED <<mode, file>>,
           NEW q \in Regions \ {r}, at'[q] = at[q]
    PROVE  Thread(q)'
<1>1. Thread(q)
  BY DEF ReadInv
<1>2. <<q>> \in Pieces /\ <<q>>[1] = q
  BY WholePieces
<1>3. cache'[<<q>>] = cache[<<q>>] /\ short'[<<q>>] = short[<<q>>] /\ saved'[<<q>>] = saved[<<q>>]
  BY <1>2 DEF Elsewhere
<1>4. ThreadTypes(at[q])' /\ Queued(q)' /\ Through(q)'
  BY <1>1, <1>3 DEF Thread, ThreadTypes, Entering, Trying, Queued, Through, WholeOnly, Office, Shown, Settled
<1>5. AtWork(q)'
  <2> SUFFICES ASSUME at[q].pc \in Busy PROVE AtWork(q)'
    BY DEF AtWork
  <2>1. at[q].piece \in Pieces
    BY <1>1 DEF Thread, ThreadTypes, Waiting, Entering, Trying, Busy
  <2>2. at[q].piece[1] = q
    BY <1>1 DEF Thread, AtWork
  <2>3. Level(at[q].piece, Draft)' = Level(at[q].piece, Draft)
    <3> PICK p \in Pieces : p = at[q].piece
      BY <2>1
    <3>1. Level(p, Draft)' = Level(p, Draft)
      BY <2>2 DEF Elsewhere
    <3>2. Level(at[q].piece, Draft)' = IF <<p, Draft>> \in DOMAIN level' THEN level'[<<p, Draft>>] ELSE 0
      BY DEF Level
    <3> QED
      BY <3>1, <3>2 DEF Level
  <2> QED
    BY <1>1, <1>3, <2>3 DEF Thread, AtWork, WholeOnly, Office, Shown, Settled
<1> QED
  BY <1>4, <1>5 DEF Thread

LEMMA Onwards ==
    ASSUME ReadInv, NEW r \in Regions, at[r].pc \in Busy \cup {"next"}, NEW new, Step(r, new),
           UNCHANGED <<mode, file, pass, status>>, Maps', OwnTexts', Elsewhere(r), Thread(r)'
    PROVE  ReadInv'
<1>1. at' = [at EXCEPT ![r] = new] /\ at = [q \in Regions |-> at[q]]
  BY DEF Step, ReadInv
<1>2. at' = [q \in Regions |-> at'[q]] /\ \A q \in Regions \ {r} : at'[q] = at[q]
  BY <1>1
<1>3. \A q \in Regions : Thread(q)'
  BY <1>2, OthersStay
<1>4. status \notin {"ready", "partial"}
  BY DEF ReadInv, Ends, Now
<1>5. Ends'
  BY <1>4 DEF ReadInv, Ends
<1> QED
  BY <1>2, <1>3, <1>5 DEF ReadInv

(* A thread stops without a text.                                          *)
LEMMA Halting ==
    ASSUME ReadInv, NEW r \in Regions, at[r].pc \in Busy \cup {"next"}, NEW new \in Waiting, Step(r, new),
           new.pc \in {"deferred", "failed", "broke"} \/ (new.pc = "skipped" /\ Office),
           UNCHANGED <<mode, file, cache, short, saved, pass, status>>, Maps', Elsewhere(r)
    PROVE  ReadInv'
<1>1. at'[r] = new
  BY DEF Step, ReadInv
<1>2. Thread(r)'
  BY <1>1 DEF Thread, ThreadTypes, AtWork, Queued, Through, Busy, Office
<1>3. OwnTexts'
  BY DEF ReadInv, OwnTexts, WholeOnly, Office
<1> QED
  BY <1>2, <1>3, Onwards

(* A thread goes on with its piece and its text.                           *)
LEMMA GoingOn ==
    ASSUME ReadInv, NEW r \in Regions, at[r].pc \in Busy,
           NEW new, new \in Entering(new) \cup Trying(new), Step(r, new),
           new.piece = at[r].piece, new.text = at[r].text,
           UNCHANGED <<mode, file, cache, level, short, saved, pass, status>>
    PROVE  ReadInv'
<1>1. at'[r] = new
  BY DEF Step, ReadInv
<1>2. AtWork(r)
  BY DEF ReadInv, Thread
<1>3. new.pc \in Busy
  BY DEF Entering, Trying, Busy
<1>4. Level(new.piece, Draft)' = Level(at[r].piece, Draft)
  BY DEF Level
<1>5. AtWork(r)'
  BY <1>1, <1>2, <1>4 DEF AtWork, WholeOnly, Office, Shown, Settled, Level
<1>6. Thread(r)'
  BY <1>1, <1>3, <1>5 DEF Thread, ThreadTypes, Queued, Through, Busy
<1>7. Maps' /\ OwnTexts' /\ Elsewhere(r)
  BY DEF ReadInv, Maps, OwnTexts, WholeOnly, Office, Elsewhere, Level
<1> QED
  BY <1>6, <1>7, Onwards

LEMMA Waits ==
    ASSUME ReadInv, NEW r \in Regions, at[r].pc \in Busy, Wait(r) \/ Defer(r) \/ Fail(r),
           UNCHANGED <<mode, file, cache, level, short, saved, pass, status>>
    PROVE  ReadInv'
<1>1. Maps' /\ Elsewhere(r)
  BY DEF ReadInv, Maps, Elsewhere, Level
<1>2. CASE Wait(r)
  <2>1. PICK new \in Waiting : Step(r, new) /\ (new.pc = "deferred" \/ (new.pc = "skipped" /\ Office))
    BY <1>2 DEF Wait, Skip, Defer, Waiting
  <2> QED
    BY <1>1, <2>1, Halting
<1>3. CASE Defer(r) \/ Fail(r)
  <2>1. PICK new \in Waiting : Step(r, new) /\ new.pc \in {"deferred", "failed"}
    BY <1>3 DEF Fail, Defer, Waiting
  <2> QED
    BY <1>1, <2>1, Halting
<1> QED
  BY <1>2, <1>3

(* The reader of a Word file gives up every figure that is still to come.  *)
LEMMA Stopping ==
    ASSUME ReadInv, NEW r \in Regions, at[r].pc \in Busy, Stop(r), Office,
           UNCHANGED <<mode, file, cache, level, short, saved, pass, status>>
    PROVE  ReadInv'
<1>1. at' = [q \in Regions |-> IF q = r \/ at[q].pc = "next" THEN [pc |-> "skipped"] ELSE at[q]]
  BY DEF Stop
<1>2. ASSUME NEW q \in Regions PROVE Thread(q)'
  <2>1. CASE at'[q] = at[q]
    BY <2>1 DEF ReadInv, Thread, ThreadTypes, Entering, Trying, AtWork, Queued, Through, WholeOnly, Office, Shown, Settled, Level
  <2>2. CASE at'[q] = [pc |-> "skipped"]
    BY <2>2 DEF Thread, ThreadTypes, Waiting, AtWork, Queued, Through, Busy, Office
  <2> QED
    BY <1>1, <2>1, <2>2
<1>3. status \notin {"ready", "partial"}
  BY DEF ReadInv, Ends, Now
<1>4. Ends'
  BY <1>3 DEF ReadInv, Ends
<1> QED
  BY <1>1, <1>2, <1>4 DEF ReadInv, Maps, OwnTexts, WholeOnly, Office

LEMMA EnterKeeps == ASSUME ReadInv, NEW r \in Regions, Enter(r), UNCHANGED <<pass, status>> PROVE ReadInv'
<1>1. PICK route \in Routes, again \in BOOLEAN :
           Step(r, [pc |-> "try", route |-> route, piece |-> at[r].piece, text |-> at[r].text,
                    left |-> Walk(route), again |-> again])
  <2>1. at[r].route \in Routes
    BY DEF Enter, ReadInv, Thread, ThreadTypes, Waiting, Entering, Trying
  <2>2. PICK again \in BOOLEAN : again = (mode = "direct")
    OBVIOUS
  <2>3. PICK route \in Routes :
           Step(r, [pc |-> "try", route |-> route, piece |-> at[r].piece, text |-> at[r].text,
                    left |-> Walk(route), again |-> again])
    BY <2>1, <2>2 DEF Enter, Routes
  <2> QED
    BY <2>3
<1>2. PICK new : new = [pc |-> "try", route |-> route, piece |-> at[r].piece, text |-> at[r].text,
                        left |-> Walk(route), again |-> again]
  OBVIOUS
<1>3. at[r].piece \in Pieces
  BY DEF Enter, ReadInv, Thread, ThreadTypes, Waiting, Entering, Trying
<1>4. new \in Trying(new) /\ new.piece = at[r].piece /\ new.text = at[r].text
  BY <1>1, <1>2, <1>3 DEF Trying
<1> QED
  BY <1>1, <1>2, <1>4, GoingOn DEF Enter, routeVars, Busy

LEMMA AskKeeps == ASSUME ReadInv, NEW r \in Regions, Ask(r), UNCHANGED <<pass, status>> PROVE ReadInv'
<1>1. at[r].pc \in Busy /\ UNCHANGED <<mode, file, cache, level, short, saved>>
  BY DEF Ask, Busy
<1>2. CASE Defer(r)
  BY <1>1, <1>2, Waits
<1>3. CASE NoShare(r)
  <2>1. CASE Stop(r) /\ file.kind = "word"
    BY <1>1, <2>1, Stopping DEF Office
  <2> QED
    BY <1>1, <1>3, <2>1, Waits DEF NoShare
<1>4. CASE Step(r, [at[r] EXCEPT !.pc = "asked"])
  <2>1. PICK new : new = [at[r] EXCEPT !.pc = "asked"]
    OBVIOUS
  <2>2. at[r] \in Trying(at[r])
    BY DEF Ask, ReadInv, Thread, ThreadTypes, Waiting, Entering
  <2>3. new \in Trying(new) /\ new.piece = at[r].piece /\ new.text = at[r].text
    BY <2>1, <2>2 DEF Trying
  <2> QED
    BY <1>1, <1>4, <2>1, <2>3, GoingOn
<1> QED
  BY <1>2, <1>3, <1>4 DEF Ask

LEMMA UnavailableKeeps == ASSUME ReadInv, NEW r \in Regions, Unavailable(r), UNCHANGED <<pass, status>> PROVE ReadInv'
<1>1. at[r].pc \in Busy /\ UNCHANGED <<mode, file, cache, level, short, saved>>
  BY DEF Unavailable, Busy
<1>2. at[r] \in Trying(at[r])
  BY DEF Unavailable, ReadInv, Thread, ThreadTypes, Waiting, Entering
<1>3. PICK again \in BOOLEAN : again = (mode = "direct")
  OBVIOUS
<1>4. PICK new : /\ Step(r, new)
                 /\ new = IF at[r].again THEN [at[r] EXCEPT !.pc = "retry", !.again = FALSE]
                          ELSE [at[r] EXCEPT !.pc = "try", !.left = Tail(@), !.again = again]
  BY <1>3 DEF Unavailable
<1>5. new \in Trying(new) /\ new.piece = at[r].piece /\ new.text = at[r].text
  BY <1>2, <1>4 DEF Trying
<1> QED
  BY <1>1, <1>4, <1>5, GoingOn

LEMMA DeniedKeeps == ASSUME ReadInv, NEW r \in Regions, Denied(r), UNCHANGED <<pass, status>> PROVE ReadInv'
<1>1. at[r].pc \in Busy /\ UNCHANGED <<mode, file, cache, level, short, saved>>
  BY DEF Denied, Busy
<1>2. CASE Step(r, [at[r] EXCEPT !.pc = "try", !.left = <<>>])
  <2>1. at[r] \in Trying(at[r])
    BY DEF Denied, ReadInv, Thread, ThreadTypes, Waiting, Entering
  <2>2. PICK new : Step(r, new) /\ new = [at[r] EXCEPT !.pc = "try", !.left = <<>>]
    BY <1>2
  <2>3. new \in Trying(new) /\ new.piece = at[r].piece /\ new.text = at[r].text
    BY <2>1, <2>2 DEF Trying
  <2> QED
    BY <1>1, <2>2, <2>3, GoingOn
<1>3. CASE Fail(r)
  BY <1>1, <1>3, Waits
<1>4. CASE Step(r, [pc |-> "broke"])
  <2>1. Maps' /\ Elsewhere(r)
    BY <1>1 DEF ReadInv, Maps, Elsewhere, Level
  <2>2. PICK new \in Waiting : Step(r, new) /\ new.pc = "broke"
    BY <1>4 DEF Waiting
  <2> QED
    BY <1>1, <2>1, <2>2, Halting
<1> QED
  BY <1>2, <1>3, <1>4 DEF Denied

LEMMA LeaveRouteKeeps == ASSUME ReadInv, NEW r \in Regions, LeaveRoute(r), UNCHANGED <<pass, status>> PROVE ReadInv'
<1>1. at[r].pc \in Busy /\ UNCHANGED <<mode, file, cache, level, short, saved>>
  BY DEF LeaveRoute, Busy
<1>2. CASE Step(r, [Fresh(at[r].piece, at[r].text) EXCEPT !.route = "fallback"])
  <2>1. PICK new : Step(r, new) /\ new = [Fresh(at[r].piece, at[r].text) EXCEPT !.route = "fallback"]
    BY <1>2
  <2>2. at[r].piece \in Pieces
    BY DEF LeaveRoute, ReadInv, Thread, ThreadTypes, Waiting, Entering, Trying
  <2>3. new \in Entering(new) /\ new.piece = at[r].piece /\ new.text = at[r].text
    BY <2>1, <2>2 DEF Entering, Fresh, Routes
  <2> QED
    BY <1>1, <2>1, <2>3, GoingOn
<1> QED
  BY <1>1, <1>2, Waits DEF LeaveRoute

(* A request was cut off: only at the level of what it asked for does      *)
(* anything change, and a draft is repeated only below the level at which  *)
(* the piece is to be halved.                                              *)
LEMMA TruncateKeeps == ASSUME ReadInv, NEW r \in Regions, Truncate(r), UNCHANGED <<pass, status>> PROVE ReadInv'
<1>1. /\ at[r].pc \in Busy /\ UNCHANGED <<mode, file, cache, short, saved>>
      /\ at[r] \in Trying(at[r]) /\ AtWork(r)
  BY DEF Truncate, Busy, routeVars, ReadInv, Thread, ThreadTypes, Waiting, Entering
<1> PICK p \in Pieces : p = at[r].piece
  BY <1>1 DEF Trying
<1> PICK t, l : t = Wanted(r) /\ l = Level(p, t)
  OBVIOUS
<1>2. p[1] = r
  BY <1>1 DEF AtWork
<1>3. l \in Nat
  BY ReadingAssumption DEF ReadInv, Maps, Level
<1>4. \/ /\ l < TopLevel
         /\ level' = [q \in DOMAIN level \cup {<<p, t>>} |-> IF q = <<p, t>> THEN l + 1 ELSE level[q]]
      \/ UNCHANGED level
  BY DEF Truncate
<1>5. /\ \A q \in DOMAIN level' : level'[q] \in Nat
      /\ \A q : q # <<p, t>> => (q \in DOMAIN level' <=> q \in DOMAIN level)
                                /\ (q \in DOMAIN level => level'[q] = level[q])
  BY <1>3, <1>4 DEF ReadInv, Maps
<1>6. Maps'
  BY <1>1, <1>5 DEF ReadInv, Maps
<1>7. \A q, s : <<q, s>> # <<p, t>> => Level(q, s)' = Level(q, s)
  BY <1>5 DEF Level
<1>8. Elsewhere(r)
  <2> SUFFICES ASSUME NEW q \in Pieces, q[1] # r PROVE Level(q, Draft)' = Level(q, Draft)
    BY <1>1 DEF Elsewhere
  <2>1. <<q, Draft>> # <<p, t>>
    BY <1>2
  <2> QED
    BY <1>7, <2>1 DEF Draft
<1>9. CASE Defer(r) \/ Fail(r)
  <2>1. PICK new \in Waiting : Step(r, new) /\ new.pc \in {"deferred", "failed"}
    BY <1>9 DEF Fail, Defer, Waiting
  <2> QED
    BY <1>1, <1>6, <1>8, <2>1, Halting
<1>10. CASE ~(Defer(r) \/ Fail(r))
  <2>1. /\ l < TopLevel /\ (Office \/ l + 1 < SplitLevel)
        /\ Step(r, [at[r] EXCEPT !.pc = "retry", !.again = FALSE])
    BY <1>10 DEF Truncate
  <2>2. PICK new : Step(r, new) /\ new = [at[r] EXCEPT !.pc = "retry", !.again = FALSE]
    BY <2>1
  <2>3. new \in Trying(new) /\ new.pc \in Busy /\ new.piece = p /\ new.text = at[r].text
    BY <1>1, <2>2 DEF Trying, Busy
  <2>4. at'[r] = new
    BY <2>2 DEF Step, ReadInv
  <2>5. ~Office /\ t = Draft => Level(p, Draft)' = l + 1
    <3> SUFFICES ASSUME t = Draft PROVE Level(p, Draft)' = l + 1
      OBVIOUS
    <3>1. level' = [q \in DOMAIN level \cup {<<p, t>>} |-> IF q = <<p, t>> THEN l + 1 ELSE level[q]]
      BY <2>1 DEF Truncate
    <3>2. <<p, t>> \in DOMAIN level' /\ level'[<<p, t>>] = l + 1
      BY <3>1
    <3> QED
      BY <3>2 DEF Level, Draft
  <2>6. mode = "direct" /\ ~WholeOnly(r) /\ Len(p) <= MaxDepth => Level(p, Draft)' < SplitLevel
    <3> SUFFICES ASSUME mode = "direct", ~WholeOnly(r), Len(p) <= MaxDepth PROVE Level(p, Draft)' < SplitLevel
      OBVIOUS
    <3>1. CASE t = Draft
      BY <2>1, <2>5, <3>1 DEF WholeOnly
    <3>2. CASE t # Draft
      <4>1. Level(p, Draft)' = Level(p, Draft)
        BY <1>7, <3>2 DEF Draft
      <4> QED
        BY <1>1, <4>1 DEF AtWork, WholeOnly
    <3> QED
      BY <3>1, <3>2
  <2>7. AtWork(r)'
    <3>1. Level(at[r].piece, Draft)' = Level(p, Draft)'
      BY <2>3, <2>4 DEF Level
    <3> QED
      BY <1>1, <2>3, <2>4, <2>6, <3>1 DEF AtWork, WholeOnly, Office, Shown, Settled
  <2>8. Thread(r)'
    BY <2>3, <2>4, <2>7 DEF Thread, ThreadTypes, Trying, Queued, Through
  <2>9. OwnTexts'
    BY <1>1 DEF ReadInv, OwnTexts, WholeOnly, Office
  <2> QED
    BY <1>1, <1>6, <1>8, <2>2, <2>8, <2>9, Onwards
<1> QED
  BY <1>9, <1>10

-----------------------------------------------------------------------------
(* A text is known of a piece.                                             *)
OneText(p) ==
    /\ cache' = [q \in Pieces |-> cache'[q]] /\ short' = [q \in Pieces |-> short'[q]]
    /\ \A q \in Pieces \ {p} : cache'[q] = cache[q] /\ short'[q] = short[q]
    /\ Office => UNCHANGED short

LEMMA Having ==
    ASSUME ReadInv, NEW r \in Regions, at[r].pc \in Busy, NEW t, IsText(t), t # <<>>, Have(r, t),
           t \in cache'[at[r].piece], OneText(at[r].piece),
           UNCHANGED <<mode, file, level, pass, status>>
    PROVE  ReadInv'
<1>1. AtWork(r) /\ at[r].piece \in Pieces
  BY DEF ReadInv, Thread, ThreadTypes, Waiting, Entering, Trying, Busy
<1> PICK p \in Pieces : p = at[r].piece
  BY <1>1
<1>2. /\ r \in Shown /\ ~Settled(<<r>>) /\ p[1] = r /\ (WholeOnly(r) => p = <<r>>)
      /\ (Len(p) > 1 => p # <<r>>) /\ (~(Len(p) > 1) => p = <<r>>) /\ <<r>> \in Pieces
      /\ Office => ~IsField(r)
  <2>2. Office => ~IsField(r)
    BY <1>1 DEF AtWork, Office, IsField, ReadInv, Files, Shown
  <2>3. r \in Shown /\ ~Settled(<<r>>) /\ p[1] = r /\ (WholeOnly(r) => p = <<r>>)
    BY <1>1 DEF AtWork
  <2>4. (Len(p) > 1 => p # <<r>>) /\ (~(Len(p) > 1) => p = <<r>>)
    BY <2>3, LongPieces
  <2> QED
    BY <2>2, <2>3, <2>4, WholePieces
<1>3. PICK new : Step(r, new) /\ at'[r] = new
  BY DEF Have, Step, ReadInv
<1>4. CASE Complete(p, t)
  <2>1. /\ saved' = IF WholeOnly(r) THEN saved ELSE [saved EXCEPT ![p] = t]
        /\ new = [pc |-> IF Len(p) > 1 THEN "next" ELSE IF Unclear(r, t) THEN "unclear" ELSE "done"]
    BY <1>2, <1>3, <1>4 DEF Have, WholeOnly, Step, ReadInv
  <2>2. saved = [q \in Pieces |-> saved[q]]
    BY DEF ReadInv, Maps
  <2>3. /\ saved' = [q \in Pieces |-> saved'[q]] /\ \A q \in Pieces \ {p} : saved'[q] = saved[q]
        /\ saved'[p] = IF WholeOnly(r) THEN saved[p] ELSE t
    BY <2>1, <2>2
  <2>4. Maps'
    BY <2>3 DEF ReadInv, Maps, OneText
  <2>5. OwnTexts'
    BY <1>2, <2>3 DEF ReadInv, OwnTexts, OneText, WholeOnly, Office
  <2>6. Elsewhere(r)
    BY <1>2, <2>3 DEF Elsewhere, OneText, Level
  <2>7. CASE Len(p) > 1
    <3>a. p # <<r>>
      BY <1>2, <2>7
    <3>1. new = [pc |-> "next"] /\ p # <<r>>
      BY <2>1, <2>7, <3>a
    <3>2. r \in Shown' /\ ~Settled(<<r>>)'
      BY <1>2, <2>3, <3>1 DEF Shown, Settled
    <3>3. Thread(r)'
      BY <1>3, <3>1, <3>2 DEF Thread, ThreadTypes, Waiting, AtWork, Queued, Through, Busy
    <3> QED
      BY <1>3, <2>4, <2>5, <2>6, <3>3, Onwards
  <2>8. CASE ~(Len(p) > 1)
    <3>a. p = <<r>>
      BY <1>2, <2>8
    <3>b. new = [pc |-> "unclear"] \/ new = [pc |-> "done"]
      BY <2>1, <2>8
    <3>1. p = <<r>> /\ new.pc \in {"unclear", "done"} /\ new \in Waiting
      BY <3>a, <3>b DEF Waiting
    <3>2. ~WholeOnly(r) => Settled(<<r>>)'
      BY <2>3, <3>1 DEF Settled
    <3>3. new.pc = "done" /\ WholeOnly(r) => t \notin short'[<<r>>]
      <4>1. CASE Office
        BY <1>2, <2>5, <4>1 DEF OwnTexts, Office, OneText
      <4>2. CASE ~Office
        BY <1>2, <2>1, <2>8, <4>2 DEF Unclear, WholeOnly
      <4> QED
        BY <4>1, <4>2
    <3>4. Through(r)'
      BY <1>3, <3>1, <3>2, <3>3 DEF Through, WholeOnly, Office, Settled
    <3>5. Thread(r)'
      BY <1>3, <3>1, <3>4 DEF Thread, ThreadTypes, AtWork, Queued, Busy
    <3> QED
      BY <1>3, <2>4, <2>5, <2>6, <3>5, Onwards
  <2> QED
    BY <2>7, <2>8
<1>5. CASE ~Complete(p, t)
  <2>1. new = Fresh(p, t) /\ UNCHANGED saved /\ ~Office
    BY <1>2, <1>3, <1>5 DEF Have, Step, ReadInv, Complete
  <2>2. new \in Entering(new) /\ new.pc \in Busy /\ new.piece = p /\ new.text = t
    BY <2>1 DEF Fresh, Entering, Routes, Busy
  <2>3. Maps' /\ OwnTexts' /\ Elsewhere(r)
    BY <1>2, <2>1 DEF ReadInv, Maps, OwnTexts, Elsewhere, OneText, WholeOnly, Office, Level
  <2>4. Level(at[r].piece, Draft)' = Level(p, Draft)
    BY <1>3, <2>2 DEF Level
  <2>5. AtWork(r)'
    BY <1>1, <1>2, <1>3, <2>1, <2>2, <2>4 DEF AtWork, WholeOnly, Office, Shown, Settled
  <2>6. Thread(r)'
    BY <1>3, <2>2, <2>5 DEF Thread, ThreadTypes, Entering, Queued, Through
  <2> QED
    BY <1>3, <2>3, <2>6, Onwards
<1> QED
  BY <1>4, <1>5

LEMMA TextGrows ==
    ASSUME ReadInv, NEW r \in Regions, at[r].pc \in Busy
    PROVE  IsText(Wanted(r)) /\ Wanted(r) # <<>>
<1>1. PICK S : at[r].text \in Seq(S)
  BY DEF ReadInv, Thread, AtWork, IsText
<1> PICK x : x = Head(at[r].left)
  OBVIOUS
<1>2. at[r].text \in Seq(S \cup {x})
  BY <1>1, SeqMonotonic
<1>3. Append(at[r].text, x) \in Seq(S \cup {x}) /\ Append(at[r].text, x) # <<>>
  BY <1>2
<1> QED
  BY <1>3 DEF IsText, Wanted

LEMMA CachedKeeps == ASSUME ReadInv, NEW r \in Regions, Cached(r), UNCHANGED <<pass, status>> PROVE ReadInv'
<1>1. at[r].pc \in Busy /\ UNCHANGED <<mode, file, level, cache, short>>
  BY DEF Cached, Busy, routeVars
<1>2. OneText(at[r].piece)
  BY <1>1 DEF OneText, ReadInv, Maps
<1> QED
  BY <1>1, <1>2, TextGrows, Having DEF Cached

LEMMA AnswerKeeps == ASSUME ReadInv, NEW r \in Regions, Answer(r), UNCHANGED <<pass, status>> PROVE ReadInv'
<1>1. at[r].pc \in Busy /\ UNCHANGED <<mode, file, level>>
  BY DEF Answer, Busy, routeVars
<1>2. PICK p \in Pieces : p = at[r].piece
  BY DEF Answer, ReadInv, Thread, ThreadTypes, Waiting, Entering, Trying
<1>3. AtWork(r)
  BY DEF ReadInv, Thread
<1>4. cache' = [cache EXCEPT ![p] = @ \cup {Wanted(r)}]
  BY <1>2 DEF Answer, Answered
<1>5. short' = [short EXCEPT ![p] = @ \cup {Wanted(r)}] \/ UNCHANGED short
  BY <1>2 DEF Answer
<1>6. Office => UNCHANGED short
  <2> SUFFICES ASSUME Office PROVE UNCHANGED short
    OBVIOUS
  <2>1. ~IsField(r)
    BY <1>1, <1>3 DEF AtWork, Office, IsField, ReadInv, Files, Shown
  <2>2. at[r].text = <<>>
    BY <1>1, <1>3 DEF AtWork
  <2>3. ~(Len(at[r].text) > 0)
    BY <2>2
  <2> QED
    BY <2>1, <2>3 DEF Answer
<1>7. OneText(at[r].piece) /\ Wanted(r) \in cache'[at[r].piece]
  BY <1>2, <1>4, <1>5, <1>6 DEF OneText, ReadInv, Maps
<1> QED
  BY <1>1, <1>7, TextGrows, Having DEF Answer

-----------------------------------------------------------------------------
(* A thread takes up its next piece, or finds that both halves of one are  *)
(* settled.                                                                *)
LEMMA PickKeeps == ASSUME ReadInv, NEW r \in Regions, Pick(r), UNCHANGED <<pass, status>> PROVE ReadInv'
<1>1. /\ at[r].pc \in Busy \cup {"next"} /\ UNCHANGED <<mode, file, cache, level>>
      /\ r \in Shown /\ ~Settled(<<r>>)
  BY DEF Pick, routeVars, ReadInv, Thread, Queued
<1> PICK p : p = FirstUnsettled(r)
  OBVIOUS
<1>2. /\ p \in Pieces /\ p[1] = r /\ ~Settled(p)
      /\ Len(p) > 1 => HasHalves(<<r>>)
  BY <1>1, NextPiece
<1>3. (Len(p) = 1 => p = <<r>>) /\ (Len(p) # 1 => p # <<r>>)
  BY <1>2, PieceParts
<1>4. WholeOnly(r) => p = <<r>> /\ ~HasHalves(p)
  <2> SUFFICES ASSUME WholeOnly(r) PROVE p = <<r>> /\ ~HasHalves(p)
    OBVIOUS
  <2>1. ~HasHalves(<<r>>) /\ ~HasHalves(p)
    BY <1>2, WholePieces DEF HasHalves, WholeOnly
  <2> QED
    BY <1>2, <2>1, LongPieces
<1>5. saved = [q \in Pieces |-> saved[q]] /\ short = [q \in Pieces |-> short[q]]
  BY DEF ReadInv, Maps
<1>6. CASE HasHalves(p)
  <2>1. ~WholeOnly(r) /\ ~Office
    BY <1>4, <1>6 DEF WholeOnly
  <2>2. PICK new : Step(r, new) /\ new = [pc |-> IF Len(p) = 1 THEN "done" ELSE "next"]
    BY <1>6 DEF Pick
  <2>3. saved' = [saved EXCEPT ![p] = <<"halves">>]
    BY <1>6 DEF Pick
  <2>4. short' = [short EXCEPT ![p] = @ \cup {<<"halves">>}] \/ UNCHANGED short
    BY <1>6 DEF Pick
  <2>5. /\ saved' = [q \in Pieces |-> saved'[q]] /\ \A q \in Pieces \ {p} : saved'[q] = saved[q]
        /\ saved'[p] # <<>>
    BY <1>2, <1>5, <2>3
  <2>6. /\ short' = [q \in Pieces |-> short'[q]] /\ \A q \in Pieces \ {p} : short'[q] = short[q]
    BY <1>2, <1>5, <2>4
  <2>7. Maps'
    BY <1>1, <2>5, <2>6 DEF ReadInv, Maps
  <2>8. OwnTexts'
    BY <1>1, <1>2, <2>1, <2>5 DEF ReadInv, OwnTexts, WholeOnly, Office
  <2>9. Elsewhere(r)
    BY <1>1, <1>2, <2>5, <2>6 DEF Elsewhere, Level
  <2>10. new \in Waiting /\ new.pc \in {"done", "next"} /\ at'[r] = new
    <3>1. new = [pc |-> "done"] \/ new = [pc |-> "next"]
      BY <2>2
    <3> QED
      BY <2>2, <3>1 DEF Waiting, Step, ReadInv
  <2>11. CASE Len(p) = 1
    <3>1. new.pc = "done" /\ Settled(<<r>>)'
      BY <1>3, <2>2, <2>5, <2>11 DEF Settled
    <3>2. Thread(r)'
      BY <1>1, <2>1, <2>10, <3>1 DEF Thread, ThreadTypes, AtWork, Queued, Through, WholeOnly, Office, Busy
    <3> QED
      BY <1>1, <2>2, <2>7, <2>8, <2>9, <3>2, Onwards
  <2>12. CASE Len(p) # 1
    <3>1. new.pc = "next" /\ ~Settled(<<r>>)'
      BY <1>1, <1>3, <2>2, <2>5, <2>12, WholePieces DEF Settled
    <3>2. Thread(r)'
      BY <1>1, <2>10, <3>1 DEF Thread, ThreadTypes, AtWork, Queued, Through, Shown, Busy
    <3> QED
      BY <1>1, <2>2, <2>7, <2>8, <2>9, <3>2, Onwards
  <2> QED
    BY <2>11, <2>12
<1>7. CASE ~HasHalves(p)
  <2>1. UNCHANGED <<saved, short>>
    BY <1>7 DEF Pick
  <2>2. PICK new : Step(r, new) /\ new = Fresh(p, <<>>)
    BY <1>7 DEF Pick
  <2>3. /\ new \in Entering(new) /\ new.pc \in Busy /\ new.piece = p /\ new.text = <<>>
        /\ at'[r] = new
    BY <1>2, <2>2 DEF Entering, Fresh, Routes, Busy, Step, ReadInv
  <2>4. Level(p, Draft) \in Nat
    BY DEF Level, ReadInv, Maps
  <2>5. mode = "direct" /\ ~WholeOnly(r) /\ Len(p) <= MaxDepth => Level(p, Draft) < SplitLevel
    <3> SUFFICES ASSUME mode = "direct", ~WholeOnly(r), Len(p) <= MaxDepth PROVE Level(p, Draft) < SplitLevel
      OBVIOUS
    <3>1. ~(Doublings(p, Draft) >= SplitLevel)
      BY <1>2, <1>7 DEF HasHalves, WholeOnly, Draft
    <3>2. Doublings(p, Draft) = Level(p, Draft)
      BY DEF Doublings
    <3>3. SplitLevel \in Nat
      BY ReadingAssumption
    <3> QED
      BY <2>4, <3>1, <3>2, <3>3
  <2>6. Level(at[r].piece, Draft)' = Level(p, Draft)
    BY <1>1, <2>3 DEF Level
  <2>7. IsText(<<>>)
    BY DEF IsText
  <2>8. AtWork(r)'
    BY <1>1, <1>2, <1>4, <2>1, <2>3, <2>5, <2>6, <2>7 DEF AtWork, WholeOnly, Office, Shown, Settled
  <2>9. Thread(r)'
    BY <2>3, <2>8 DEF Thread, ThreadTypes, Entering, Queued, Through
  <2>10. Maps' /\ OwnTexts' /\ Elsewhere(r)
    BY <1>1, <2>1 DEF ReadInv, Maps, OwnTexts, Elsewhere, WholeOnly, Office, Level
  <2> QED
    BY <1>1, <2>2, <2>9, <2>10, Onwards
<1> QED
  BY <1>6, <1>7

-----------------------------------------------------------------------------
(* The passes.                                                             *)
LEMMA Rests ==
    ASSUME ReadInv, UNCHANGED <<mode, file, cache, level, short, saved>>, NEW q \in Regions,
           at'[q] = at[q] \/ at'[q] = Idle
    PROVE  Thread(q)'
<1>1. CASE at'[q] = at[q]
  BY <1>1 DEF ReadInv, Thread, ThreadTypes, Entering, Trying, AtWork, Queued, Through, WholeOnly, Office, Shown, Settled, Level
<1>2. CASE at'[q] = Idle
  BY <1>2 DEF Idle, Thread, ThreadTypes, Waiting, AtWork, Queued, Through, Busy
<1> QED
  BY <1>1, <1>2

LEMMA PassKeeps == ASSUME ReadInv, StartPass \/ EndPass \/ Crash PROVE ReadInv'
<1>1. UNCHANGED <<mode, file, cache, level, short, saved>>
  BY DEF StartPass, EndPass, Crash, routeVars
<1>2. Maps' /\ OwnTexts' /\ file' \in Files
  BY <1>1 DEF ReadInv, Maps, OwnTexts, WholeOnly, Office
<1>3. CASE StartPass
  <2>1. /\ status = "open" /\ UNCHANGED status
        /\ at' = [r \in Regions |-> [pc |-> IF r \notin Shown \/ Settled(<<r>>) THEN "kept" ELSE "next"]]
    BY <1>3 DEF StartPass
  <2>2. ASSUME NEW q \in Regions PROVE Thread(q)'
    <3>1. CASE q \notin Shown \/ Settled(<<q>>)
      <4>1. at'[q] = [pc |-> "kept"]
        BY <2>1, <3>1
      <4> QED
        BY <1>1, <3>1, <4>1 DEF Thread, ThreadTypes, Waiting, AtWork, Queued, Through, Busy, Shown, Settled
    <3>2. CASE ~(q \notin Shown \/ Settled(<<q>>))
      <4>1. at'[q] = [pc |-> "next"]
        BY <2>1, <3>2
      <4> QED
        BY <1>1, <3>2, <4>1 DEF Thread, ThreadTypes, Waiting, AtWork, Queued, Through, Busy, Shown, Settled
    <3> QED
      BY <3>1, <3>2
  <2>3. Ends'
    BY <2>1 DEF Ends
  <2> QED
    BY <1>2, <2>1, <2>2, <2>3 DEF ReadInv
<1>4. CASE EndPass
  <2>1. /\ status = "open" /\ ~pass' /\ Now(Busy) = {} /\ (Halted \/ Now({"next"}) = {})
    BY <1>4 DEF EndPass, ReadInv, Ends
  <2>2. \/ status' = "failed" /\ UNCHANGED at
        \/ status' = "open" /\ at' = [r \in Regions |-> Idle]
        \/ /\ Now({"broke"}) = {} /\ Now({"deferred"}) = {} /\ UNCHANGED at
           /\ status' = IF AllDescribed /\ Gaps = {} THEN "ready" ELSE "partial"
    BY <1>4, <2>1 DEF EndPass, Deferred
  <2>3. at' = [r \in Regions |-> at'[r]] /\ \A q \in Regions : Thread(q)'
    BY <1>1, <2>2, Rests DEF ReadInv
  <2>4. Ends'
    <3>1. CASE status' \notin {"ready", "partial"}
      BY <2>1, <3>1 DEF Ends
    <3>2. CASE status' \in {"ready", "partial"}
      <4>1. /\ Now({"broke"}) = {} /\ Now({"deferred"}) = {} /\ UNCHANGED at
            /\ status' = "ready" => AllDescribed /\ Gaps = {}
        BY <2>2, <3>2
      <4>2. ~Halted
        BY <4>1, ReadingAssumption DEF Halted, Now
      <4>3. Now(Busy \cup {"next", "deferred"}) = {}
        BY <2>1, <4>1, <4>2 DEF Now
      <4>4. /\ Now(Busy \cup {"next", "deferred"})' = {} /\ (AllDescribed => AllDescribed') /\ Gaps' = Gaps
        BY <1>1, <4>1, <4>3 DEF Now, AllDescribed, Gaps
      <4> QED
        BY <2>1, <4>1, <4>4 DEF Ends
    <3> QED
      BY <3>1, <3>2
  <2> QED
    BY <1>2, <2>3, <2>4 DEF ReadInv
<1>5. CASE Crash
  <2>1. /\ status = "open" /\ UNCHANGED status /\ at' = [r \in Regions |-> Idle]
    BY <1>5 DEF Crash, ReadInv, Ends
  <2>2. \A q \in Regions : Thread(q)'
    BY <1>1, <2>1, Rests
  <2>3. Ends'
    BY <2>1 DEF Ends
  <2> QED
    BY <1>2, <2>1, <2>2, <2>3 DEF ReadInv
<1> QED
  BY <1>3, <1>4, <1>5

LEMMA ReadStays ==
    ASSUME ReadInv, UNCHANGED <<mode, visionVars, pass, status>>
    PROVE  ReadInv'
<1>1. UNCHANGED <<mode, file, cache, level, short, saved, at, pass, status>>
  BY DEF visionVars
<1>2. \A q \in Regions : Thread(q)'
  BY <1>1, Rests
<1>3. Ends'
  BY <1>1 DEF ReadInv, Ends, Now, AllDescribed, Gaps
<1> QED
  BY <1>1, <1>2, <1>3 DEF ReadInv, Maps, OwnTexts, WholeOnly, Office

LEMMA ReadInit == Init => ReadInv
<1> SUFFICES ASSUME Init PROVE ReadInv
  OBVIOUS
<1>1. file \in Files /\ at = [r \in Regions |-> Idle] /\ status = "open" /\ ~pass
  BY DEF Init, VisionInit
<1>2. \A r \in Regions : Thread(r)
  BY <1>1 DEF Idle, Thread, ThreadTypes, Waiting, AtWork, Queued, Through, Busy
<1>3. Maps /\ OwnTexts
  BY DEF Init, VisionInit, Maps, OwnTexts
<1>4. Ends
  BY <1>1 DEF Ends
<1> QED
  BY <1>1, <1>2, <1>3, <1>4 DEF ReadInv

LEMMA ReadNext == ReadInv /\ [Next]_vars => ReadInv'
<1> SUFFICES ASSUME ReadInv, [Next]_vars PROVE ReadInv'
  OBVIOUS
<1>1. CASE StartPass \/ EndPass \/ Crash
  BY <1>1, PassKeeps
<1>2. CASE Clock
  BY <1>2, ReadStays DEF Clock, Tick, NewDay
<1>3. CASE Read
  <2>1. PICK r \in Regions :
           \/ Enter(r) \/ Cached(r) \/ Ask(r) \/ Answer(r) \/ Truncate(r)
           \/ Unavailable(r) \/ Denied(r) \/ LeaveRoute(r) \/ Pick(r)
    BY <1>3 DEF Read, VisionNext
  <2>2. UNCHANGED <<pass, status>>
    BY <1>3 DEF Read
  <2> QED
    BY <2>1, <2>2, EnterKeeps, CachedKeeps, AskKeeps, AnswerKeeps, TruncateKeeps, UnavailableKeeps, DeniedKeeps, LeaveRouteKeeps, PickKeeps
<1>4. CASE UNCHANGED vars
  BY <1>4, ReadStays DEF vars, routeVars
<1> QED
  BY <1>1, <1>2, <1>3, <1>4 DEF Next

(* ReadInv always holds: in every pass and after every crash.              *)
THEOREM ReadingInvariant == Spec => []ReadInv
<1>1. Init => ReadInv
  BY ReadInit
<1>2. ReadInv /\ [Next]_vars => ReadInv'
  BY ReadNext
<1> QED
  BY <1>1, <1>2, PTL DEF Spec

-----------------------------------------------------------------------------
(* A file that is called ready has all of its regions and fields read and  *)
(* every number accounted for, however many passes, models, halves and     *)
(* crashes it took (enrich_pdf and the Office readers).                    *)
THEOREM ReadyFilesAreRead == Spec => []ReadyIsRead
<1>1. ASSUME ReadInv PROVE ReadyIsRead
  <2> SUFFICES ASSUME status = "ready", NEW r \in Shown
               PROVE  /\ WholeOnly(r) => cache[<<r>>] \ short[<<r>>] # {}
                      /\ ~WholeOnly(r) => Settled(<<r>>) /\ saved[<<r>>] \notin short[<<r>>]
    BY DEF ReadyIsRead, WholeOnly, IsField
  <2>1. AllDescribed /\ Gaps = {}
    BY <1>1 DEF ReadInv, Ends
  <2>2. r \in Regions
    BY <1>1, ReadingAssumption DEF ReadInv, Files, Shown
  <2>3. Thread(r) /\ at[r].pc \in {"done", "kept"}
    BY <1>1, <2>1, <2>2 DEF ReadInv, AllDescribed, Now
  <2>4. saved[<<r>>] \notin short[<<r>>]
    BY <2>1, <2>2 DEF Gaps
  <2>5. WholeOnly(r) => ~Settled(<<r>>)
    BY <1>1, <2>2, WholePieces DEF ReadInv, OwnTexts, Settled
  <2> QED
    BY <2>3, <2>4, <2>5 DEF Thread, Through
<1> QED
  BY <1>1, ReadingInvariant, PTL

(* A PDF does not end with a region given up because no route could answer *)
(* or the day's share was spent (VisionDeferred).                          *)
THEOREM PdfsWait == Spec => []PdfWaitsForRecovery
<1>1. ReadInv => PdfWaitsForRecovery
  BY DEF ReadInv, Ends, Now, PdfWaitsForRecovery, WaitsForRecovery, Thread, Through
<1> QED
  BY <1>1, ReadingInvariant, PTL

(* A region that was cut off too often is not asked for as a whole again   *)
(* (transcribe).                                                           *)
THEOREM CutOffRegionsAreHalved == Spec => []HalvedWhenCutOff
<1>1. ASSUME ReadInv PROVE HalvedWhenCutOff
  <2> SUFFICES ASSUME mode = "direct", NEW r \in Now({"asked"}),
                      Len(at[r].piece) <= MaxDepth, ~Office, ~IsField(r)
               PROVE  Level(at[r].piece, <<Head(Primary)>>) < SplitLevel
    BY DEF HalvedWhenCutOff
  <2>1. r \in Regions /\ at[r].pc \in Busy
    BY DEF Now, Busy
  <2> QED
    BY <1>1, <2>1 DEF ReadInv, Thread, AtWork, WholeOnly, Draft
<1> QED
  BY <1>1, ReadingInvariant, PTL

(* While the primary is left alone, the time until which it is does not    *)
(* move (provider_health.py, start_failover).                              *)
THEOREM TheWindowIsFixed == Spec => FailoverWindowFixed
<1>1. ASSUME [Next]_vars, Switched PROVE switched' = switched
  <2>1. CASE StartPass \/ EndPass \/ Crash \/ Clock
    BY <2>1 DEF StartPass, EndPass, Crash, Clock, Tick, NewDay, routeVars
  <2>2. CASE Read
    <3>1. PICK r \in Regions :
             \/ Enter(r) \/ Cached(r) \/ Ask(r) \/ Answer(r) \/ Truncate(r)
             \/ Unavailable(r) \/ Denied(r) \/ LeaveRoute(r) \/ Pick(r)
      BY <2>2 DEF Read, VisionNext
    <3>2. CASE LeaveRoute(r)
      BY <1>1, <3>2 DEF LeaveRoute, StartFailover
    <3> QED
      BY <3>1, <3>2 DEF Enter, Cached, Ask, Answer, Truncate, Unavailable, Denied, Pick, routeVars
  <2> QED
    BY <1>1, <2>1, <2>2 DEF Next, vars, routeVars
<1> QED
  BY <1>1, PTL DEF Spec, FailoverWindowFixed
=============================================================================
