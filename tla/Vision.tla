------------------------------- MODULE Vision -------------------------------
(***************************************************************************)
(* Reading one picture with a model (vision.py: _describe, _describe_once, *)
(* _vision_call, transcribe).                                              *)
(*                                                                         *)
(* A region of a PDF page takes a draft, a review of the draft and, when   *)
(* numbers are missing from it, one repair; a picture of an Office file    *)
(* takes one description, and so do the fields by which a drawing is       *)
(* looked up, which are read before anything else of the PDF.  A text is   *)
(* known by the models that made it: the draft of m is <<m>>, its review   *)
(* by n is <<m, n>>.  A region too long to be answered is read as two      *)
(* halves: a piece is a region and the halves that lead to it.             *)
(***************************************************************************)
EXTENDS Providers, FiniteSets

CONSTANTS
    Kinds,            \* formats to explore: "pdf", "word", "excel", "ppt", "image"
    Regions,          \* regions (pictures), at most five
    Layouts,          \* which of them hold text: the files to explore
    Drawings,         \* those with numbers of their own to compare with
    Fields,           \* title blocks and lists by which a drawing is looked up
    PassLimit,        \* requests one pass may start: min(limit, 10)
    SplitLevel,       \* doublings of the output space after which to halve
    TopLevel,         \* doublings until the output space is at its maximum
    MaxDepth,         \* how often a region may be halved (3 in the code)
    MaxTrouble        \* bound: requests that bring no text

ASSUME ReadingAssumption ==
    /\ Kinds \subseteq {"pdf", "word", "excel", "ppt", "image"}
    /\ Layouts \subseteq SUBSET Regions /\ Fields \subseteq Regions
    /\ Drawings \subseteq Regions \ Fields
    /\ {PassLimit, SplitLevel, TopLevel} \subseteq Nat \ {0}
    /\ MaxDepth \in Nat /\ MaxTrouble \in Nat

VARIABLES
    file,             \* what it is, and the regions with text in it
    cache,            \* summaries: the texts known of each piece
    level,            \* output_budgets: doublings so far, where there were any
    short,            \* texts that leave out numbers of the drawing
    saved,            \* pdf_regions: the text settled for each piece, or <<>>
    started,          \* requests, new_images: what this pass has started
    at,               \* what the thread of each region is doing
    trouble           \* requests so far that brought no text

visionVars == <<file, cache, level, short, saved, started, at, trouble>>

Pieces == UNION {{<<r>> \o half : half \in BoundedSeq(1 .. 2, MaxDepth)} : r \in Regions}

(* Only a PDF has fields; an image is its own and only picture.            *)
Files ==
    {f \in [kind : Kinds, shown : Layouts] :
        /\ f.kind # "pdf" => f.shown \cap Fields = {}
        /\ f.kind = "image" => Cardinality(f.shown) = 1}

Office == file.kind # "pdf"
Shown == file.shown
IsField(r) == r \in Fields

Idle == [pc |-> "idle"]
NoneStarted == [fields |-> 0, regions |-> 0]
Fresh(p, text) == [pc |-> "enter", route |-> "primary", piece |-> p, text |-> text]

VisionInit ==
    /\ file \in Files
    /\ cache = [p \in Pieces |-> {}]
    /\ level = <<>>
    /\ short = [p \in Pieces |-> {}]
    /\ saved = [p \in Pieces |-> <<>>]
    /\ started = NoneStarted /\ trouble = 0
    /\ at = [r \in Regions |-> Idle]

(* transcribe looks the output space up under a key without the reasoning  *)
(* effort, under which managed mode never stores it.                       *)
Level(p, t) == IF <<p, t>> \in DOMAIN level THEN level[<<p, t>>] ELSE 0
Doublings(p, t) == IF mode = "managed" THEN 0 ELSE Level(p, t)

HasHalves_Beyond(p) == ~Office /\ ~IsField(p[1]) /\ Len(p) <= MaxDepth
                       /\ Doublings(p, <<Head(Primary)>>) > SplitLevel
HasHalves(p) ==
    LET draft == <<Head(Primary)>> IN
    /\ ~Office /\ ~IsField(p[1]) /\ Len(p) <= MaxDepth
    /\ \/ Doublings(p, draft) >= SplitLevel
       \/ draft \in cache[p] /\ Doublings(p, draft \o draft) >= SplitLevel

Halves(p) == {Append(p, i) : i \in 1 .. 2}
Settled(p) == saved[p] # <<>>

(* The piece a thread of region r reads next: halves before the whole, the *)
(* first half before the second.                                           *)
FirstUnsettled(r) ==
    CHOOSE p \in Pieces :
        /\ p[1] = r /\ ~Settled(p)
        /\ ~HasHalves(p) \/ \A h \in Halves(p) : Settled(h)
        /\ \A i \in 1 .. Len(p) - 1 :
              LET q == SubSeq(p, 1, i) IN
              HasHalves(q) /\ ~Settled(q) /\ (p[i + 1] = 2 => Settled(Append(q, 1)))

Busy == {"enter", "try", "asked", "retry"}

Step(r, change) == at' = [at EXCEPT ![r] = change]
Defer(r) == Step(r, [pc |-> "deferred"])
Fail(r) == Step(r, [pc |-> "failed"])

(* An Office reader goes on with the next picture whatever was raised.     *)
Skip(r) == Step(r, [pc |-> "skipped"])
Wait(r) == IF Office THEN Skip(r) ELSE Defer(r)

(* The day is spent: no text is returned, on which the reader of a Word    *)
(* file looks at no further figure.                                        *)
Stop(r) == at' = [q \in Regions |-> IF q = r \/ at[q].pc = "next" THEN [pc |-> "skipped"] ELSE at[q]]
NoShare(r) == IF file.kind = "word" THEN Stop(r) ELSE Wait(r)

(* _describe: the primary route, unless it is switched off, then the       *)
(* backup.                                                                 *)
Enter(r) ==
    /\ at[r].pc = "enter"
    /\ LET skip  == mode = "managed" /\ at[r].route = "primary" /\ Switched
           route == IF skip THEN "fallback" ELSE at[r].route
       IN  Step(r, [pc |-> "try", route |-> route, piece |-> at[r].piece, text |-> at[r].text,
                    left |-> Walk(route), again |-> mode = "direct"])
    /\ UNCHANGED <<routeVars, file, cache, level, short, saved, started, trouble>>

Wanted(r) == Append(at[r].text, Head(at[r].left))

(* One text more is known of the piece: go on to its review, its repair,   *)
(* or settle it ("one source-bound correction pass, never an unbounded     *)
(* accuracy retry loop").                                                  *)
Complete(p, t) == Office \/ IsField(p[1]) \/ Len(t) = 3 \/ (Len(t) = 2 /\ t \notin short'[p])

(* A field of which the model says that it cannot be read.                 *)
Unclear(r, t) == IsField(r) /\ t \in short'[<<r>>]

Have(r, t) ==
    LET p == at[r].piece IN
    IF Complete(p, t)
    THEN /\ saved' = IF Office \/ IsField(r) THEN saved ELSE [saved EXCEPT ![p] = t]
         /\ Step(r, [pc |-> IF Len(p) > 1 THEN "next" ELSE IF Unclear(r, t) THEN "unclear" ELSE "done"])
    ELSE /\ Step(r, Fresh(p, t))
         /\ UNCHANGED saved

Cached(r) ==
    /\ at[r].pc = "try" /\ at[r].left # <<>>
    /\ Wanted(r) \in cache[at[r].piece]
    /\ UNCHANGED <<routeVars, file, cache, level, short, started, trouble>>
    /\ Have(r, Wanted(r))

(* before_field_call and before_call count the requests of a pass and,     *)
(* before a draft, look at the clock; the day's share is reserved next.  A *)
(* retry in direct mode counts for the day only.                           *)
Part(r) == IF IsField(r) THEN "fields" ELSE "regions"
Full(r) == started[Part(r)] >= PassLimit
Late(r) == at[r].text = <<>> /\ started[Part(r)] > 0

Ask(r) ==
    /\ at[r].pc \in {"try", "retry"} /\ at[r].left # <<>>
    /\ Wanted(r) \notin cache[at[r].piece]
    /\ UNCHANGED <<mode, now, resting, switched, file, cache, level, short, saved, trouble>>
    /\ LET slice == ~Office /\ at[r].pc = "try" IN
       \/ /\ slice /\ (Full(r) \/ Late(r))
          /\ Defer(r) /\ UNCHANGED <<calls, started>>
       \/ /\ ~(slice /\ Full(r)) /\ DaySpent
          /\ NoShare(r) /\ UNCHANGED <<calls, started>>
       \/ /\ ~(slice /\ Full(r)) /\ ~DaySpent
          /\ Step(r, [at[r] EXCEPT !.pc = "asked"])
          /\ started' = IF slice THEN [started EXCEPT ![Part(r)] = @ + 1] ELSE started
          /\ Reserve

(* Numbers of the drawing's own are known for a whole region only.         *)
Numbered(p) == p[1] \in Drawings /\ Len(p) = 1

(* The model answers; whether numbers are missing is seen in the text.     *)
Answered_Forgotten(r) == UNCHANGED cache
Answered(r) == cache' = [cache EXCEPT ![at[r].piece] = @ \cup {Wanted(r)}]

Answer(r) ==
    /\ at[r].pc = "asked"
    /\ Answered(r)
    /\ \E gap \in IF IsField(r) \/ (Numbered(at[r].piece) /\ Len(at[r].text) > 0)
                  THEN BOOLEAN ELSE {FALSE} :
          short' = IF gap THEN [short EXCEPT ![at[r].piece] = @ \cup {Wanted(r)}] ELSE short
    /\ UNCHANGED <<routeVars, file, level, started, trouble>>
    /\ Have(r, Wanted(r))

Troubled == trouble < MaxTrouble /\ trouble' = trouble + 1

(* finish_reason "length": the next request gets twice the space; at the   *)
(* maximum the region is given up.  Only direct mode repeats at once, and  *)
(* only below the level at which the region is halved.                     *)
Truncate(r) ==
    /\ at[r].pc = "asked" /\ Troubled
    /\ LET p == at[r].piece
           t == Wanted(r)
           l == Level(p, t)
       IN  /\ level' = IF l < TopLevel
                       THEN [q \in DOMAIN level \cup {<<p, t>>} |-> IF q = <<p, t>> THEN l + 1 ELSE level[q]]
                       ELSE level
           /\ IF l < TopLevel /\ at[r].again /\ (Office \/ l + 1 < SplitLevel)
              THEN Step(r, [at[r] EXCEPT !.pc = "retry", !.again = FALSE])
              ELSE IF l < TopLevel /\ ~Office THEN Defer(r) ELSE Fail(r)
    /\ UNCHANGED <<routeVars, file, cache, short, saved, started>>

(* No answer: the model rests and the next one is tried; direct mode tries *)
(* it once more first.  The cap lets the rest end within the instance.     *)
Unavailable(r) ==
    /\ at[r].pc = "asked" /\ Troubled /\ now + RestTicks <= MaxNow
    /\ IF mode = "managed" THEN Rest({Head(at[r].left)}) ELSE UNCHANGED resting
    /\ Step(r, IF at[r].again THEN [at[r] EXCEPT !.pc = "retry", !.again = FALSE]
               ELSE [at[r] EXCEPT !.pc = "try", !.left = Tail(@), !.again = mode = "direct"])
    /\ UNCHANGED <<mode, now, switched, calls, file, cache, level, short, saved, started>>

(* The key is refused or out of credit: every model of the route rests.    *)
(* In direct mode the region fails, or (VisionQuotaError) the whole file.  *)
Denied(r) ==
    /\ at[r].pc = "asked" /\ Troubled /\ now + RestTicks <= MaxNow
    /\ IF mode = "managed"
       THEN Rest(ToSet(Pool[at[r].route])) /\ Step(r, [at[r] EXCEPT !.pc = "try", !.left = <<>>])
       ELSE /\ UNCHANGED resting
            /\ Fail(r) \/ (~Office /\ Step(r, [pc |-> "broke"]))
    /\ UNCHANGED <<mode, now, switched, calls, file, cache, level, short, saved, started>>

(* Nothing left to try: switch the primary off and go to the backup, or    *)
(* give up for now.                                                        *)
LeaveRoute(r) ==
    /\ at[r].pc = "try" /\ at[r].left = <<>>
    /\ IF mode = "managed" /\ at[r].route = "primary"
       THEN StartFailover /\ Step(r, [Fresh(at[r].piece, at[r].text) EXCEPT !.route = "fallback"])
       ELSE UNCHANGED switched /\ Wait(r)
    /\ UNCHANGED <<mode, now, resting, calls, file, cache, level, short, saved, started, trouble>>

(* The fields of a drawing and Office pictures are read one by one, the    *)
(* regions of a page side by side once the fields are through.             *)
Alone(r) == \A q \in Regions \ {r} : at[q].pc \notin Busy
Halted == \E f \in Shown \cap Fields : at[f].pc \in {"deferred", "broke"}
FieldsRead == ~Halted /\ \A f \in Shown \cap Fields : at[f].pc \notin Busy \cup {"next"}

(* transcribe picks its piece; both halves settled make the whole.         *)
Pick(r) ==
    /\ at[r].pc = "next" /\ ~Halted
    /\ IF Office \/ IsField(r) THEN Alone(r) ELSE FieldsRead
    /\ LET p == FirstUnsettled(r) IN
       IF HasHalves(p)
       THEN \E gap \in IF Numbered(p) THEN BOOLEAN ELSE {FALSE} :
              /\ saved' = [saved EXCEPT ![p] = <<"halves">>]
              /\ short' = IF gap THEN [short EXCEPT ![p] = @ \cup {<<"halves">>}] ELSE short
              /\ Step(r, [pc |-> IF Len(p) = 1 THEN "done" ELSE "next"])
       ELSE Step(r, Fresh(p, <<>>)) /\ UNCHANGED <<saved, short>>
    /\ UNCHANGED <<routeVars, file, cache, level, started, trouble>>

VisionNext ==
    \E r \in Regions :
        \/ Enter(r) \/ Cached(r) \/ Ask(r) \/ Answer(r) \/ Truncate(r)
        \/ Unavailable(r) \/ Denied(r) \/ LeaveRoute(r) \/ Pick(r)
=============================================================================
