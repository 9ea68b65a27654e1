------------------------------- MODULE Native -------------------------------
(***************************************************************************)
(* The native text of a PDF (worker.py: _pdf_base, _parse_segmented,       *)
(* retry).  A short one is parsed as a whole; a long one, and one that     *)
(* takes too long, by ranges of pages.  What is parsed is kept in files,   *)
(* one per range and one for the whole, which nothing locks: an executor   *)
(* that lost its lease works on beside the one that has claimed the job    *)
(* since, and an explicit retry removes the files under both.              *)
(***************************************************************************)
EXTENDS Naturals

CONSTANTS
    Readers,          \* executors, each with one claim of the job
    Ranges,           \* page ranges 1 .. Ranges
    Parsers,          \* parser versions
    ParserOf,         \* the one each executor runs
    Compatible,       \* <<saved, current>>: versions that read alike
    MaxRetries        \* bound: explicit retries

ASSUME NativeAssumption ==
    /\ Ranges \in Nat \ {0}
    /\ ParserOf \in [Readers -> Parsers]
    /\ Compatible \subseteq Parsers \X Parsers
    /\ MaxRetries \in Nat

VARIABLES
    long,             \* the document has 16 pages or more
    disk,             \* the checkpoint files: of each range, and 0 of the whole
    reader,           \* what each executor is doing
    retries,          \* explicit retries so far
    removing,         \* one is between its two removals
    overtaken         \* history: one of them met an executor at work

nativeVars == <<long, disk, reader, retries, removing, overtaken>>

NoFile == [text |-> "none"]
TornFile == [text |-> "torn"]
Json(parser, status, since, gap) ==
    [text |-> "json", parser |-> parser, status |-> status, since |-> since, gap |-> gap]

NativeInit ==
    /\ long \in BOOLEAN
    /\ disk = [f \in 0 .. Ranges |-> NoFile]
    /\ reader = [e \in Readers |-> [pc |-> "waiting"]]
    /\ retries = 0 /\ removing = FALSE /\ overtaken = FALSE

(* pc: start, whole, range, keep, keeping, write, writing, clear; then     *)
(* done or failed.  range, status, some: what is merged so far;      *)
(* since, gap (history): how many retries its oldest part has seen, and    *)
(* whether a part of the document is missing.                              *)
Go(e, change) == reader' = [reader EXCEPT ![e] = change]
At(e, pc) == reader[e].pc = pc
AtWork == {e \in Readers : reader[e].pc \notin {"waiting", "done", "failed"}}

Claim(e) ==
    /\ At(e, "waiting")
    /\ Go(e, [pc |-> "start", after |-> retries, range |-> 1,
              status |-> "ready", since |-> retries, gap |-> FALSE, some |-> FALSE, own |-> NoFile])
    /\ overtaken' = (overtaken \/ removing)
    /\ UNCHANGED <<long, disk, retries, removing>>

(* _native_checkpoint_matches: of this parser, or of one that reads alike; *)
(* a torn file is parsed again.                                            *)
Usable(f, e) ==
    /\ disk[f].text = "json"
    /\ \/ disk[f].parser = ParserOf[e]
       \/ <<disk[f].parser, ParserOf[e]>> \in Compatible

Base(e, status, since, gap) ==
    [pc |-> "done", status |-> status, since |-> since, gap |-> gap, after |-> reader[e].after]

Start(e) ==
    /\ At(e, "start")
    /\ Go(e, IF Usable(0, e) THEN Base(e, disk[0].status, disk[0].since, disk[0].gap)
             ELSE [reader[e] EXCEPT !.pc = IF long THEN "range" ELSE "whole"])
    /\ UNCHANGED <<long, disk, retries, removing, overtaken>>

(* The subprocess reads all of a short document, with or without gaps, or  *)
(* fails, or runs out of time.                                             *)
ParseWhole(e) ==
    /\ At(e, "whole")
    /\ \/ \E gap \in BOOLEAN :
            Go(e, [reader[e] EXCEPT !.pc = "write", !.range = 0, !.since = retries, !.gap = gap,
                                    !.status = IF gap THEN "partial" ELSE "ready"])
       \/ Go(e, [pc |-> "failed"])
       \/ Go(e, [reader[e] EXCEPT !.pc = "range"])
    /\ UNCHANGED <<long, disk, retries, removing, overtaken>>

(* A range is through: on to the next one; after the last one write the    *)
(* whole, or fail if there is no text at all.                              *)
Merged_Unread(e, status) == IF At(e, "range") THEN reader[e].status ELSE "partial"
Merged(e, status) == IF status = "ready" THEN reader[e].status ELSE "partial"

Through(e, status, since, gap, text) ==
    LET last == reader[e].range = Ranges
        some == text \/ reader[e].some
    IN  Go(e, IF last /\ ~some THEN [pc |-> "failed"]
              ELSE [reader[e] EXCEPT
                      !.pc = IF last THEN "write" ELSE "range",
                      !.range = IF last THEN 0 ELSE @ + 1,
                      !.status = Merged(e, status),
                      !.since = IF since < @ THEN since ELSE @,
                      !.gap = gap \/ @,
                      !.some = some,
                      !.own = NoFile])

Load(e) ==
    /\ At(e, "range") /\ Usable(reader[e].range, e)
    /\ LET saved == disk[reader[e].range] IN
       Through(e, saved.status, saved.since, saved.gap, TRUE)
    /\ UNCHANGED <<long, disk, retries, removing, overtaken>>

(* The subprocess reads the range, with or without gaps, or fails twice.   *)
Parse(e) ==
    /\ At(e, "range") /\ ~Usable(reader[e].range, e)
    /\ \E gap \in BOOLEAN :
          Go(e, [reader[e] EXCEPT !.pc = "keep",
                   !.own = Json(ParserOf[e], IF gap THEN "partial" ELSE "ready", retries, gap)])
    /\ UNCHANGED <<long, disk, retries, removing, overtaken>>

Miss(e) ==
    /\ At(e, "range") /\ ~Usable(reader[e].range, e)
    /\ Through(e, "failed", retries, TRUE, FALSE)
    /\ UNCHANGED <<long, disk, retries, removing, overtaken>>

(* write_text empties the file, then writes it; if another executor has    *)
(* written it in between, or still does, a mixture may be left.            *)
Truncate(e) ==
    /\ At(e, "keep") \/ At(e, "write")
    /\ disk' = [disk EXCEPT ![reader[e].range] = TornFile]
    /\ Go(e, [reader[e] EXCEPT !.pc = IF At(e, "keep") THEN "keeping" ELSE "writing"])
    /\ UNCHANGED <<long, retries, removing, overtaken>>

Contested(e) ==
    \/ disk[reader[e].range] # TornFile
    \/ \E o \in Readers \ {e} :
          reader[o].pc \in {"keeping", "writing"} /\ reader[o].range = reader[e].range

Put(e, content) ==
    \E left \in {content} \cup (IF Contested(e) THEN {TornFile} ELSE {}) :
        disk' = [disk EXCEPT ![reader[e].range] = left]

KeepRange(e) ==
    /\ At(e, "keeping")
    /\ Put(e, reader[e].own)
    /\ LET own == reader[e].own IN Through(e, own.status, own.since, own.gap, TRUE)
    /\ UNCHANGED <<long, retries, removing, overtaken>>

WriteWhole(e) ==
    /\ At(e, "writing")
    /\ Put(e, Json(ParserOf[e], reader[e].status, reader[e].since, reader[e].gap))
    /\ Go(e, [reader[e] EXCEPT !.pc = "clear"])
    /\ UNCHANGED <<long, retries, removing, overtaken>>

NoSegments == [f \in 0 .. Ranges |-> IF f = 0 THEN disk[0] ELSE NoFile]

Clear(e) ==
    /\ At(e, "clear")
    /\ disk' = NoSegments
    /\ Go(e, Base(e, reader[e].status, reader[e].since, reader[e].gap))
    /\ UNCHANGED <<long, retries, removing, overtaken>>

Crash(e) ==
    /\ e \in AtWork
    /\ Go(e, [pc |-> "failed"])
    /\ UNCHANGED <<long, disk, retries, removing, overtaken>>

(* retry without preserve_progress: the file of the whole is removed, then *)
(* those of the ranges; an executor may claim the job in between.          *)
Removed_Whole == disk
Removed == NoSegments

RemoveWhole ==
    /\ ~removing /\ retries < MaxRetries
    /\ removing' = TRUE
    /\ disk' = [disk EXCEPT ![0] = NoFile]
    /\ overtaken' = (overtaken \/ AtWork # {})
    /\ UNCHANGED <<long, reader, retries>>

RemoveRanges ==
    /\ removing /\ removing' = FALSE
    /\ retries' = retries + 1
    /\ disk' = Removed
    /\ UNCHANGED <<long, reader, overtaken>>

NativeNext ==
    \/ \E e \in Readers :
          \/ Claim(e) \/ Start(e) \/ ParseWhole(e) \/ Load(e) \/ Parse(e) \/ Miss(e) \/ Truncate(e)
          \/ KeepRange(e) \/ WriteWhole(e) \/ Clear(e) \/ Crash(e)
    \/ RemoveWhole
    \/ RemoveRanges

-----------------------------------------------------------------------------
(* A base called ready has every page of the document, whoever parsed it   *)
(* and in whichever attempt, and whatever was torn or mixed on the way.    *)
ReadyIsWhole ==
    \A e \in Readers : At(e, "done") /\ reader[e].status = "ready" => ~reader[e].gap

(* An explicit retry reads the original again: nothing parsed before it is *)
(* used after it, unless it met an executor, still at work when it began   *)
(* or claiming the job before it was through, whose files it cannot keep   *)
(* from coming back.                                                       *)
RetryIsFresh ==
    ~overtaken => \A e \in Readers : At(e, "done") => reader[e].since >= reader[e].after

(* What a reading takes from the checkpoint files is the whole document,   *)
(* and nothing that an explicit retry discarded.                           *)
PagesAreTheDocument == ReadyIsWhole /\ RetryIsFresh
=============================================================================
