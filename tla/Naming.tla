------------------------------- MODULE Naming -------------------------------
(***************************************************************************)
(* Naming of submitted drafts (naming.py, review_name and rename of        *)
(* lifecycle.py): a background worker claims one draft at a time, asks a   *)
(* model for a name, and writes it; a person reviews what it could not     *)
(* settle.  Both assign the draft to a project of the registry.            *)
(*                                                                         *)
(* The transactions that write a name are split where they may wait or     *)
(* read: the worker takes the lock of the project's name and then the      *)
(* draft, a reviewer the draft and then the lock of the name; both read    *)
(* the registry under that lock and commit.  What a transaction has        *)
(* written is seen by the others when it commits.                          *)
(***************************************************************************)
EXTENDS Projects

CONSTANTS
    Drafts,           \* new drafts submitted for automatic naming
    Namers,           \* worker processes, each with one naming thread
    Reviewers,        \* people approving names
    MaxTrouble,       \* bound: crashes, leases that run out on a living worker
                      \* and answers "try again later" of the model, together
    MaxReviews        \* bound: reviews begun

ASSUME NamingAssumption == Namers \cap Reviewers = {} /\ {MaxTrouble, MaxReviews} \subseteq Nat

VARIABLES
    naming,           \* capabilities.naming_review: state, token, whether the lease is over
    title,            \* documents: who named it, its project, the prefix shown
    tx,               \* the batch or open transaction of each namer and reviewer
    used              \* how much of each bound is used up

vars == <<projects, naming, title, tx, used>>

People == Namers \cup Reviewers
Idle == [pc |-> "idle"]

Init ==
    /\ ProjectsInit
    /\ naming = [d \in Drafts |-> [state |-> "pending", token |-> 0, over |-> FALSE]]
    /\ title = [d \in Drafts |-> [by |-> "file", project |-> None, prefix |-> None]]
    /\ tx = [x \in People |-> Idle]
    /\ used = [trouble |-> 0, review |-> 0]

Use(bound, max) == used[bound] < max /\ used' = [used EXCEPT ![bound] = @ + 1]
Trouble == Use("trouble", MaxTrouble)

-----------------------------------------------------------------------------
(* Locks are held until the transaction commits.  A worker goes through    *)
(* label, draft, read, row, others, commit; a reviewer has the draft from  *)
(* the beginning.                                                          *)
At(x, pcs) == tx[x].pc \in pcs
Writing == {"read", "row", "others", "commit"}

HoldsLabel(x, l) == At(x, Writing \cup {"draft"}) /\ tx[x].says.label = l
HoldsDraft(x, d) ==
    \/ At(x, Writing \cup {"label"}) /\ tx[x].draft = d /\ ~(At(x, {"label"}) /\ x \in Namers)
    \/ At(x, {"commit"}) /\ d \in tx[x].others
HoldsRow(x, p) == At(x, {"others", "commit"}) /\ tx[x].plan.do \in {"alias", "promote"} /\ tx[x].plan.id = p

(* What a transaction waits for, and who holds it.                         *)
LabelHeld_Never(x) == {}
LabelHeld(x) == {y \in People \ {x} : tx[x].says.label # None /\ HoldsLabel(y, tx[x].says.label)}
DraftHeld(x, d) == {y \in People \ {x} : HoldsDraft(y, d)}
RowHeld(x) == {y \in People \ {x} : HoldsRow(y, tx[x].plan.id)}

Blockers(x) ==
    CASE At(x, {"label"})  -> LabelHeld(x)
      [] At(x, {"draft"})  -> DraftHeld(x, tx[x].draft)
      [] At(x, {"row"})    -> RowHeld(x)
      [] At(x, {"others"}) -> UNION {DraftHeld(x, d) : d \in tx[x].others}
      [] OTHER -> {}

To(x, change) == tx' = [tx EXCEPT ![x] = change]
Go(x, pc) == To(x, [tx[x] EXCEPT !.pc = pc])
Proceed(x, from, pc) ==
    /\ At(x, {from}) /\ Blockers(x) = {}
    /\ Go(x, pc)
    /\ UNCHANGED <<projects, naming, title, used>>

-----------------------------------------------------------------------------
(* The worker.                                                             *)

Live(d) == naming[d].state = "running" /\ ~naming[d].over

Quiet == \A d \in Drafts : ~Live(d)

Claimable_Pending(d) == naming[d].state = "pending"
Claimable(d) ==
    \/ naming[d].state = "pending"
    \/ naming[d].state = "running" /\ naming[d].over

(* Tokens nobody knows any more may serve again: uuid4.                    *)
Token == CHOOSE t \in 1 .. Cardinality(Drafts) + Cardinality(Namers) + 1 :
            /\ \A d \in Drafts : naming[d].token # t
            /\ \A w \in Namers : ~At(w, {"idle"}) => tx[w].token # t

(* One transaction under the lock of all naming: nothing is being named,   *)
(* and the draft gets a token and a lease.                                 *)
Claim(w, d) ==
    /\ At(w, {"idle"})
    /\ Quiet /\ Claimable(d) /\ DraftHeld(w, d) = {}
    /\ naming' = [naming EXCEPT ![d] = [state |-> "running", token |-> Token, over |-> FALSE]]
    /\ To(w, [pc |-> "model", draft |-> d, token |-> Token])
    /\ UNCHANGED <<projects, title, used>>

(* With nothing to claim, a draft the model has named is linked to the one *)
(* project that has come to be registered under its name.                  *)
Reconcile(w, d) ==
    /\ At(w, {"idle"}) /\ Quiet /\ ~\E e \in Drafts : Claimable(e)
    /\ title[d].by = "model" /\ title[d].project = None /\ DraftHeld(w, d) = {}
    /\ LET same == {p \in Registered : projects[p].name = title[d].prefix} IN
       \E p \in same :
          /\ same = {p}
          /\ title' = [title EXCEPT ![d].project = p, ![d].prefix = projects[p].number]
    /\ UNCHANGED <<projects, naming, tx, used>>

(* 1200 seconds pass: the worker is gone, or slow.                         *)
Lapse(d) ==
    /\ Live(d)
    /\ naming' = [naming EXCEPT ![d].over = TRUE]
    /\ IF \E w \in Namers : ~At(w, {"idle"}) /\ tx[w].token = naming[d].token
       THEN Trouble ELSE UNCHANGED used
    /\ UNCHANGED <<projects, title, tx>>

Crash(w) ==
    /\ ~At(w, {"idle"}) /\ Trouble
    /\ To(w, Idle)
    /\ UNCHANGED <<projects, naming, title>>

(* What the model is shown of the registry.  A project it recognises may   *)
(* have another label than the file.                                       *)
Known == Registered

(* What comes of a draft.  The name of a project, found in the file's name *)
(* or text, perhaps with a number read there or recognised in the list.    *)
ByProject ==
    [kind : {"project"}, label : Labels, number : Numbers \cup {None}, recognised : Known \cup {None}]

(* A file name that keeps the rules as it is; its first part may be the    *)
(* name of a project.                                                      *)
AsItIs == [kind : {"plain"}, label : {None}, prefix : Labels]

(* A name that is not certain enough, or none.                             *)
Doubtful == [kind : {"doubt"}, label : {None}, prefix : Labels \cup {None}]

(* No route of the model answers, or not in the form asked for.            *)
NoAnswer == [kind : {"wait"}, label : {None}, prefix : {None}]

Suggestions == ByProject \cup AsItIs \cup Doubtful \cup NoAnswer

(* A transaction that is to write what was said of a draft.                *)
Opened(d, token, s) ==
    [pc |-> "label", draft |-> d, token |-> token, says |-> s, plan |-> [do |-> "none"], others |-> {}]

Suggest(w, s) ==
    /\ At(w, {"model"})
    /\ To(w, Opened(tx[w].draft, tx[w].token, s))
    /\ IF s.kind = "wait" THEN Trouble ELSE UNCHANGED used
    /\ UNCHANGED <<projects, naming, title>>

LockLabel(x) == Proceed(x, "label", IF x \in Namers THEN "draft" ELSE "read")

(* _finalize_row gives up when the draft is no longer its own.             *)
OfMine_Unchecked(w) == TRUE
OfMine(w) ==
    /\ naming[tx[w].draft].state = "running"
    /\ naming[tx[w].draft].token = tx[w].token

LockDraft(w) == At(w, {"draft"}) /\ OfMine(w) /\ Proceed(w, "draft", "read")

GiveUp(w) ==
    /\ At(w, {"draft"}) /\ Blockers(w) = {} /\ ~OfMine(w)
    /\ To(w, Idle)
    /\ UNCHANGED <<projects, naming, title, used>>

-----------------------------------------------------------------------------
(* The reviewer: review_name refuses while the worker is at it.  A name is *)
(* approved with a project or without.                                     *)
Approvals ==
    [kind : {"project"}, label : Labels, number : Numbers \cup {None}]
        \cup [kind : {"plain"}, label : {None}, prefix : {None}]

Review(r, d, s) ==
    /\ At(r, {"idle"}) /\ Use("review", MaxReviews)
    /\ DraftHeld(r, d) = {} /\ naming[d].state \notin {"pending", "running"}
    /\ To(r, Opened(d, 0, s))
    /\ UNCHANGED <<projects, naming, title>>

-----------------------------------------------------------------------------
(* Both: read the registry, lock what is to be changed there, commit.      *)
Plan(x) ==
    LET s == tx[x].says IN
    IF s.kind # "project" THEN [do |-> "none"]
    ELSE IF x \in Namers THEN Resolve(s.label, s.number, s.recognised)
    ELSE Confirm(s.label, s.number)

Read(x) ==
    /\ At(x, {"read"})
    /\ LET plan == Plan(x) IN
       To(x, [tx[x] EXCEPT !.pc = IF plan.do \in {"alias", "promote"} THEN "row" ELSE "commit",
                           !.plan = plan])
    /\ UNCHANGED <<projects, naming, title, used>>

Linked(p) == {d \in Drafts : title[d].project = p}

(* _promote: the project's row, then every document linked to it by then.  *)
LockRow(x) ==
    /\ At(x, {"row"}) /\ Blockers(x) = {}
    /\ LET plan == tx[x].plan IN
       To(x, IF plan.do = "promote" THEN [tx[x] EXCEPT !.pc = "others", !.others = Linked(plan.id)]
             ELSE [tx[x] EXCEPT !.pc = "commit"])
    /\ UNCHANGED <<projects, naming, title, used>>

(* A row waited for is looked at again: it may have another project now.   *)
LockOthers(x) ==
    /\ At(x, {"others"}) /\ Blockers(x) = {}
    /\ To(x, [tx[x] EXCEPT !.pc = "commit", !.others = @ \cap Linked(tx[x].plan.id)])
    /\ UNCHANGED <<projects, naming, title, used>>

FreeId == CHOOSE p \in Ids \ Registered : \A q \in Ids \ Registered : p <= q

(* The unique index on official numbers.                                   *)
Clash(plan) ==
    \/ plan.do = "create" /\ Numbered(plan.number) # {}
    \/ plan.do = "promote" /\ Numbered(plan.number) \ {plan.id} # {}

(* The values written are those this transaction read, not those of now.   *)
Registry(plan, p) ==
    projects' = CASE plan.do = "alias"   -> [projects EXCEPT ![p].aliases = plan.aliases]
                  [] plan.do = "promote" -> [projects EXCEPT ![p].number = plan.number]
                  [] plan.do = "create"  -> [projects EXCEPT ![p].name = plan.name, ![p].number = plan.number]
                  [] OTHER -> projects

Titled(x, by, p, prefix) ==
    title' = [d \in Drafts |->
                IF d = tx[x].draft THEN [by |-> by, project |-> p, prefix |-> prefix]
                ELSE IF d \in tx[x].others THEN [title[d] EXCEPT !.prefix = tx[x].plan.number]
                ELSE title[d]]

Settle(d, state) ==
    naming' = [naming EXCEPT ![d] = [state |-> state, token |-> 0, over |-> FALSE]]

CommitProject(x) ==
    /\ At(x, {"commit"})
    /\ LET plan == tx[x].plan
           p    == IF plan.do = "create" THEN FreeId ELSE plan.id
       IN  /\ plan.do \in {"link", "alias", "promote", "create"} /\ ~Clash(plan)
           /\ plan.do = "create" => Registered # Ids
           /\ Registry(plan, p)
           /\ Titled(x, IF x \in Namers THEN "model" ELSE "person", p, plan.number)
    /\ Settle(tx[x].draft, "done") /\ To(x, Idle)
    /\ UNCHANGED used

CommitPlain(x) ==
    /\ At(x, {"commit"}) /\ tx[x].plan.do = "none"
    /\ IF tx[x].says.kind = "wait" THEN UNCHANGED title
       ELSE Titled(x, IF x \in Namers THEN "model" ELSE "person", None, tx[x].says.prefix)
    /\ Settle(tx[x].draft, CASE tx[x].says.kind = "wait"  -> "pending"
                             [] tx[x].says.kind = "doubt" -> "review"
                             [] tx[x].says.kind = "plain" -> "done")
    /\ To(x, Idle)
    /\ UNCHANGED <<projects, used>>

(* The registry cannot tell: the model's name waits for a person, and a    *)
(* person is told.                                                         *)
CommitRefused(x) ==
    /\ At(x, {"commit"}) /\ tx[x].plan.do = "refuse"
    /\ IF x \in Namers
       THEN Titled(x, "model", None, tx[x].says.label) /\ Settle(tx[x].draft, "review")
       ELSE UNCHANGED <<title, naming>>
    /\ To(x, Idle)
    /\ UNCHANGED <<projects, used>>

(* The database ends one of the transactions that wait for each other, or  *)
(* finds the number taken.  The worker then files the draft for review.    *)
Deadlocked(x) ==
    \E y \in Blockers(x) : x \in Blockers(y) \/ \E z \in Blockers(y) : x \in Blockers(z)

Abort(x) ==
    /\ Deadlocked(x) \/ (At(x, {"commit"}) /\ Clash(tx[x].plan))
    /\ To(x, IF x \in Namers
             THEN Opened(tx[x].draft, tx[x].token, [kind |-> "doubt", label |-> None, prefix |-> None])
             ELSE Idle)
    /\ UNCHANGED <<projects, naming, title, used>>

-----------------------------------------------------------------------------
Transaction(x) ==
    \/ LockLabel(x) \/ Read(x) \/ LockRow(x) \/ LockOthers(x)
    \/ CommitProject(x) \/ CommitPlain(x) \/ CommitRefused(x) \/ Abort(x)

Batch(w) ==
    \/ \E d \in Drafts : Claim(w, d)
    \/ \E s \in Suggestions : Suggest(w, s)
    \/ LockDraft(w) \/ GiveUp(w) \/ Transaction(w)

Next ==
    \/ \E w \in Namers : Batch(w) \/ Crash(w) \/ \E d \in Drafts : Reconcile(w, d)
    \/ \E r \in Reviewers :
          \/ Transaction(r)
          \/ \E d \in Drafts, s \in Approvals : Review(r, d, s)
    \/ \E d \in Drafts : Lapse(d)

(* Each worker has one thread for naming, which is started again and again *)
(* (worker.py); a transaction that can go on does, and time passes.        *)
Fairness ==
    /\ \A w \in Namers : WF_vars(Batch(w))
    /\ \A r \in Reviewers : WF_vars(Transaction(r))
    /\ \A d \in Drafts : WF_vars(Lapse(d))

Spec == Init /\ [][Next]_vars
FairSpec == Spec /\ Fairness

-----------------------------------------------------------------------------
(* "Concurrent batches cannot create two temporary IDs for the same        *)
(* confirmed label": no two projects are registered under one name.        *)
OneProjectPerName ==
    \A p, q \in Registered : projects[p].name = projects[q].name => p = q

(* A name a person has approved stays: no batch that was overtaken by a    *)
(* second one, and then by the review, puts the model's name in its place. *)
ApprovedNameStays ==
    [][\A d \in Drafts : title[d].by = "person" => title'[d].by = "person" /\ naming'[d].state = "done"]_vars

(* A submitted draft is named or shown for review, although workers crash, *)
(* leases run out, the model is away and transactions block each other.    *)
EveryDraftIsNamed == <>[](\A d \in Drafts : naming[d].state \in {"review", "done"})

(* docs/design/file-classification-and-naming-draft.md: once a project is  *)
(* won, its official number is the prefix of its documents' titles.        *)
PrefixIsOfficial ==
    \A d \in Drafts : title[d].project # None =>
        title[d].prefix = projects[title[d].project].number
=============================================================================
