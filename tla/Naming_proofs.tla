---------------------------- MODULE Naming_proofs ----------------------------
(* Proofs about module Naming: what the two locks of a transaction, the    *)
(* token of the worker and the state of the draft are for.                 *)
EXTENDS Naming, TLAPS

-----------------------------------------------------------------------------
(* Types.  Tokens and what a title shows are whatever they are.            *)
Said ==
    [kind : {"project"}, label : Labels, number : Numbers \cup {None}, recognised : Ids \cup {None}]
        \cup AsItIs \cup Doubtful \cup NoAnswer
Plans ==
    [do : {"none", "refuse"}]
        \cup [do : {"link"}, id : Ids, number : Numbers \cup {None}]
        \cup [do : {"alias"}, id : Ids, number : Numbers \cup {None}, aliases : SUBSET Labels]
        \cup [do : {"promote"}, id : Ids, number : Numbers]
        \cup [do : {"create"}, name : Labels, number : Numbers \cup {None}]
Claimed(token) == [pc : {"model"}, draft : Drafts, token : {token}]
Steps == {"label", "draft"} \cup Writing
Transactions(token, said) ==
    [pc : Steps, draft : Drafts, token : {token}, says : said, plan : Plans, others : SUBSET Drafts]
Rows == [name : Labels \cup {None}, aliases : SUBSET Labels, number : Numbers \cup {None}]
Marks(token) == [state : {"pending", "running", "review", "done"}, token : {token}, over : BOOLEAN]
Titles(t) == [by : {"file", "model", "person"}, project : {t.project}, prefix : {t.prefix}]

RowTypes ==
    /\ projects \in [Ids -> Rows]
    /\ naming = [d \in Drafts |-> naming[d]] /\ \A d \in Drafts : naming[d] \in Marks(naming[d].token)
    /\ title = [d \in Drafts |-> title[d]] /\ \A d \in Drafts : title[d] \in Titles(title[d])
    /\ tx = [x \in People |-> tx[x]]

TxTypes(x) ==
    \/ tx[x] = Idle
    \/ x \in Namers /\ tx[x] \in Claimed(tx[x].token) \cup Transactions(tx[x].token, Said)
    \/ x \in Reviewers /\ tx[x] \in Transactions(tx[x].token, Approvals) /\ tx[x].pc # "draft"

(* What a worker writes is its own: nobody has claimed the draft since, or *)
(* reviewed it.                                                            *)
Owned(x) == x \in Namers /\ At(x, Writing) => naming[tx[x].draft].state = "running"

(* What a transaction has decided is still so when it commits: the name of *)
(* a new project is that of no other.                                      *)
Planned(x) ==
    At(x, {"row", "others", "commit"}) =>
        /\ tx[x].plan.do = "none" => tx[x].says.kind # "project"
        /\ tx[x].plan.do = "create" =>
              /\ tx[x].plan.name = tx[x].says.label
              /\ \A p \in Registered : projects[p].name # tx[x].plan.name

(* Two transactions have neither a name nor a draft in common.             *)
HasLabel(x) == At(x, Writing \cup {"draft"})
HasDraft(x) == At(x, Writing) \/ (At(x, {"label"}) /\ x \notin Namers)
Separate(x, y) ==
    /\ HasLabel(x) /\ HasLabel(y) => tx[x].says.label = None \/ tx[x].says.label # tx[y].says.label
    /\ HasDraft(x) /\ HasDraft(y) => tx[x].draft # tx[y].draft

(* What a person has approved is settled.                                  *)
Approved == \A d \in Drafts : title[d].by = "person" => naming[d].state = "done"

Sound(x) == TxTypes(x) /\ Owned(x) /\ Planned(x)
NamingInv ==
    /\ RowTypes /\ Approved /\ OneProjectPerName
    /\ \A x \in People : Sound(x)
    /\ \A x, y \in People : x # y => Separate(x, y)

Kept == \A d \in Drafts : title[d].by = "person" => title'[d].by = "person" /\ naming'[d].state = "done"

-----------------------------------------------------------------------------
(* A transaction is open at the steps at which it is asked for its fields. *)
LEMMA Open ==
    ASSUME NEW x \in People, TxTypes(x), tx[x].pc \in Steps
    PROVE  /\ tx[x] \in Transactions(tx[x].token, Said \cup Approvals)
           /\ x \in Namers => tx[x] \in Transactions(tx[x].token, Said)
           /\ x \in Reviewers => tx[x] \in Transactions(tx[x].token, Approvals) /\ tx[x].pc # "draft"
           /\ x \notin Namers => x \in Reviewers
<1>1. tx[x] # Idle
  BY DEF Idle, Steps, Writing
<1>2. tx[x] \notin Claimed(tx[x].token)
  BY DEF Claimed, Steps, Writing
<1>3. \A k : Transactions(k, Said) \cup Transactions(k, Approvals) \subseteq Transactions(k, Said \cup Approvals)
  BY DEF Transactions
<1> QED
  BY <1>1, <1>2, <1>3, NamingAssumption DEF TxTypes, People

(* One transaction goes on while the rows stay as they are.                *)
LEMMA Moves ==
    ASSUME NamingInv, NEW x \in People, NEW new, To(x, new), UNCHANGED <<projects, naming, title>>,
           Sound(x)', \A y \in People \ {x} : Separate(x, y)'
    PROVE  NamingInv' /\ Kept
<1>1. tx' = [tx EXCEPT ![x] = new] /\ tx = [y \in People |-> tx[y]]
  BY DEF To, NamingInv, RowTypes
<1>2. \A y \in People \ {x} : tx'[y] = tx[y]
  BY <1>1
<1>3. tx' = [y \in People |-> tx'[y]]
  BY <1>1
<1>4. RowTypes' /\ Approved' /\ Kept
  BY <1>3 DEF NamingInv, RowTypes, Approved, Kept
<1>5. OneProjectPerName'
  BY DEF NamingInv, OneProjectPerName, Registered
<1>6. ASSUME NEW y \in People PROVE Sound(y)'
  <2>1. CASE y = x
    BY <2>1
  <2>2. CASE y # x
    <3>1. tx'[y] = tx[y]
      BY <1>2, <2>2
    <3> QED
      BY <3>1 DEF NamingInv, Sound, TxTypes, Owned, Planned, At, Registered
  <2> QED
    BY <2>1, <2>2
<1>7. ASSUME NEW y \in People, NEW z \in People, y # z PROVE Separate(y, z)'
  <2>1. CASE y = x
    BY <1>7, <2>1
  <2>2. CASE z = x
    <3>1. Separate(x, y)'
      BY <1>7, <2>2
    <3> QED
      BY <2>2, <3>1 DEF Separate
  <2>3. CASE y # x /\ z # x
    <3>1. tx'[y] = tx[y] /\ tx'[z] = tx[z]
      BY <1>2, <2>3
    <3> QED
      BY <1>7, <3>1 DEF NamingInv, Separate, HasLabel, HasDraft, At
  <2> QED
    BY <2>1, <2>2, <2>3
<1> QED
  BY <1>4, <1>5, <1>6, <1>7 DEF NamingInv

(* Whoever goes on with the name and the draft it has keeps them apart.    *)
LEMMA StaysApart ==
    ASSUME NamingInv, NEW x \in People, NEW new, To(x, new),
           HasLabel(x)' => HasLabel(x) /\ new.says.label = tx[x].says.label,
           HasDraft(x)' => HasDraft(x) /\ new.draft = tx[x].draft
    PROVE  \A y \in People \ {x} : Separate(x, y)'
<1>1. tx' = [tx EXCEPT ![x] = new] /\ tx = [y \in People |-> tx[y]]
  BY DEF To, NamingInv, RowTypes
<1>2. tx'[x] = new /\ \A y \in People \ {x} : tx'[y] = tx[y]
  BY <1>1
<1> SUFFICES ASSUME NEW y \in People \ {x} PROVE Separate(x, y)'
  OBVIOUS
<1>3. Separate(x, y)
  BY DEF NamingInv
<1>4. (HasLabel(y)' <=> HasLabel(y)) /\ (HasDraft(y)' <=> HasDraft(y)) /\ tx'[y] = tx[y]
  BY <1>2 DEF HasLabel, HasDraft, At
<1> QED
  BY <1>2, <1>3, <1>4 DEF Separate

(* Who ends, or has not begun, has nothing.                                *)
LEMMA Rests ==
    ASSUME NamingInv, NEW x \in People, NEW new, To(x, new),
           new = Idle \/ (x \in Namers /\ new \in Claimed(new.token))
    PROVE  Sound(x)' /\ \A y \in People \ {x} : Separate(x, y)'
<1>1. tx' = [tx EXCEPT ![x] = new] /\ tx = [y \in People |-> tx[y]]
  BY DEF To, NamingInv, RowTypes
<1>2. tx'[x] = new
  BY <1>1
<1>3. new.pc \in {"idle", "model"}
  BY DEF Idle, Claimed
<1>4. ~At(x, Steps)'
  BY <1>2, <1>3 DEF At, Steps, Writing
<1>5. ~HasLabel(x)' /\ ~HasDraft(x)'
  BY <1>4 DEF HasLabel, HasDraft, At, Steps
<1>6. Sound(x)'
  BY <1>2, <1>4 DEF Sound, TxTypes, Owned, Planned, At, Steps, Writing
<1> QED
  BY <1>5, <1>6, StaysApart

-----------------------------------------------------------------------------
(* The steps at which rows stay as they are.                               *)
LEMMA SuggestSteps ==
    ASSUME NamingInv, NEW w \in Namers, NEW s \in Suggestions, Suggest(w, s)
    PROVE  NamingInv' /\ Kept
<1> PICK token : token = tx[w].token
  OBVIOUS
<1> PICK new : new = Opened(tx[w].draft, token, s)
  OBVIOUS
<1>1. w \in People /\ tx[w].pc = "model" /\ To(w, new) /\ UNCHANGED <<projects, naming, title>>
  BY DEF Suggest, At, People
<1>2. tx[w] \in Claimed(token)
  <2>1. tx[w] \notin Transactions(token, Said) /\ tx[w] \notin Transactions(token, Approvals) /\ tx[w] # Idle
    BY <1>1 DEF Transactions, Idle, Steps, Writing
  <2> QED
    BY <1>1, <2>1 DEF NamingInv, Sound, TxTypes
<1>3. s \in Said
  BY DEF Suggestions, Said, ByProject, Known, Registered
<1>4. new \in Transactions(new.token, Said) /\ new.pc = "label"
  BY <1>2, <1>3 DEF Claimed, Transactions, Opened, Plans, Steps
<1>5. tx'[w] = new
  BY <1>1 DEF To, NamingInv, RowTypes
<1>6. Sound(w)'
  BY <1>4, <1>5 DEF Sound, TxTypes, Owned, Planned, At, Writing
<1>7. ~HasLabel(w)' /\ ~HasDraft(w)'
  BY <1>4, <1>5 DEF HasLabel, HasDraft, At, Writing
<1> QED
  BY <1>1, <1>6, <1>7, StaysApart, Moves

LEMMA LabelSteps ==
    ASSUME NamingInv, NEW x \in People, LockLabel(x)
    PROVE  NamingInv' /\ Kept
<1> PICK old : old = tx[x]
  OBVIOUS
<1> PICK pc : pc = IF x \in Namers THEN "draft" ELSE "read"
  OBVIOUS
<1> PICK new : new = [old EXCEPT !.pc = pc]
  OBVIOUS
<1>1. old.pc = "label" /\ Blockers(x) = {} /\ To(x, new) /\ UNCHANGED <<projects, naming, title>>
  BY DEF LockLabel, Proceed, At, Go
<1>2. /\ old \in Transactions(old.token, Said \cup Approvals)
      /\ x \in Namers => old \in Transactions(old.token, Said)
      /\ x \notin Namers => x \in Reviewers /\ old \in Transactions(old.token, Approvals)
  BY <1>1, Open DEF NamingInv, Sound, Steps
<1>3. /\ new.pc = pc /\ new.says = old.says /\ new.draft = old.draft /\ new.token = old.token
      /\ x \in Namers => new \in Transactions(new.token, Said)
      /\ x \notin Namers => new \in Transactions(new.token, Approvals)
  BY <1>2 DEF Transactions, Steps, Writing
<1>4. tx'[x] = new /\ \A y \in People \ {x} : tx'[y] = tx[y]
  BY <1>1 DEF To, NamingInv, RowTypes
<1>5. Sound(x)'
  <2>1. TxTypes(x)'
    BY <1>2, <1>3, <1>4 DEF TxTypes
  <2> QED
    BY <1>3, <1>4, <2>1 DEF Sound, Owned, Planned, At, Writing
<1>6. ASSUME NEW y \in People \ {x} PROVE Separate(x, y)'
  <2>1. HasLabel(y) => old.says.label = None \/ old.says.label # tx[y].says.label
    BY <1>1 DEF Blockers, At, LabelHeld, HoldsLabel, HasLabel
  <2>2. HasDraft(x)' => HasDraft(x)
    BY <1>1, <1>3, <1>4 DEF HasDraft, At, Writing
  <2>3. Separate(x, y)
    BY DEF NamingInv
  <2>4. (HasLabel(y)' <=> HasLabel(y)) /\ (HasDraft(y)' <=> HasDraft(y)) /\ tx'[y] = tx[y]
    BY <1>4 DEF HasLabel, HasDraft, At
  <2> QED
    BY <1>3, <1>4, <2>1, <2>2, <2>3, <2>4 DEF Separate
<1> QED
  BY <1>1, <1>5, <1>6, Moves

LEMMA DraftSteps ==
    ASSUME NamingInv, NEW w \in Namers, LockDraft(w)
    PROVE  NamingInv' /\ Kept
<1> PICK old : old = tx[w]
  OBVIOUS
<1> PICK new : new = [old EXCEPT !.pc = "read"]
  OBVIOUS
<1>1. /\ w \in People /\ old.pc = "draft" /\ Blockers(w) = {} /\ To(w, new)
      /\ naming[old.draft].state = "running" /\ UNCHANGED <<projects, naming, title>>
  BY DEF LockDraft, OfMine, Proceed, At, Go, People
<1>2. old \in Transactions(old.token, Said)
  BY <1>1, Open DEF NamingInv, Sound, Steps
<1>3. /\ new.pc = "read" /\ new.says = old.says /\ new.draft = old.draft
      /\ new \in Transactions(new.token, Said)
  BY <1>2 DEF Transactions, Steps, Writing
<1>4. tx'[w] = new /\ \A y \in People \ {w} : tx'[y] = tx[y]
  BY <1>1 DEF To, NamingInv, RowTypes
<1>5. Sound(w)'
  <2>1. TxTypes(w)'
    BY <1>3, <1>4 DEF TxTypes
  <2> QED
    BY <1>1, <1>3, <1>4, <2>1 DEF Sound, Owned, Planned, At
<1>6. ASSUME NEW y \in People \ {w} PROVE Separate(w, y)'
  <2>1. HasDraft(y) => tx[y].draft # old.draft
    BY <1>1 DEF Blockers, At, DraftHeld, HoldsDraft, HasDraft, Writing
  <2>2. HasLabel(w)
    BY <1>1 DEF HasLabel, At
  <2>3. Separate(w, y)
    BY <1>1 DEF NamingInv
  <2>4. (HasLabel(y)' <=> HasLabel(y)) /\ (HasDraft(y)' <=> HasDraft(y)) /\ tx'[y] = tx[y]
    BY <1>4 DEF HasLabel, HasDraft, At
  <2> QED
    BY <1>3, <1>4, <2>1, <2>2, <2>3, <2>4 DEF Separate
<1> QED
  BY <1>1, <1>5, <1>6, Moves

(* What the registry makes of a name and a number.                         *)
LEMMA Decisions ==
    ASSUME NamingInv, NEW x \in People, tx[x].pc = "read", NEW s, s = tx[x].says, NEW plan, plan = Plan(x)
    PROVE  /\ plan \in Plans /\ (plan.do = "none" => s.kind # "project")
           /\ plan.do = "create" => plan.name = s.label /\ \A p \in Registered : projects[p].name # plan.name
<1>1. tx[x] \in Transactions(tx[x].token, Said \cup Approvals)
      /\ (x \in Namers => tx[x] \in Transactions(tx[x].token, Said))
  BY Open DEF NamingInv, Sound, Steps, Writing
<1>2. CASE s.kind # "project"
  <2>1. plan = [do |-> "none"]
    BY <1>2 DEF Plan
  <2> QED
    BY <1>2, <2>1 DEF Plans
<1>3. CASE s.kind = "project"
  <2>1. s \in Said \cup Approvals /\ (x \in Namers => s \in Said)
    BY <1>1 DEF Transactions
  <2>2. s.label \in Labels /\ s.number \in Numbers \cup {None}
    BY <1>3, <2>1 DEF Said, Approvals, AsItIs, Doubtful, NoAnswer
  <2>3. x \in Namers => s.recognised \in Ids \cup {None}
    BY <1>3, <2>1 DEF Said, AsItIs, Doubtful, NoAnswer
  <2>4. plan = IF x \in Namers THEN Resolve(s.label, s.number, s.recognised) ELSE Confirm(s.label, s.number)
    BY <1>3 DEF Plan
  <2> DEFINE Decides(q) == /\ q \in Plans /\ q.do # "none"
                           /\ q.do = "create" => q.name = s.label /\ \A p \in Registered : projects[p].name # q.name
  <2>5. \A p \in Ids : projects[p].number \in Numbers \cup {None} /\ projects[p].aliases \in SUBSET Labels
    BY DEF NamingInv, RowTypes, Rows
  <2>6. \A p \in Ids : Decides(Link(p))
    BY <2>5 DEF Link, Plans
  <2>7. \A p \in Ids : Decides(Alias(p, s.label))
    <3> SUFFICES ASSUME NEW p \in Ids, p \notin Called(s.label) PROVE Decides(Alias(p, s.label))
      BY <2>6 DEF Alias
    <3> PICK q : q = Alias(p, s.label)
      OBVIOUS
    <3>1. q = [do |-> "alias", id |-> p, number |-> projects[p].number, aliases |-> projects[p].aliases \cup {s.label}]
      BY DEF Alias
    <3>2. projects[p].aliases \cup {s.label} \in SUBSET Labels
      BY <2>2, <2>5
    <3>3. q \in [do : {"alias"}, id : Ids, number : Numbers \cup {None}, aliases : SUBSET Labels]
      BY <2>5, <3>1, <3>2
    <3> QED
      BY <3>1, <3>3 DEF Plans
  <2>8. Decides(Refuse)
    BY DEF Refuse, Plans
  <2>9. Decides(ByName(s.label, s.number))
    <3>1. CASE Called(s.label) = {}
      <4>1. \A p \in Registered : projects[p].name # s.label
        BY <3>1 DEF Called
      <4> QED
        BY <2>2, <3>1, <4>1 DEF ByName, Create, Plans
    <3>2. CASE Called(s.label) # {}
      <4> PICK p : p = CHOOSE q \in Called(s.label) : TRUE
        OBVIOUS
      <4>1. p \in Ids
        BY <3>2 DEF Called, Registered
      <4>2. \/ ByName(s.label, s.number) = Refuse
            \/ ByName(s.label, s.number) = Link(p)
            \/ s.number # None /\ ByName(s.label, s.number) = Promote(p, s.number)
        BY <3>2 DEF ByName
      <4>3. s.number # None => Decides(Promote(p, s.number))
        BY <2>2, <4>1 DEF Promote, Plans
      <4> QED
        BY <2>6, <2>8, <4>1, <4>2, <4>3
    <3> QED
      BY <3>1, <3>2
  <2>10. Numbered(s.number) # {} => (CHOOSE p \in Numbered(s.number) : TRUE) \in Ids
    BY DEF Numbered, Registered
  <2> HIDE DEF Decides
  <2>11. x \in Namers => Decides(plan)
    BY <2>3, <2>4, <2>6, <2>7, <2>9, <2>10 DEF Resolve
  <2>12. x \notin Namers => Decides(plan)
    BY <2>4, <2>7, <2>9, <2>10 DEF Confirm
  <2> QED
    BY <1>3, <2>11, <2>12 DEF Decides
<1> QED
  BY <1>2, <1>3

(* A transaction goes on under its locks.                                  *)
LEMMA LockedSteps ==
    ASSUME NamingInv, NEW x \in People, NEW new, To(x, new), UNCHANGED <<projects, naming, title>>,
           tx[x].pc \in Writing, new.pc \in Writing, new.token = tx[x].token,
           new.says = tx[x].says, new.draft = tx[x].draft, new.plan \in Plans, new.others \in SUBSET Drafts,
           \A said : tx[x] \in Transactions(tx[x].token, said) => new \in Transactions(tx[x].token, said),
           new.plan.do = "none" => new.says.kind # "project",
           new.plan.do = "create" => /\ new.plan.name = new.says.label
                                     /\ \A p \in Registered : projects[p].name # new.plan.name
    PROVE  NamingInv' /\ Kept
<1>1. tx'[x] = new
  BY DEF To, NamingInv, RowTypes
<1>2. /\ x \in Namers => new \in Transactions(new.token, Said)
      /\ x \notin Namers => x \in Reviewers /\ new \in Transactions(new.token, Approvals)
  BY Open DEF NamingInv, Sound, Steps
<1>3. new.pc # "draft"
  BY DEF Writing
<1>4. TxTypes(x)'
  BY <1>1, <1>2, <1>3 DEF TxTypes
<1>5. Owned(x)'
  BY <1>1 DEF NamingInv, Sound, Owned, At
<1>6. Planned(x)'
  BY <1>1 DEF Planned, Registered
<1>7. HasLabel(x) /\ HasDraft(x)
  BY DEF HasLabel, HasDraft, At
<1> QED
  BY <1>4, <1>5, <1>6, <1>7, StaysApart, Moves DEF Sound

LEMMA RegistrySteps ==
    ASSUME NamingInv, NEW x \in People, Read(x) \/ LockRow(x) \/ LockOthers(x)
    PROVE  NamingInv' /\ Kept
<1> PICK old : old = tx[x]
  OBVIOUS
<1>1. old.pc \in {"read", "row", "others"} /\ UNCHANGED <<projects, naming, title>>
  BY DEF Read, LockRow, LockOthers, At
<1>2. /\ old \in Transactions(old.token, Said \cup Approvals)
      /\ old.plan \in Plans /\ old.others \in SUBSET Drafts
      /\ old.pc # "read" => Planned(x)
  BY <1>1, Open DEF NamingInv, Sound, Steps, Writing, Transactions
<1>3. CASE Read(x)
  <2> PICK plan : plan = Plan(x)
    OBVIOUS
  <2> PICK pc : pc = IF plan.do \in {"alias", "promote"} THEN "row" ELSE "commit"
    OBVIOUS
  <2> PICK new : new = [old EXCEPT !.pc = pc, !.plan = plan]
    OBVIOUS
  <2>1. old.pc = "read" /\ To(x, new)
    BY <1>3 DEF Read, At
  <2>2. /\ plan \in Plans /\ (plan.do = "none" => old.says.kind # "project")
        /\ plan.do = "create" => plan.name = old.says.label /\ \A p \in Registered : projects[p].name # plan.name
    BY <2>1, Decisions
  <2>3. /\ new.pc = pc /\ new.says = old.says /\ new.draft = old.draft /\ new.token = old.token
        /\ new.plan = plan /\ new.others = old.others
    BY <1>2 DEF Transactions
  <2>4. \A said : old \in Transactions(old.token, said) => new \in Transactions(old.token, said)
    BY <2>2 DEF Transactions, Steps, Writing
  <2> QED
    BY <1>1, <1>2, <2>1, <2>2, <2>3, <2>4, LockedSteps DEF Writing
<1>4. CASE LockRow(x) \/ LockOthers(x)
  <2>1. PICK pc \in {"others", "commit"}, others \in SUBSET Drafts : To(x, [old EXCEPT !.pc = pc, !.others = others])
    <3>1. CASE LockRow(x) /\ old.plan.do = "promote"
      <4>1. Linked(old.plan.id) \in SUBSET Drafts
        BY DEF Linked
      <4> QED
        BY <3>1, <4>1 DEF LockRow
    <3>2. CASE LockRow(x) /\ old.plan.do # "promote"
      <4>1. [old EXCEPT !.pc = "commit"] = [old EXCEPT !.pc = "commit", !.others = old.others]
        BY <1>2 DEF Transactions
      <4> QED
        BY <1>2, <3>2, <4>1 DEF LockRow
    <3>3. CASE LockOthers(x)
      BY <1>2, <3>3 DEF LockOthers
    <3> QED
      BY <1>4, <3>1, <3>2, <3>3
  <2> PICK new : new = [old EXCEPT !.pc = pc, !.others = others]
    OBVIOUS
  <2>2. old.pc \in {"row", "others"}
    BY <1>4 DEF LockRow, LockOthers, At
  <2>3. /\ new.pc = pc /\ new.says = old.says /\ new.draft = old.draft /\ new.token = old.token
        /\ new.plan = old.plan /\ new.others = others
    BY <1>2 DEF Transactions
  <2>4. \A said : old \in Transactions(old.token, said) => new \in Transactions(old.token, said)
    BY <2>1 DEF Transactions, Steps, Writing
  <2>5. /\ old.plan.do = "none" => old.says.kind # "project"
        /\ old.plan.do = "create" => /\ old.plan.name = old.says.label
                                     /\ \A p \in Registered : projects[p].name # old.plan.name
    BY <1>2, <2>2 DEF Planned, At
  <2> QED
    BY <1>1, <1>2, <2>1, <2>2, <2>3, <2>4, <2>5, LockedSteps DEF Writing
<1> QED
  BY <1>3, <1>4

(* A batch or a transaction ends, or begins again, without a trace.        *)
LEMMA EndingSteps ==
    ASSUME NamingInv, NEW x \in People, Abort(x) \/ (x \in Namers /\ (Crash(x) \/ GiveUp(x)))
    PROVE  NamingInv' /\ Kept
<1>1. UNCHANGED <<projects, naming, title>>
  BY DEF Abort, Crash, GiveUp
<1>2. CASE To(x, Idle)
  BY <1>1, <1>2, Rests, Moves
<1>3. CASE x \in Namers /\ Abort(x)
  <2> PICK new : new = Opened(tx[x].draft, tx[x].token, [kind |-> "doubt", label |-> None, prefix |-> None])
    OBVIOUS
  <2>1. To(x, new) /\ (Deadlocked(x) \/ At(x, {"commit"}))
    BY <1>3 DEF Abort
  <2>2. tx[x].pc \in Steps
    <3>1. CASE Deadlocked(x)
      <4>1. Blockers(x) # {}
        BY <3>1 DEF Deadlocked
      <4> QED
        BY <4>1 DEF Blockers, At, Steps, Writing
    <3>2. CASE At(x, {"commit"})
      BY <3>2 DEF At, Steps, Writing
    <3> QED
      BY <2>1, <3>1, <3>2
  <2>3. tx[x] \in Transactions(tx[x].token, Said)
    BY <1>3, <2>2, Open DEF NamingInv, Sound
  <2>4. [kind |-> "doubt", label |-> None, prefix |-> None] \in Said
    BY DEF Said, Doubtful
  <2>5. new \in Transactions(new.token, Said) /\ new.pc = "label"
    BY <2>3, <2>4 DEF Transactions, Opened, Plans, Steps
  <2>6. tx'[x] = new
    BY <2>1 DEF To, NamingInv, RowTypes
  <2>7. Sound(x)'
    BY <1>3, <2>5, <2>6 DEF Sound, TxTypes, Owned, Planned, At, Writing
  <2>8. ~HasLabel(x)' /\ ~HasDraft(x)'
    BY <1>3, <2>5, <2>6 DEF HasLabel, HasDraft, At, Writing
  <2> QED
    BY <1>1, <2>1, <2>7, <2>8, StaysApart, Moves
<1> QED
  BY <1>2, <1>3 DEF Abort, Crash, GiveUp

LEMMA ReviewSteps ==
    ASSUME NamingInv, NEW r \in Reviewers, NEW d \in Drafts, NEW s \in Approvals, Review(r, d, s)
    PROVE  NamingInv' /\ Kept
<1> PICK new : new = Opened(d, 0, s)
  OBVIOUS
<1>1. r \in People /\ DraftHeld(r, d) = {} /\ To(r, new) /\ UNCHANGED <<projects, naming, title>>
  BY DEF Review, People
<1>2. new \in Transactions(new.token, Approvals) /\ new.pc = "label" /\ new.draft = d
  BY DEF Transactions, Opened, Plans, Steps
<1>3. tx'[r] = new /\ \A y \in People \ {r} : tx'[y] = tx[y]
  BY <1>1 DEF To, NamingInv, RowTypes
<1>4. Sound(r)'
  BY <1>2, <1>3, NamingAssumption DEF Sound, TxTypes, Owned, Planned, At, Writing
<1>5. ASSUME NEW y \in People \ {r} PROVE Separate(r, y)'
  <2>1. HasDraft(y) => tx[y].draft # d
    BY <1>1 DEF At, DraftHeld, HoldsDraft, HasDraft, Writing
  <2>2. ~HasLabel(r)'
    BY <1>2, <1>3 DEF HasLabel, At, Writing
  <2>3. (HasDraft(y)' <=> HasDraft(y)) /\ tx'[y] = tx[y]
    BY <1>3 DEF HasDraft, At
  <2> QED
    BY <1>2, <1>3, <2>1, <2>2, <2>3 DEF Separate
<1> QED
  BY <1>1, <1>4, <1>5, Moves

-----------------------------------------------------------------------------
(* Rows are written: of a draft that no other transaction has, and of a    *)
(* project whose name no other has.                                        *)
SameNames == \A p \in Ids : projects'[p].name = projects[p].name
NewName(l) ==
    \E q \in Ids : projects'[q].name = l /\ \A p \in Ids \ {q} : projects'[p].name = projects[p].name

HasAlone(x, d) == \A y \in People \ {x} : HasDraft(y) => tx[y].draft # d
NamesAlone(x, l) ==
    /\ \A p \in Registered : projects[p].name # l
    /\ \A y \in People \ {x} : HasLabel(y) => l = None \/ tx[y].says.label # l
OnlyAbout(d) ==
    /\ \A e \in Drafts \ {d} : naming'[e].state = naming[e].state /\ title'[e].by = title[e].by
    /\ title[d].by = "person" => title'[d].by = "person"
    /\ title'[d].by = "person" => naming'[d].state = "done"

LEMMA Writes ==
    ASSUME NamingInv, NEW x \in People, NEW new, To(x, new),
           new = Idle \/ (x \in Namers /\ new \in Claimed(new.token)),
           RowTypes', NEW d \in Drafts, HasAlone(x, d), OnlyAbout(d),
           NEW l, NamesAlone(x, l), SameNames \/ (l \in Labels /\ NewName(l))
    PROVE  NamingInv' /\ Kept
<1>1. tx' = [tx EXCEPT ![x] = new] /\ tx = [y \in People |-> tx[y]]
  BY DEF To, NamingInv, RowTypes
<1>2. \A y \in People \ {x} : tx'[y] = tx[y]
  BY <1>1
<1>3. Sound(x)' /\ \A y \in People \ {x} : Separate(x, y)'
  BY Rests
<1>4. Approved' /\ Kept
  BY DEF NamingInv, Approved, Kept, OnlyAbout
<1>5. \A p \in Ids : projects'[p].name = projects[p].name \/ (projects'[p].name = l /\ l \in Labels)
  BY DEF SameNames, NewName
<1>6. OneProjectPerName'
  <2>1. CASE SameNames
    BY <2>1 DEF SameNames, NamingInv, OneProjectPerName, Registered
  <2>2. CASE l \in Labels /\ NewName(l)
    <3> PICK q \in Ids : projects'[q].name = l /\ \A p \in Ids \ {q} : projects'[p].name = projects[p].name
      BY <2>2 DEF NewName
    <3>1. l # None
      BY <2>2, ProjectsAssumption
    <3>2. \A p \in Registered' \ {q} : p \in Registered /\ projects'[p].name = projects[p].name /\ projects[p].name # l
      BY DEF Registered, NamesAlone
    <3> QED
      BY <3>1, <3>2 DEF NamingInv, OneProjectPerName
  <2> QED
    BY <2>1, <2>2
<1>7. ASSUME NEW y \in People PROVE Sound(y)'
  <2>1. CASE y = x
    BY <1>3, <2>1
  <2>2. CASE y # x
    <3>1. tx'[y] = tx[y] /\ Sound(y)
      BY <1>2, <2>2 DEF NamingInv
    <3>2. TxTypes(y)'
      BY <3>1 DEF Sound, TxTypes
    <3>3. Owned(y)'
      <4> SUFFICES ASSUME y \in Namers, At(y, Writing) PROVE naming'[tx[y].draft].state = "running"
        BY <3>1 DEF Owned, At
      <4>1. tx[y].draft # d
        BY <2>2 DEF HasDraft, HasAlone
      <4>2. tx[y].draft \in Drafts
        BY <3>1, Open DEF Sound, At, Steps, Transactions
      <4> QED
        BY <3>1, <4>1, <4>2 DEF Sound, Owned, OnlyAbout
    <3>4. Planned(y)'
      <4> SUFFICES ASSUME At(y, {"row", "others", "commit"}), tx[y].plan.do = "create"
                   PROVE  /\ tx[y].plan.name = tx[y].says.label
                          /\ \A p \in Registered' : projects'[p].name # tx[y].plan.name
        BY <3>1 DEF Sound, Planned, At
      <4>1. tx[y].plan.name = tx[y].says.label /\ \A p \in Registered : projects[p].name # tx[y].plan.name
        BY <3>1 DEF Sound, Planned
      <4>2. HasLabel(y)
        BY DEF HasLabel, At, Writing
      <4>3. l \in Labels => tx[y].says.label # l
        BY <2>2, <4>2, ProjectsAssumption DEF NamesAlone
      <4> QED
        BY <1>5, <4>1, <4>3 DEF Registered
    <3> QED
      BY <3>2, <3>3, <3>4 DEF Sound
  <2> QED
    BY <2>1, <2>2
<1>8. ASSUME NEW y \in People, NEW z \in People, y # z PROVE Separate(y, z)'
  <2>1. CASE y = x
    BY <1>3, <1>8, <2>1
  <2>2. CASE z = x
    BY <1>3, <1>8, <2>2 DEF Separate
  <2>3. CASE y # x /\ z # x
    BY <1>2, <1>8, <2>3 DEF NamingInv, Separate, HasLabel, HasDraft, At
  <2> QED
    BY <2>1, <2>2, <2>3
<1> QED
  BY <1>4, <1>6, <1>7, <1>8 DEF NamingInv

LEMMA ClaimSteps ==
    ASSUME NamingInv, NEW w \in Namers, NEW d \in Drafts, Claim(w, d)
    PROVE  NamingInv' /\ Kept
<1> PICK token : token = Token
  OBVIOUS
<1> PICK new : new = [pc |-> "model", draft |-> d, token |-> token]
  OBVIOUS
<1>1. /\ w \in People /\ Claimable(d) /\ DraftHeld(w, d) = {} /\ To(w, new)
      /\ naming' = [naming EXCEPT ![d] = [state |-> "running", token |-> token, over |-> FALSE]]
      /\ UNCHANGED <<projects, title>>
  BY DEF Claim, People
<1>2. new \in Claimed(new.token)
  BY DEF Claimed
<1>3. /\ naming'[d] = [state |-> "running", token |-> token, over |-> FALSE]
      /\ \A e \in Drafts \ {d} : naming'[e] = naming[e]
      /\ naming' = [e \in Drafts |-> naming'[e]]
  BY <1>1 DEF NamingInv, RowTypes
<1>4. RowTypes'
  <2>1. naming'[d] \in Marks(naming'[d].token)
    BY <1>3 DEF Marks
  <2>2. \A e \in Drafts : naming'[e] \in Marks(naming'[e].token)
    BY <1>3, <2>1 DEF NamingInv, RowTypes
  <2>3. tx' = [y \in People |-> tx'[y]]
    BY <1>1 DEF To, NamingInv, RowTypes
  <2> QED
    BY <1>1, <1>3, <2>2, <2>3 DEF NamingInv, RowTypes
<1>5. \A y \in People \ {w} : HasDraft(y) => tx[y].draft # d
  BY <1>1 DEF At, DraftHeld, HoldsDraft, HasDraft, Writing
<1>6. title[d].by # "person"
  BY <1>1 DEF Claimable, NamingInv, Approved
<1>7. SameNames /\ NamesAlone(w, None)
  BY <1>1 DEF Registered, SameNames, NamesAlone
<1>8. HasAlone(w, d) /\ OnlyAbout(d)
  BY <1>1, <1>3, <1>5, <1>6 DEF HasAlone, OnlyAbout
<1> QED
  BY <1>1, <1>2, <1>4, <1>7, <1>8, Writes

(* The commits.                                                            *)
LEMMA Commits ==
    ASSUME NamingInv, NEW x \in People, At(x, {"commit"})
    PROVE  /\ tx[x].draft \in Drafts /\ tx[x].others \in SUBSET Drafts /\ tx[x].plan \in Plans
           /\ tx[x].says \in Said \cup Approvals
           /\ x \notin Namers => tx[x].says \in Approvals
           /\ x \in Namers => title[tx[x].draft].by # "person"
           /\ tx[x].plan.do = "none" => tx[x].says.kind # "project"
           /\ tx[x].plan.do = "create" => /\ tx[x].plan.name = tx[x].says.label
                                          /\ \A p \in Registered : projects[p].name # tx[x].plan.name
           /\ \A y \in People \ {x} : HasDraft(y) => tx[y].draft # tx[x].draft
           /\ \A y \in People \ {x} : HasLabel(y) => tx[x].says.label = None \/ tx[y].says.label # tx[x].says.label
<1>1. Sound(x) /\ tx[x].pc = "commit" /\ HasDraft(x) /\ HasLabel(x)
  BY DEF NamingInv, At, HasDraft, HasLabel, Writing
<1>2. /\ tx[x].draft \in Drafts /\ tx[x].others \in SUBSET Drafts /\ tx[x].plan \in Plans
      /\ tx[x].says \in Said \cup Approvals
      /\ x \notin Namers => tx[x].says \in Approvals
  BY <1>1, Open DEF Sound, Transactions, Steps, Writing
<1>3. x \in Namers => naming[tx[x].draft].state = "running"
  BY <1>1 DEF Sound, Owned, At, Writing
<1>4. x \in Namers => title[tx[x].draft].by # "person"
  BY <1>2, <1>3 DEF NamingInv, Approved
<1>5. /\ tx[x].plan.do = "none" => tx[x].says.kind # "project"
      /\ tx[x].plan.do = "create" => /\ tx[x].plan.name = tx[x].says.label
                                     /\ \A p \in Registered : projects[p].name # tx[x].plan.name
  BY <1>1 DEF Sound, Planned, At
<1>6. \A y \in People \ {x} : Separate(x, y) /\ Separate(y, x)
  BY DEF NamingInv
<1>7. \A y \in People \ {x} : HasDraft(y) => tx[y].draft # tx[x].draft
  BY <1>1, <1>6 DEF Separate
<1>8. \A y \in People \ {x} : HasLabel(y) => tx[x].says.label = None \/ tx[y].says.label # tx[x].says.label
  BY <1>1, <1>6 DEF Separate
<1> QED
  BY <1>2, <1>4, <1>5, <1>7, <1>8

(* The transaction's draft gets its name and its state, and those that     *)
(* were linked to a promoted project another prefix.                       *)
LEMMA CommitKeeps ==
    ASSUME NamingInv, NEW x \in People, At(x, {"commit"}), To(x, Idle),
           NEW d, d = tx[x].draft,
           NEW by \in {"model", "person"}, by = "person" <=> x \notin Namers, NEW p, NEW prefix,
           NEW state \in {"pending", "review", "done"}, x \notin Namers => state = "done",
           Titled(x, by, p, prefix) \/ (UNCHANGED title /\ x \in Namers),
           Settle(d, state),
           projects' \in [Ids -> Rows],
           SameNames \/ (tx[x].plan.do = "create" /\ tx[x].plan.name \in Labels /\ NewName(tx[x].plan.name))
    PROVE  NamingInv' /\ Kept
<1>1. /\ d \in Drafts
      /\ x \in Namers => title[d].by # "person"
      /\ \A y \in People \ {x} : HasDraft(y) => tx[y].draft # d
  BY Commits
<1>2. /\ naming = [e \in Drafts |-> naming[e]] /\ title = [e \in Drafts |-> title[e]]
      /\ \A e \in Drafts : naming[e] \in Marks(naming[e].token) /\ title[e] \in Titles(title[e])
      /\ tx = [y \in People |-> tx[y]]
  BY DEF NamingInv, RowTypes
<1>3. /\ naming'[d] = [state |-> state, token |-> 0, over |-> FALSE]
      /\ \A e \in Drafts \ {d} : naming'[e] = naming[e]
      /\ naming' = [e \in Drafts |-> naming'[e]]
  BY <1>1, <1>2 DEF Settle
<1>4. /\ title' = [e \in Drafts |-> title'[e]]
      /\ \A e \in Drafts : title'[e] \in Titles(title'[e])
      /\ \A e \in Drafts \ {d} : title'[e].by = title[e].by
      /\ title'[d].by = by \/ (title'[d] = title[d] /\ x \in Namers)
  <2>1. CASE UNCHANGED title /\ x \in Namers
    BY <1>2, <2>1
  <2>2. CASE Titled(x, by, p, prefix)
    <3>1. /\ title' = [e \in Drafts |-> title'[e]]
          /\ title'[d] = [by |-> by, project |-> p, prefix |-> prefix]
          /\ \A e \in Drafts \ {d} : title'[e] \in {title[e], [title[e] EXCEPT !.prefix = tx[x].plan.number]}
      BY <1>1, <2>2 DEF Titled
    <3>2. title'[d] \in Titles(title'[d]) /\ title'[d].by = by
      BY <3>1 DEF Titles
    <3>3. ASSUME NEW e \in Drafts \ {d} PROVE title'[e] \in Titles(title'[e]) /\ title'[e].by = title[e].by
      <4> PICK old : old = title[e]
        OBVIOUS
      <4> PICK new : new = [old EXCEPT !.prefix = tx[x].plan.number]
        OBVIOUS
      <4>1. old \in Titles(old)
        BY <1>2
      <4>2. new \in Titles(new) /\ new.by = old.by
        BY <4>1 DEF Titles
      <4>3. title'[e] = old \/ title'[e] = new
        BY <3>1
      <4> QED
        BY <4>1, <4>2, <4>3
    <3> QED
      BY <3>1, <3>2, <3>3
  <2> QED
    BY <2>1, <2>2
<1>5. RowTypes'
  <2>1. naming'[d] \in Marks(naming'[d].token)
    BY <1>3 DEF Marks
  <2>2. \A e \in Drafts : naming'[e] \in Marks(naming'[e].token)
    BY <1>2, <1>3, <2>1
  <2>3. tx' = [y \in People |-> tx'[y]]
    BY <1>2 DEF To
  <2> QED
    BY <1>3, <1>4, <2>2, <2>3 DEF RowTypes
<1>6. /\ title[d].by = "person" => title'[d].by = "person"
      /\ title'[d].by = "person" => naming'[d].state = "done"
  BY <1>1, <1>3, <1>4
<1> PICK l : l = IF tx[x].plan.do = "create" THEN tx[x].plan.name ELSE None
  OBVIOUS
<1>7. NamesAlone(x, l)
  BY Commits DEF Registered, NamesAlone
<1>8. HasAlone(x, d) /\ OnlyAbout(d)
  BY <1>1, <1>3, <1>4, <1>6 DEF HasAlone, OnlyAbout
<1>9. SameNames \/ (l \in Labels /\ NewName(l))
  OBVIOUS
<1> QED
  BY <1>1, <1>5, <1>7, <1>8, <1>9, Writes

LEMMA RegistryWrites ==
    ASSUME NamingInv, NEW plan \in Plans, NEW p, plan.do = "create" \/ p = plan.id,
           plan.do \in {"link", "alias", "promote", "create"}, Registry(plan, p)
    PROVE  /\ projects' \in [Ids -> Rows]
           /\ SameNames \/ (plan.do = "create" /\ plan.name \in Labels /\ NewName(plan.name))
<1>1. projects \in [Ids -> Rows]
  BY DEF NamingInv, RowTypes
<1>2. CASE plan.do = "link"
  BY <1>1, <1>2 DEF Registry, SameNames
<1>3. CASE plan.do = "alias"
  <2> PICK row : row = [projects[p] EXCEPT !.aliases = plan.aliases]
    OBVIOUS
  <2>1. p \in Ids /\ plan.aliases \in SUBSET Labels
    BY <1>3 DEF Plans
  <2>2. row \in Rows /\ row.name = projects[p].name
    BY <1>1, <2>1 DEF Rows
  <2>3. projects' = [projects EXCEPT ![p] = row]
    BY <1>3 DEF Registry
  <2> QED
    BY <1>1, <2>1, <2>2, <2>3 DEF SameNames
<1>4. CASE plan.do = "promote"
  <2> PICK row : row = [projects[p] EXCEPT !.number = plan.number]
    OBVIOUS
  <2>1. p \in Ids /\ plan.number \in Numbers
    BY <1>4 DEF Plans
  <2>2. row \in Rows /\ row.name = projects[p].name
    BY <1>1, <2>1 DEF Rows
  <2>3. projects' = [projects EXCEPT ![p] = row]
    BY <1>4 DEF Registry
  <2> QED
    BY <1>1, <2>1, <2>2, <2>3 DEF SameNames
<1>5. CASE plan.do = "create"
  <2> PICK row : row = [projects[p] EXCEPT !.name = plan.name, !.number = plan.number]
    OBVIOUS
  <2>1. plan.name \in Labels /\ plan.number \in Numbers \cup {None}
    BY <1>5 DEF Plans
  <2>2. p \in Ids => row \in Rows /\ row.name = plan.name
    BY <1>1, <2>1 DEF Rows
  <2>3. projects' = [projects EXCEPT ![p] = row]
    BY <1>5 DEF Registry
  <2> QED
    BY <1>1, <1>5, <2>1, <2>2, <2>3 DEF SameNames, NewName
<1> QED
  BY <1>2, <1>3, <1>4, <1>5

LEMMA CommitSteps ==
    ASSUME NamingInv, NEW x \in People, CommitProject(x) \/ CommitPlain(x) \/ CommitRefused(x)
    PROVE  NamingInv' /\ Kept
<1> PICK d : d = tx[x].draft
  OBVIOUS
<1> PICK plan : plan = tx[x].plan
  OBVIOUS
<1> PICK says : says = tx[x].says
  OBVIOUS
<1>1. At(x, {"commit"}) /\ To(x, Idle)
  BY DEF CommitProject, CommitPlain, CommitRefused
<1>2. plan \in Plans /\ says \in Said \cup Approvals /\ (x \notin Namers => says \in Approvals)
      /\ (plan.do = "none" => says.kind # "project")
  BY <1>1, Commits
<1>3. projects \in [Ids -> Rows]
  BY DEF NamingInv, RowTypes
<1> PICK by : by = IF x \in Namers THEN "model" ELSE "person"
  OBVIOUS
<1>4. by \in {"model", "person"} /\ (by = "person" <=> x \notin Namers)
  OBVIOUS
<1>5. CASE CommitProject(x)
  <2> PICK p : p = IF plan.do = "create" THEN FreeId ELSE plan.id
    OBVIOUS
  <2>1. /\ plan.do \in {"link", "alias", "promote", "create"} /\ Registry(plan, p)
        /\ Titled(x, by, p, plan.number) /\ Settle(d, "done")
    BY <1>5 DEF CommitProject
  <2>2. plan.do = "create" \/ p = plan.id
    OBVIOUS
  <2>3. /\ projects' \in [Ids -> Rows]
        /\ SameNames \/ (plan.do = "create" /\ plan.name \in Labels /\ NewName(plan.name))
    BY <1>2, <2>1, <2>2, RegistryWrites
  <2> QED
    BY <1>1, <1>4, <2>1, <2>3, CommitKeeps
<1>6. CASE CommitPlain(x)
  <2> PICK state : state = CASE says.kind = "wait" -> "pending" [] says.kind = "doubt" -> "review" [] says.kind = "plain" -> "done"
    OBVIOUS
  <2>1. plan.do = "none" /\ Settle(d, state) /\ projects' = projects /\ SameNames
        /\ (IF says.kind = "wait" THEN UNCHANGED title ELSE Titled(x, by, None, says.prefix))
    BY <1>6 DEF CommitPlain, SameNames
  <2>2. says.kind \in {"wait", "doubt", "plain"} /\ (x \notin Namers => says.kind = "plain")
    BY <1>2, <2>1 DEF Said, Approvals, AsItIs, Doubtful, NoAnswer
  <2>3. state \in {"pending", "review", "done"} /\ (x \notin Namers => state = "done")
    BY <2>2
  <2>4. Titled(x, by, None, says.prefix) \/ (UNCHANGED title /\ x \in Namers)
    BY <2>1, <2>2
  <2> QED
    BY <1>1, <1>3, <1>4, <2>1, <2>3, <2>4, CommitKeeps
<1>7. CASE CommitRefused(x)
  <2>1. CASE x \in Namers
    <3>1. Titled(x, by, None, says.label) /\ Settle(d, "review") /\ projects' = projects /\ SameNames
      BY <1>7, <2>1 DEF CommitRefused, SameNames
    <3> QED
      BY <1>1, <1>3, <1>4, <2>1, <3>1, CommitKeeps
  <2>2. CASE x \notin Namers
    <3>1. UNCHANGED <<projects, naming, title>>
      BY <1>7, <2>2 DEF CommitRefused
    <3> QED
      BY <1>1, <3>1, Rests, Moves
  <2> QED
    BY <2>1, <2>2
<1> QED
  BY <1>5, <1>6, <1>7

(* The rest: a row changes that concerns neither names nor who gave them.  *)
LEMMA ClockSteps ==
    ASSUME NamingInv,
           \/ \E d \in Drafts : Lapse(d)
           \/ \E w \in Namers, d \in Drafts : Reconcile(w, d)
           \/ UNCHANGED vars
    PROVE  NamingInv' /\ Kept
<1>1. UNCHANGED <<projects, tx>>
  BY DEF Lapse, Reconcile, vars
<1>2. /\ naming = [e \in Drafts |-> naming[e]] /\ title = [e \in Drafts |-> title[e]]
      /\ \A e \in Drafts : naming[e] \in Marks(naming[e].token) /\ title[e] \in Titles(title[e])
  BY DEF NamingInv, RowTypes
<1>3. /\ naming' = [e \in Drafts |-> naming'[e]] /\ title' = [e \in Drafts |-> title'[e]]
      /\ \A e \in Drafts : naming'[e] \in Marks(naming'[e].token) /\ title'[e] \in Titles(title'[e])
      /\ \A e \in Drafts : naming'[e].state = naming[e].state /\ title'[e].by = title[e].by
  <2>1. ASSUME NEW d \in Drafts, Lapse(d)
        PROVE  /\ naming' = [e \in Drafts |-> naming'[e]] /\ title' = title
               /\ \A e \in Drafts : naming'[e] \in Marks(naming'[e].token) /\ naming'[e].state = naming[e].state
    <3> PICK new : new = [naming[d] EXCEPT !.over = TRUE]
      OBVIOUS
    <3>1. naming' = [naming EXCEPT ![d] = new] /\ title' = title
      BY <2>1 DEF Lapse
    <3>2. new \in Marks(new.token) /\ new.state = naming[d].state
      BY <1>2 DEF Marks
    <3> QED
      BY <1>2, <3>1, <3>2
  <2>2. ASSUME NEW w \in Namers, NEW d \in Drafts, Reconcile(w, d)
        PROVE  /\ naming' = naming /\ title' = [e \in Drafts |-> title'[e]]
               /\ \A e \in Drafts : title'[e] \in Titles(title'[e]) /\ title'[e].by = title[e].by
    <3>1. PICK p : title' = [title EXCEPT ![d].project = p, ![d].prefix = projects[p].number] /\ naming' = naming
      BY <2>2 DEF Reconcile
    <3> PICK one : one = [title[d] EXCEPT !.project = p]
      OBVIOUS
    <3> PICK new : new = [one EXCEPT !.prefix = projects[p].number]
      OBVIOUS
    <3>2. one \in Titles(one) /\ one.by = title[d].by
      BY <1>2 DEF Titles
    <3>3. new \in Titles(new) /\ new.by = title[d].by
      BY <3>2 DEF Titles
    <3>4. title' = [title EXCEPT ![d] = new]
      BY <1>2, <3>1
    <3> QED
      BY <1>2, <3>1, <3>3, <3>4
  <2> QED
    BY <1>2, <2>1, <2>2 DEF vars
<1>4. RowTypes'
  BY <1>1, <1>3 DEF NamingInv, RowTypes
<1>5. Approved' /\ Kept
  BY <1>3 DEF NamingInv, Approved, Kept
<1>6. ASSUME NEW x \in People PROVE Sound(x)'
  <2>1. Sound(x)
    BY DEF NamingInv
  <2>2. TxTypes(x)' /\ Planned(x)'
    BY <1>1, <2>1 DEF Sound, TxTypes, Planned, At, Registered
  <2>3. Owned(x)'
    <3> SUFFICES ASSUME x \in Namers, At(x, Writing) PROVE naming'[tx[x].draft].state = "running"
      BY <1>1 DEF Owned, At
    <3>1. tx[x].draft \in Drafts
      BY <2>1, Open DEF Sound, At, Steps, Transactions
    <3> QED
      BY <1>3, <2>1, <3>1 DEF Sound, Owned
  <2> QED
    BY <2>2, <2>3 DEF Sound
<1>7. \A x, y \in People : x # y => Separate(x, y)'
  BY <1>1 DEF NamingInv, Separate, HasLabel, HasDraft, At
<1>8. OneProjectPerName'
  BY <1>1 DEF NamingInv, OneProjectPerName, Registered
<1> QED
  BY <1>4, <1>5, <1>6, <1>7, <1>8 DEF NamingInv

LEMMA NamingSteps == ASSUME NamingInv, [Next]_vars PROVE NamingInv' /\ Kept
<1>1. Namers \subseteq People /\ Reviewers \subseteq People
  BY DEF People
<1>2. ASSUME NEW x \in People, Transaction(x) PROVE NamingInv' /\ Kept
  BY <1>2, LabelSteps, RegistrySteps, CommitSteps, EndingSteps DEF Transaction
<1>3. ASSUME NEW w \in Namers, Batch(w) PROVE NamingInv' /\ Kept
  BY <1>1, <1>2, <1>3, ClaimSteps, SuggestSteps, DraftSteps, EndingSteps DEF Batch
<1> QED
  BY <1>1, <1>2, <1>3, ReviewSteps, EndingSteps, ClockSteps DEF Next

LEMMA NamingStarts == Init => NamingInv
<1> SUFFICES ASSUME Init PROVE NamingInv
  OBVIOUS
<1>1. /\ projects = [p \in Ids |-> NoRow]
      /\ naming = [d \in Drafts |-> [state |-> "pending", token |-> 0, over |-> FALSE]]
      /\ title = [d \in Drafts |-> [by |-> "file", project |-> None, prefix |-> None]]
      /\ tx = [x \in People |-> Idle]
  BY DEF Init, ProjectsInit
<1>2. RowTypes
  BY <1>1 DEF RowTypes, Rows, NoRow, Marks, Titles
<1>3. Approved /\ OneProjectPerName
  BY <1>1 DEF Approved, OneProjectPerName, Registered, NoRow
<1>4. \A x \in People : Sound(x) /\ ~HasLabel(x) /\ ~HasDraft(x)
  BY <1>1 DEF Sound, TxTypes, Owned, Planned, At, HasLabel, HasDraft, Idle, Writing
<1> QED
  BY <1>2, <1>3, <1>4 DEF NamingInv, Separate

(* However many batches and reviewers there are, and whichever of them are *)
(* overtaken, aborted or killed: no two projects are registered under one  *)
(* name.                                                                   *)
THEOREM OneProjectForAName == Spec => []OneProjectPerName
<1>1. NamingInv => OneProjectPerName
  BY DEF NamingInv
<1> QED
  BY <1>1, NamingStarts, NamingSteps, PTL DEF Spec

(* A name a person has approved is not replaced, and its draft is not put  *)
(* back in the line.                                                       *)
THEOREM ApprovedNamesStay == Spec => ApprovedNameStays
<1>1. NamingInv /\ [Next]_vars => [Kept]_vars
  BY NamingSteps
<1> QED
  BY <1>1, NamingStarts, NamingSteps, PTL DEF Spec, ApprovedNameStays, Kept
=============================================================================
