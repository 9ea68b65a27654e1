------------------------------ MODULE Projects ------------------------------
(***************************************************************************)
(* The project registry (project_registry.py): which project a name and an *)
(* official number stand for, and what is to be done about it.             *)
(*                                                                         *)
(* A project is known by its name, by aliases it has been called, by a     *)
(* temporary code and, once won, by its official number.  These are pure   *)
(* decisions on the rows a transaction has read; Naming carries them out.  *)
(* All projects belong to one organization and are visible to all of it.   *)
(***************************************************************************)
EXTENDS Naturals, FiniteSets

CONSTANTS
    Labels,           \* names a project may be called by, after _fold
    Numbers,          \* official project numbers
    MaxProjects,      \* bound: projects ever created
    None

ASSUME ProjectsAssumption == MaxProjects \in Nat /\ None \notin Labels \cup Numbers

Ids == 1 .. MaxProjects

VARIABLE projects     \* the rows: name, aliases, official number

NoRow == [name |-> None, aliases |-> {}, number |-> None]

ProjectsInit == projects = [p \in Ids |-> NoRow]

Registered == {p \in Ids : projects[p].name # None}
Called(l) == {p \in Registered : l = projects[p].name \/ l \in projects[p].aliases}
Numbered(n) == {p \in Registered : n # None /\ projects[p].number = n}

(* What a transaction makes of a name l, an official number n (or None)    *)
(* and a project the model recognised (or None).                           *)
Link(p)       == [do |-> "link", id |-> p, number |-> projects[p].number]
Alias(p, l)   == IF p \in Called(l) THEN Link(p)
                 ELSE [do |-> "alias", id |-> p, number |-> projects[p].number, aliases |-> projects[p].aliases \cup {l}]
Promote(p, n) == [do |-> "promote", id |-> p, number |-> n]
Create(l, n)  == [do |-> "create", name |-> l, number |-> n]
Refuse        == [do |-> "refuse"]

(* resolve, after the lookups by code: one project of that name, or a new  *)
(* one; several, or another number than the one on record, are for people. *)
ByName(l, n) ==
    IF Called(l) = {} THEN Create(l, n)
    ELSE IF Cardinality(Called(l)) > 1 THEN Refuse
    ELSE LET p == CHOOSE q \in Called(l) : TRUE IN
         IF n = None \/ projects[p].number = n THEN Link(p)
         ELSE IF projects[p].number = None THEN Promote(p, n)
         ELSE Refuse

(* resolve: an automatic name.                                             *)
Resolve(l, n, recognised) ==
    IF recognised # None THEN Alias(recognised, l)
    ELSE IF Numbered(n) # {} THEN Link(CHOOSE p \in Numbered(n) : TRUE)
    ELSE ByName(l, n)

(* confirm: a name a person has approved; the number leads.                *)
Confirm(l, n) ==
    IF Numbered(n) # {} THEN Alias(CHOOSE p \in Numbered(n) : TRUE, l)
    ELSE ByName(l, n)
=============================================================================
