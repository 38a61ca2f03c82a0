---------------------------- MODULE CategoryTree ----------------------------
(***************************************************************************)
(* The tree of categories and the administrators who edit it: saveCategory *)
(* and removeCategory of apps/api/src/modules/catalog/catalog.service.ts.  *)
(*                                                                         *)
(* A save walks up from the new parent, one SELECT for each ancestor, to   *)
(* see that it does not close a cycle, and then writes; a removal counts   *)
(* the children and then deletes, softly.  Neither holds a lock.           *)
(***************************************************************************)
EXTENDS Integers, FiniteSets

CONSTANTS
  Categories,
  Editors,       \* requests of administrators that run at one time
  NoCategory

ASSUME TreeAssumption == NoCategory \notin Categories

VARIABLES
  rowOf,     \* "absent", "live" or "deleted", for each category
  parent,
  edit,      \* each request: where it is, what it edits and where that goes
  crossed    \* history: two moves overlapped; a removal and a save did

treeVars == <<rowOf, parent, edit, crossed>>

Roots == Categories \cup {NoCategory}

Edit(at, category, under, cursor) ==
  [at |-> at, category |-> category, under |-> under, cursor |-> cursor]

NoEdit == Edit("idle", NoCategory, NoCategory, NoCategory)

TreeInit ==
  /\ rowOf = [c \in Categories |-> "absent"]
  /\ parent = [c \in Categories |-> NoCategory]
  /\ edit = [e \in Editors |-> NoEdit]
  /\ crossed = [moves |-> FALSE, removal |-> FALSE]

-----------------------------------------------------------------------------
Saving(e) == edit[e].at \in {"walk", "write"}

Moving(e) == Saving(e) /\ rowOf[edit[e].category] # "absent"

Removing(e) == edit[e].at = "delete"

\* saveCategory: the category and its parent are found.
StartSave(e, c, under) ==
  /\ edit[e] = NoEdit
  /\ rowOf[c] # "deleted" /\ under # c
  /\ under # NoCategory => rowOf[under] = "live"
  /\ rowOf[c] = "absent" => \A f \in Editors : edit[f].category # c
  /\ edit' = [edit EXCEPT ![e] = Edit(IF rowOf[c] = "live" /\ under # NoCategory
                                      THEN "walk" ELSE "write", c, under, under)]
  /\ crossed' = [moves   |-> crossed.moves \/ (rowOf[c] = "live" /\ \E f \in Editors : Moving(f)),
                 removal |-> crossed.removal \/ \E f \in Editors : Removing(f)]
  /\ UNCHANGED <<rowOf, parent>>

\* One turn of the loop; a category that was deleted is not found.
Ancestor(c) == IF rowOf[c] = "deleted" THEN NoCategory ELSE parent[c]

\* Mutant of Closes: only a category that is its own parent is refused.
ClosesAtOnce(e) == edit[e].under = edit[e].category

Closes(e) == edit[e].cursor = edit[e].category

Walk(e) ==
  LET next == Ancestor(edit[e].cursor)
  IN  /\ edit[e].at = "walk"
      /\ edit' = IF Closes(e) THEN [edit EXCEPT ![e] = NoEdit]
                 ELSE [edit EXCEPT ![e].cursor = next,
                                   ![e].at = IF next = NoCategory THEN "write" ELSE "walk"]
      /\ UNCHANGED <<rowOf, parent, crossed>>

\* insert or update
WriteCategory(e) ==
  LET c == edit[e].category
  IN  /\ edit[e].at = "write"
      /\ parent' = [parent EXCEPT ![c] = edit[e].under]
      /\ rowOf' = [rowOf EXCEPT ![c] = IF @ = "absent" THEN "live" ELSE @]
      /\ edit' = [edit EXCEPT ![e] = NoEdit]
      /\ UNCHANGED crossed

\* removeCategory: there are no children that live, and no products.
StartRemove(e, c) ==
  /\ edit[e] = NoEdit
  /\ rowOf[c] = "live"
  /\ \A d \in Categories : rowOf[d] = "live" => parent[d] # c
  /\ edit' = [edit EXCEPT ![e] = Edit("delete", c, NoCategory, NoCategory)]
  /\ crossed' = [crossed EXCEPT !.removal = @ \/ \E f \in Editors : Saving(f)]
  /\ UNCHANGED <<rowOf, parent>>

DeleteCategory(e) ==
  /\ edit[e].at = "delete"
  /\ rowOf' = [rowOf EXCEPT ![edit[e].category] = "deleted"]
  /\ edit' = [edit EXCEPT ![e] = NoEdit]
  /\ UNCHANGED <<parent, crossed>>

\* A slug that is taken, products in the category, a crash.
EditFails(e) ==
  /\ edit[e] # NoEdit
  /\ edit' = [edit EXCEPT ![e] = NoEdit]
  /\ UNCHANGED <<rowOf, parent, crossed>>

TreeNext ==
  \E e \in Editors :
    \/ \E c \in Categories, under \in Roots : StartSave(e, c, under)
    \/ \E c \in Categories : StartRemove(e, c)
    \/ Walk(e) \/ WriteCategory(e) \/ DeleteCategory(e) \/ EditFails(e)

TreeSpec == TreeInit /\ [][TreeNext]_treeVars

-----------------------------------------------------------------------------
\* The types of the categories and of the edits.
TreeTypeOK ==
  /\ rowOf \in [Categories -> {"absent", "live", "deleted"}]
  /\ parent \in [Categories -> Roots]
  /\ edit \in [Editors -> [at : {"idle", "walk", "write", "delete"}, category : Roots,
                           under : Roots, cursor : Roots]]
  /\ crossed \in [moves : BOOLEAN, removal : BOOLEAN]

Living == {c \in Categories : rowOf[c] = "live"}

Acyclic == \A part \in (SUBSET Living) \ {{}} : \E c \in part : parent[c] \notin part

\* Whoever edits the tree, and whichever edits overlap, no category becomes its
\* own ancestor (tree, breadcrumb and the loop of saveCategory would not end)
\* unless two moves overlapped, and none is left below a deleted one unless a
\* removal overlapped with a save.
TreeSound ==
  /\ crossed.moves \/ Acyclic
  /\ \/ crossed.removal
     \/ \A c \in Living : parent[c] \in Living \cup {NoCategory}
=============================================================================
