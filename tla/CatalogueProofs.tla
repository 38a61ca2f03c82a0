--------------------------- MODULE CatalogueProofs ---------------------------
(***************************************************************************)
(* The tree of categories, the stock under the product form and the search *)
(* index, for any categories, variants, products and administrators.       *)
(*                                                                         *)
(* The tree: a move that would close a cycle is one whose new parent lies  *)
(* in a part of the tree that has all its parents in itself, but for the   *)
(* category that is moved.  The walk of the only move stays inside every   *)
(* such part, so it cannot come out at a root.                             *)
(* The form: a row that was read while nothing was reserved shows the      *)
(* units there were, in the cache and in the form alike.                   *)
(* The index: a product that only one request is busy with is in the       *)
(* index what that request has read or written; the others are in doubt.   *)
(***************************************************************************)
EXTENDS CategoryTree, ProductForm, ProductIndex, StockProofs

Present == {c \in Categories : rowOf[c] # "absent"}

Edits == [at : {"idle", "walk", "write", "delete"}, category : Roots,
          under : Roots, cursor : Roots]

TreeTypes ==
  /\ rowOf \in [Categories -> {"absent", "live", "deleted"}]
  /\ parent \in [Categories -> Roots]
  /\ edit \in [Editors -> Edits]
  /\ crossed \in [moves : BOOLEAN, removal : BOOLEAN]

\* A category that is not there yet is nobody's parent and in one request only.
Shape ==
  /\ \A c \in Categories : parent[c] \in Present \cup {NoCategory}
  /\ \A e \in Editors : Saving(e) =>
       /\ edit[e].category \in Categories
       /\ edit[e].under \in Present \cup {NoCategory}
       /\ edit[e].under # edit[e].category
       /\ edit[e].category \notin Present =>
            \A f \in Editors : edit[f].category = edit[e].category => f = e
  /\ \A e \in Editors : Removing(e) => edit[e].category \in Present
  /\ \A e \in Editors : edit[e].at = "walk" =>
       edit[e].cursor \in Categories /\ edit[e].category \in Present

\* Once c were below under, part would have its parents in itself.
Loop(c, under, part) ==
  /\ part \subseteq Living
  /\ c \in part /\ under \in part
  /\ \A d \in part : d # c => parent[d] \in part

\* The walk of the only move is inside every part that would become a cycle.
NoLoops ==
  ~crossed.moves =>
    /\ Acyclic
    /\ \A e, f \in Editors : Moving(e) /\ Moving(f) => e = f
    /\ \A e \in Editors : Moving(e) =>
         \A part : Loop(edit[e].category, edit[e].under, part) =>
           edit[e].at = "walk" /\ edit[e].cursor \in part

NoneBelowDeleted ==
  ~crossed.removal =>
    /\ \A c \in Living : parent[c] \in Living \cup {NoCategory}
    /\ \A e \in Editors : Saving(e) => edit[e].under \in Living \cup {NoCategory}
    /\ \A e \in Editors : Removing(e) =>
         /\ \A d \in Living : parent[d] # edit[e].category
         /\ \A f \in Editors : ~Saving(f)

TreeInv == TreeTypes /\ Shape /\ NoLoops /\ NoneBelowDeleted

LEMMA EditMade ==
  \A at, c, under, cursor :
    /\ Edit(at, c, under, cursor).at = at /\ Edit(at, c, under, cursor).category = c
    /\ Edit(at, c, under, cursor).under = under /\ Edit(at, c, under, cursor).cursor = cursor
    /\ at \in {"idle", "walk", "write", "delete"} /\ c \in Roots /\ under \in Roots
         /\ cursor \in Roots => Edit(at, c, under, cursor) \in Edits
    /\ NoEdit.at = "idle" /\ NoEdit.category = NoCategory /\ NoEdit \in Edits
  BY DEF Edit, Edits, NoEdit, Roots

-----------------------------------------------------------------------------
LEMMA SaveStarts ==
  ASSUME TreeInv, NEW e \in Editors, NEW c \in Categories, NEW under \in Roots,
         StartSave(e, c, under)
  PROVE  TreeInv'
  <1> DEFINE at == IF rowOf[c] = "live" /\ under # NoCategory THEN "walk" ELSE "write"
             new == Edit(at, c, under, under)
  <1>1. /\ edit' = [edit EXCEPT ![e] = new] /\ UNCHANGED <<rowOf, parent>>
        /\ edit[e] = NoEdit /\ rowOf[c] # "deleted" /\ under # c
        /\ under # NoCategory => rowOf[under] = "live"
        /\ rowOf[c] = "absent" => \A f \in Editors : edit[f].category # c
    BY DEF StartSave
  <1>2. /\ crossed' \in [moves : BOOLEAN, removal : BOOLEAN]
        /\ ~crossed'.moves => /\ ~crossed.moves
                              /\ rowOf[c] = "live" => \A f \in Editors : ~Moving(f)
        /\ ~crossed'.removal => ~crossed.removal /\ \A f \in Editors : ~Removing(f)
    BY DEF StartSave, TreeInv, TreeTypes
  <1>3. /\ at \in {"walk", "write"} /\ new \in Edits /\ new.at = at /\ new.category = c
        /\ new.under = under /\ new.cursor = under
        /\ at = "walk" <=> rowOf[c] = "live" /\ under # NoCategory
    BY EditMade DEF Roots
  <1>4. /\ c \in Present \/ rowOf[c] = "absent"
        /\ under \in Living \cup {NoCategory} /\ Living \subseteq Present
        /\ rowOf[c] \in {"live", "absent"}
    BY <1>1 DEF TreeInv, TreeTypes, Present, Living, Roots
  <1> HIDE DEF at, new
  <1>5. /\ edit'[e] = new /\ \A f \in Editors : f # e => edit'[f] = edit[f]
        /\ ~Saving(e) /\ ~Removing(e) /\ ~Moving(e)
        /\ Living' = Living /\ Present' = Present
    BY <1>1, EditMade DEF TreeInv, TreeTypes, Saving, Removing, Moving, Living, Present
  <1>6. TreeTypes'
    BY <1>1, <1>2, <1>3 DEF TreeInv, TreeTypes
  <1>7. Shape'
    <2>1. \A d \in Categories : parent'[d] \in Present' \cup {NoCategory}
      BY <1>1, <1>5 DEF TreeInv, Shape
    <2>2. ASSUME NEW f \in Editors, Saving(f)'
          PROVE  /\ edit'[f].category \in Categories
                 /\ edit'[f].under \in Present' \cup {NoCategory}
                 /\ edit'[f].under # edit'[f].category
                 /\ edit'[f].category \notin Present' =>
                      \A g \in Editors : edit'[g].category = edit'[f].category => g = f
      <3>1. CASE f = e
        BY <1>1, <1>3, <1>4, <1>5, <3>1 DEF Present
      <3>2. CASE f # e
        <4>1. Saving(f)
          BY <1>5, <2>2, <3>2 DEF Saving
        <4>2. edit[f].category \notin Present => edit[f].category # c
          BY <1>1, <1>4
        <4> QED
          BY <1>3, <1>5, <3>2, <4>1, <4>2 DEF TreeInv, Shape
      <3> QED
        BY <3>1, <3>2
    <2>3. ASSUME NEW f \in Editors, Removing(f)' PROVE edit'[f].category \in Present'
      BY <1>3, <1>5, <2>3 DEF TreeInv, Shape, Removing
    <2>4. ASSUME NEW f \in Editors, edit'[f].at = "walk"
          PROVE  edit'[f].cursor \in Categories /\ edit'[f].category \in Present'
      BY <1>3, <1>4, <1>5, <2>4 DEF TreeInv, Shape, Present, Living
    <2> QED
      BY <2>1, <2>2, <2>3, <2>4 DEF Shape
  <1>8. NoLoops'
    <2> SUFFICES ASSUME ~crossed'.moves
                 PROVE  /\ Acyclic'
                        /\ \A f, g \in Editors : Moving(f)' /\ Moving(g)' => f = g
                        /\ \A f \in Editors : Moving(f)' =>
                             \A part : Loop(edit[f].category, edit[f].under, part)' =>
                               edit'[f].at = "walk" /\ edit'[f].cursor \in part
      BY DEF NoLoops
    <2>1. ~crossed.moves /\ (rowOf[c] = "live" => \A f \in Editors : ~Moving(f))
      BY <1>2
    <2>2. Acyclic'
      BY <1>1, <1>5, <2>1 DEF TreeInv, NoLoops, Acyclic
    <2>3. ASSUME NEW f \in Editors, Moving(f)', f # e PROVE Moving(f) /\ rowOf[c] # "live"
      BY <1>1, <1>5, <2>1, <2>3 DEF Moving, Saving
    <2>4. Moving(e)' => rowOf[c] = "live"
      BY <1>1, <1>3, <1>4, <1>5 DEF Moving
    <2>5. ASSUME NEW f \in Editors, Moving(f)', NEW part,
                 Loop(edit[f].category, edit[f].under, part)'
          PROVE  edit'[f].at = "walk" /\ edit'[f].cursor \in part
      <3>1. CASE f = e
        <4>1. under \in part /\ part \subseteq Categories
          BY <1>3, <1>5, <2>5, <3>1 DEF Loop, Living
        <4> QED
          BY <1>3, <1>5, <2>4, <2>5, <3>1, <4>1, TreeAssumption
      <3>2. CASE f # e
        <4>1. Loop(edit[f].category, edit[f].under, part)
          BY <1>1, <1>5, <2>5, <3>2 DEF Loop
        <4> QED
          BY <1>5, <2>1, <2>3, <2>5, <3>2, <4>1 DEF TreeInv, NoLoops
      <3> QED
        BY <3>1, <3>2
    <2>6. \A f, g \in Editors : Moving(f)' /\ Moving(g)' => f = g
      BY <2>1, <2>3, <2>4 DEF TreeInv, NoLoops
    <2> QED
      BY <2>2, <2>5, <2>6
  <1>9. NoneBelowDeleted'
    <2> SUFFICES ASSUME ~crossed'.removal
                 PROVE  /\ \A d \in Living' : parent'[d] \in Living' \cup {NoCategory}
                        /\ \A f \in Editors : Saving(f)' =>
                             edit'[f].under \in Living' \cup {NoCategory}
                        /\ \A f \in Editors : ~Removing(f)'
      BY DEF NoneBelowDeleted
    <2>1. ~crossed.removal /\ \A f \in Editors : ~Removing(f)
      BY <1>2
    <2>2. \A f \in Editors : ~Removing(f)'
      BY <1>3, <1>5, <2>1 DEF Removing
    <2> QED
      BY <1>1, <1>3, <1>4, <1>5, <2>1, <2>2 DEF TreeInv, NoneBelowDeleted, Saving
  <1> QED
    BY <1>6, <1>7, <1>8, <1>9 DEF TreeInv

\* A request that ends, or has not begun to save, and no category changes.
LEMMA EditsEnd ==
  ASSUME TreeInv, NEW e \in Editors, edit' = [edit EXCEPT ![e] = NoEdit],
         UNCHANGED <<rowOf, parent, crossed>>
  PROVE  TreeInv'
  <1>1. /\ edit'[e] = NoEdit /\ \A f \in Editors : f # e => edit'[f] = edit[f]
        /\ Living' = Living /\ Present' = Present
        /\ ~Saving(e)' /\ ~Removing(e)' /\ ~Moving(e)'
    BY EditMade DEF TreeInv, TreeTypes, Living, Present, Saving, Removing, Moving
  <1>2. \A f \in Editors : f # e =>
          /\ (Saving(f)' <=> Saving(f)) /\ (Removing(f)' <=> Removing(f)) /\ (Moving(f)' <=> Moving(f))
    BY <1>1 DEF Saving, Removing, Moving
  <1>3. TreeTypes'
    BY EditMade DEF TreeInv, TreeTypes
  <1>4. Shape'
    <2>1. \A f \in Editors : f # e /\ Saving(f)' /\ edit'[f].category \notin Present' =>
            \A g \in Editors : edit'[g].category = edit'[f].category => g = f
      BY <1>1, <1>2, EditMade, TreeAssumption DEF TreeInv, Shape
    <2>2. \A f \in Editors : edit'[f].at = "walk" => f # e
      BY <1>1, EditMade
    <2> QED
      BY <1>1, <1>2, <2>1, <2>2 DEF TreeInv, Shape
  <1>5. NoLoops'
    <2>1. \A f \in Editors : \A part : f # e =>
            Loop(edit[f].category, edit[f].under, part)' = Loop(edit[f].category, edit[f].under, part)
      BY <1>1 DEF Loop
    <2> QED
      BY <1>1, <1>2, <2>1 DEF TreeInv, NoLoops, Acyclic
  <1>6. NoneBelowDeleted'
    BY <1>1, <1>2 DEF TreeInv, NoneBelowDeleted
  <1> QED
    BY <1>3, <1>4, <1>5, <1>6 DEF TreeInv

LEMMA WalkGoesOn == ASSUME TreeInv, NEW e \in Editors, Walk(e) PROVE TreeInv'
  <1> DEFINE next == Ancestor(edit[e].cursor)
             at == IF next = NoCategory THEN "write" ELSE "walk"
             new == [edit[e] EXCEPT !.cursor = next, !.at = at]
  <1>1. CASE Closes(e)
    BY <1>1, EditsEnd DEF Walk
  <1>2. CASE ~Closes(e)
    <2>1. /\ edit[e].at = "walk" /\ edit[e].cursor # edit[e].category
          /\ edit[e].cursor \in Categories /\ edit[e].category \in Present
          /\ edit[e] \in Edits
          /\ edit' = [edit EXCEPT ![e].cursor = next, ![e].at = at]
      BY <1>2 DEF Walk, Closes, TreeInv, TreeTypes, Shape
    <2>0. UNCHANGED <<rowOf, parent, crossed>>
      BY DEF Walk
    <2>2. next \in Roots /\ (next # NoCategory => next \in Categories)
      BY <2>1 DEF TreeInv, TreeTypes, Ancestor, Roots
    <2>3. edit' = [edit EXCEPT ![e] = new]
      BY <2>1 DEF TreeInv, TreeTypes, Edits
    <2> HIDE DEF next
    <2>4. /\ new \in Edits /\ new.at = at /\ new.category = edit[e].category
          /\ new.under = edit[e].under /\ new.cursor = next
      BY <2>1, <2>2 DEF Edits
    <2>4a. at \in {"walk", "write"} /\ (at = "walk" => next # NoCategory)
          /\ (at = "write" => next = NoCategory)
      OBVIOUS
    <2> HIDE DEF new, at
    <2>5. /\ edit'[e] = new /\ \A f \in Editors : f # e => edit'[f] = edit[f]
          /\ Living' = Living /\ Present' = Present
          /\ \A f \in Editors : /\ edit'[f].category = edit[f].category
                                /\ edit'[f].under = edit[f].under
                                /\ (Saving(f)' <=> Saving(f)) /\ (Removing(f)' <=> Removing(f))
                                /\ (Moving(f)' <=> Moving(f))
      <3>1. edit'[e] = new /\ \A f \in Editors : f # e => edit'[f] = edit[f]
        BY <2>3 DEF TreeInv, TreeTypes
      <3>2. \A f \in Editors : /\ edit'[f].category = edit[f].category
                               /\ edit'[f].under = edit[f].under
                               /\ (Saving(f)' <=> Saving(f)) /\ (Removing(f)' <=> Removing(f))
        BY <2>1, <2>4, <2>4a, <3>1 DEF Saving, Removing
      <3> QED
        BY <2>0, <3>1, <3>2 DEF Living, Present, Moving
    <2>6. TreeTypes'
      BY <2>0, <2>3, <2>4 DEF TreeInv, TreeTypes
    <2>7. Shape'
      <3>1. \A f \in Editors : edit'[f].at = "walk" =>
               edit'[f].cursor \in Categories /\ edit'[f].category \in Present'
        <4> SUFFICES ASSUME NEW f \in Editors, edit'[f].at = "walk"
                     PROVE  edit'[f].cursor \in Categories /\ edit'[f].category \in Present'
          OBVIOUS
        <4>1. CASE f = e
          <5>1. edit'[f] = new
            BY <2>5, <4>1
          <5>2. at = "walk"
            BY <2>4, <5>1
          <5> QED
            BY <2>1, <2>2, <2>4, <2>4a, <2>5, <5>1, <5>2
        <4>2. CASE f # e
          <5>1. edit'[f] = edit[f] /\ Present' = Present
            BY <2>5, <4>2
          <5> QED
            BY <5>1 DEF TreeInv, Shape
        <4> QED
          BY <4>1, <4>2
      <3> QED
        BY <2>0, <2>5, <3>1 DEF TreeInv, Shape
    <2>8. ASSUME ~crossed.moves, NEW f \in Editors, Moving(f), NEW part,
                 Loop(edit[f].category, edit[f].under, part)
          PROVE  edit'[f].at = "walk" /\ edit'[f].cursor \in part
      <3>1. edit[f].at = "walk" /\ edit[f].cursor \in part
        BY <2>8 DEF TreeInv, NoLoops
      <3>2. CASE f = e
        <4>1. edit[e].cursor \in Living /\ parent[edit[e].cursor] \in part
          BY <2>1, <2>8, <3>1, <3>2 DEF Loop
        <4>2. next = parent[edit[e].cursor] /\ next \in Categories
          BY <2>8, <4>1 DEF Ancestor, Living, Loop, next
        <4> QED
          BY <2>4, <2>4a, <2>5, <3>2, <4>1, <4>2, TreeAssumption
      <3>3. CASE f # e
        BY <2>5, <3>1, <3>3
      <3> QED
        BY <3>2, <3>3
    <2>9. NoLoops'
      <3>1. \A f \in Editors : \A part :
              Loop(edit[f].category, edit[f].under, part)' = Loop(edit[f].category, edit[f].under, part)
        BY <2>0, <2>5 DEF Loop
      <3>2. Acyclic => Acyclic'
        BY <2>0, <2>5 DEF Acyclic
      <3> QED
        BY <2>0, <2>5, <2>8, <3>1, <3>2 DEF TreeInv, NoLoops
    <2>10. NoneBelowDeleted'
      BY <2>0, <2>5 DEF TreeInv, NoneBelowDeleted
    <2> QED
      BY <2>6, <2>7, <2>9, <2>10 DEF TreeInv
  <1> QED
    BY <1>1, <1>2

LEMMA RemovalStarts ==
  ASSUME TreeInv, NEW e \in Editors, NEW c \in Categories, StartRemove(e, c)
  PROVE  TreeInv'
  <1> DEFINE new == Edit("delete", c, NoCategory, NoCategory)
  <1>1. /\ edit' = [edit EXCEPT ![e] = new] /\ UNCHANGED <<rowOf, parent>>
        /\ edit[e] = NoEdit /\ rowOf[c] = "live" /\ \A d \in Living : parent[d] # c
    BY DEF StartRemove, Living
  <1>2. /\ crossed' \in [moves : BOOLEAN, removal : BOOLEAN]
        /\ crossed'.moves = crossed.moves
        /\ ~crossed'.removal => ~crossed.removal /\ \A f \in Editors : ~Saving(f)
    BY DEF StartRemove, TreeInv, TreeTypes
  <1>3. /\ new \in Edits /\ new.at = "delete" /\ new.category = c
    BY EditMade DEF Roots
  <1> HIDE DEF new
  <1>4. /\ edit'[e] = new /\ \A f \in Editors : f # e => edit'[f] = edit[f]
        /\ Living' = Living /\ Present' = Present /\ c \in Present
        /\ ~Saving(e) /\ ~Removing(e) /\ ~Moving(e) /\ ~Saving(e)' /\ ~Moving(e)'
    BY <1>1, <1>3, EditMade DEF TreeInv, TreeTypes, Saving, Removing, Moving, Living, Present
  <1>5. \A f \in Editors : f # e =>
          /\ (Saving(f)' <=> Saving(f)) /\ (Removing(f)' <=> Removing(f)) /\ (Moving(f)' <=> Moving(f))
    BY <1>1, <1>4 DEF Saving, Removing, Moving
  <1>6. TreeTypes'
    BY <1>1, <1>2, <1>3 DEF TreeInv, TreeTypes
  <1>7. Shape'
    <2>1. \A f \in Editors : f # e /\ Saving(f)' /\ edit'[f].category \notin Present' =>
            \A g \in Editors : edit'[g].category = edit'[f].category => g = f
      BY <1>3, <1>4, <1>5 DEF TreeInv, Shape
    <2>2. \A f \in Editors : edit'[f].at = "walk" => f # e
      BY <1>3, <1>4
    <2> QED
      BY <1>1, <1>3, <1>4, <1>5, <2>1, <2>2 DEF TreeInv, Shape
  <1>8. NoLoops'
    <2>1. \A f \in Editors : \A part : f # e =>
            Loop(edit[f].category, edit[f].under, part)' = Loop(edit[f].category, edit[f].under, part)
      BY <1>1, <1>4 DEF Loop
    <2>2. Acyclic => Acyclic'
      BY <1>1, <1>4 DEF Acyclic
    <2> QED
      BY <1>1, <1>2, <1>4, <1>5, <2>1, <2>2 DEF TreeInv, NoLoops
  <1>9. NoneBelowDeleted'
    <2> SUFFICES ASSUME ~crossed'.removal
                 PROVE  /\ \A d \in Living' : parent'[d] \in Living' \cup {NoCategory}
                        /\ \A f \in Editors : ~Saving(f)'
                        /\ \A f \in Editors : Removing(f)' =>
                             \A d \in Living' : parent'[d] # edit'[f].category
      BY DEF NoneBelowDeleted
    <2> QED
      BY <1>1, <1>2, <1>3, <1>4, <1>5 DEF TreeInv, NoneBelowDeleted
  <1> QED
    BY <1>6, <1>7, <1>8, <1>9 DEF TreeInv

LEMMA DeleteEnds == ASSUME TreeInv, NEW e \in Editors, DeleteCategory(e) PROVE TreeInv'
  <1> DEFINE c == edit[e].category
  <1>1. /\ Removing(e) /\ edit' = [edit EXCEPT ![e] = NoEdit] /\ UNCHANGED <<parent, crossed>>
        /\ rowOf' = [rowOf EXCEPT ![c] = "deleted"] /\ c \in Present
    BY DEF DeleteCategory, Removing, TreeInv, Shape
  <1> HIDE DEF c
  <1>2. /\ edit'[e] = NoEdit /\ \A f \in Editors : f # e => edit'[f] = edit[f]
        /\ Present' = Present /\ Living' = Living \ {c}
        /\ ~Saving(e)' /\ ~Removing(e)' /\ ~Moving(e)'
    BY <1>1, EditMade DEF TreeInv, TreeTypes, Living, Present, Saving, Removing, Moving
  <1>3. \A f \in Editors : f # e =>
          /\ (Saving(f)' <=> Saving(f)) /\ (Removing(f)' <=> Removing(f)) /\ (Moving(f)' => Moving(f))
    BY <1>1, <1>2 DEF Saving, Removing, Moving, Present, TreeInv, TreeTypes
  <1>4. TreeTypes'
    BY <1>1, EditMade DEF TreeInv, TreeTypes, Present
  <1>5. Shape'
    <2>1. \A f \in Editors : f # e /\ Saving(f)' /\ edit'[f].category \notin Present' =>
            \A g \in Editors : edit'[g].category = edit'[f].category => g = f
      BY <1>2, <1>3, EditMade, TreeAssumption DEF TreeInv, Shape
    <2>2. \A f \in Editors : edit'[f].at = "walk" => f # e
      BY <1>2, EditMade
    <2> QED
      BY <1>1, <1>2, <1>3, <2>1, <2>2 DEF TreeInv, Shape
  <1>6. NoLoops'
    <2>1. \A f \in Editors : \A part : f # e =>
            (Loop(edit[f].category, edit[f].under, part)' => Loop(edit[f].category, edit[f].under, part))
      BY <1>1, <1>2 DEF Loop
    <2>2. Acyclic => Acyclic'
      BY <1>1, <1>2 DEF Acyclic
    <2> QED
      BY <1>1, <1>2, <1>3, <2>1, <2>2 DEF TreeInv, NoLoops
  <1>7. NoneBelowDeleted'
    <2> SUFFICES ASSUME ~crossed.removal
                 PROVE  /\ \A d \in Living' : parent'[d] \in Living' \cup {NoCategory}
                        /\ \A f \in Editors : ~Saving(f)'
                        /\ \A f \in Editors : Removing(f)' =>
                             \A d \in Living' : parent'[d] # edit'[f].category
      BY <1>1 DEF NoneBelowDeleted
    <2>1. (\A d \in Living : parent[d] # c) /\ \A f \in Editors : ~Saving(f)
      BY <1>1 DEF TreeInv, NoneBelowDeleted, c
    <2> QED
      BY <1>1, <1>2, <1>3, <2>1 DEF TreeInv, NoneBelowDeleted
  <1> QED
    BY <1>4, <1>5, <1>6, <1>7 DEF TreeInv

LEMMA CategoryWritten == ASSUME TreeInv, NEW e \in Editors, WriteCategory(e) PROVE TreeInv'
  <1> DEFINE c == edit[e].category
             under == edit[e].under
  <1>1. /\ edit[e].at = "write" /\ Saving(e)
        /\ parent' = [parent EXCEPT ![c] = under]
        /\ rowOf' = [rowOf EXCEPT ![c] = IF rowOf[c] = "absent" THEN "live" ELSE rowOf[c]]
        /\ edit' = [edit EXCEPT ![e] = NoEdit]
    BY DEF WriteCategory, Saving, TreeInv, TreeTypes
  <1>2. UNCHANGED crossed
    BY DEF WriteCategory
  <1>3. /\ c \in Categories /\ under \in Present \cup {NoCategory} /\ under # c
        /\ c \notin Present => \A f \in Editors : edit[f].category = c => f = e
    BY <1>1 DEF TreeInv, Shape
  <1>4. edit[e].at # "walk"
    BY <1>1
  <1> HIDE DEF c, under
  <1>5. /\ edit'[e] = NoEdit /\ \A f \in Editors : f # e => edit'[f] = edit[f]
        /\ ~Saving(e)' /\ ~Removing(e)' /\ ~Moving(e)' /\ edit'[e].at # "walk"
        /\ edit'[e].category = NoCategory
    BY <1>1, EditMade DEF TreeInv, TreeTypes, Saving, Removing, Moving
  <1>6. /\ parent'[c] = under /\ \A d \in Categories : d # c => parent'[d] = parent[d]
        /\ \A d \in Categories : d # c => rowOf'[d] = rowOf[d]
        /\ rowOf[c] # "absent" => rowOf'[c] = rowOf[c]
        /\ rowOf[c] = "absent" => rowOf'[c] = "live"
    BY <1>1, <1>3 DEF TreeInv, TreeTypes
  <1>7. /\ Present' = Present \cup {c}
        /\ c \in Present => Living' = Living
        /\ c \notin Present => Living' = Living \cup {c}
        /\ Living \subseteq Present /\ Present \subseteq Categories
    BY <1>3, <1>6 DEF Present, Living
  <1>8. \A f \in Editors : f # e => (Saving(f)' <=> Saving(f)) /\ (Removing(f)' <=> Removing(f))
    BY <1>5 DEF Saving, Removing
  <1>9. TreeTypes'
    <2>1. under \in Roots
      BY <1>3, <1>7 DEF Roots
    <2>2. rowOf' \in [Categories -> {"absent", "live", "deleted"}]
      BY <1>1, <1>3 DEF TreeInv, TreeTypes
    <2>3. parent' \in [Categories -> Roots]
      BY <1>1, <2>1 DEF TreeInv, TreeTypes
    <2>4. edit' \in [Editors -> Edits]
      BY <1>1, EditMade DEF TreeInv, TreeTypes
    <2> QED
      BY <1>2, <2>2, <2>3, <2>4 DEF TreeInv, TreeTypes
  <1>10. Shape'
    <2>1. \A d \in Categories : parent'[d] \in Present' \cup {NoCategory}
      BY <1>3, <1>6, <1>7 DEF TreeInv, Shape
    <2>2. ASSUME NEW f \in Editors, Saving(f)'
          PROVE  /\ edit'[f].category \in Categories
                 /\ edit'[f].under \in Present' \cup {NoCategory}
                 /\ edit'[f].under # edit'[f].category
                 /\ edit'[f].category \notin Present' =>
                      \A g \in Editors : edit'[g].category = edit'[f].category => g = f
      <3>1. f # e /\ Saving(f) /\ edit'[f] = edit[f]
        BY <1>5, <1>8, <2>2
      <3>2. edit[f].category # NoCategory
        BY <3>1, TreeAssumption DEF TreeInv, Shape
      <3> QED
        BY <1>5, <1>7, <3>1, <3>2 DEF TreeInv, Shape
    <2>3. ASSUME NEW f \in Editors, Removing(f)' PROVE edit'[f].category \in Present'
      BY <1>5, <1>7, <1>8, <2>3 DEF TreeInv, Shape
    <2>4. ASSUME NEW f \in Editors, edit'[f].at = "walk"
          PROVE  edit'[f].cursor \in Categories /\ edit'[f].category \in Present'
      <3>1. f # e /\ edit'[f] = edit[f]
        BY <1>5, <2>4
      <3> QED
        BY <1>7, <2>4, <3>1 DEF TreeInv, Shape
    <2> QED
      BY <2>1, <2>2, <2>3, <2>4 DEF Shape
  <1>11. ASSUME NEW f \in Editors, f # e, Moving(f)'
         PROVE  /\ Saving(f) /\ edit'[f] = edit[f] /\ (edit[f].category # c \/ c \in Present)
                /\ c \in Present => Moving(f)
                /\ c \notin Present => Moving(f) /\ edit[f].category # c
    <2>1. Saving(f) /\ edit'[f] = edit[f] /\ rowOf'[edit[f].category] # "absent"
      BY <1>5, <1>8, <1>11 DEF Moving
    <2>2. edit[f].category \in Categories
      BY <2>1 DEF TreeInv, Shape
    <2>3. c \notin Present => edit[f].category # c
      BY <1>3, <1>11
    <2>4. Moving(f) <=> rowOf[edit[f].category] # "absent"
      BY <2>1 DEF Moving
    <2>5. c \in Present <=> rowOf[c] # "absent"
      BY <1>3 DEF Present
    <2> QED
      BY <1>6, <2>1, <2>2, <2>3, <2>4, <2>5
  <1>12. NoLoops'
    <2> SUFFICES ASSUME ~crossed.moves PROVE
                        /\ Acyclic'
                        /\ \A f, g \in Editors : Moving(f)' /\ Moving(g)' => f = g
                        /\ \A f \in Editors : Moving(f)' =>
                             \A part : Loop(edit[f].category, edit[f].under, part)' =>
                               edit'[f].at = "walk" /\ edit'[f].cursor \in part
      BY <1>2 DEF NoLoops
    <2>1. \A f, g \in Editors : Moving(f)' /\ Moving(g)' => f = g
      BY <1>5, <1>11 DEF TreeInv, NoLoops
    <2>2. CASE c \in Present
      <3>1. Moving(e)
        BY <1>1, <1>3, <2>2 DEF Moving, Present, c
      <3>2. \A f \in Editors : ~Moving(f)'
        BY <1>5, <1>11, <2>2, <3>1 DEF TreeInv, NoLoops
      <3>3. ASSUME NEW part \in (SUBSET Living') \ {{}} PROVE \E d \in part : parent'[d] \notin part
        <4>1. part \in (SUBSET Living) \ {{}} /\ part \subseteq Categories
          BY <1>7, <2>2
        <4>2. CASE c \notin part
          BY <1>6, <4>1, <4>2 DEF TreeInv, NoLoops, Acyclic
        <4>3. CASE c \in part
          <5>1. ~Loop(c, under, part)
            BY <1>4, <3>1 DEF TreeInv, NoLoops, c, under
          <5> QED
            BY <1>6, <4>1, <4>3, <5>1 DEF Loop
        <4> QED
          BY <4>2, <4>3
      <3>4. Acyclic'
        BY <3>3 DEF Acyclic
      <3> QED
        BY <2>1, <3>2, <3>4
    <2>3. CASE c \notin Present
      <3>1. \A d \in Categories : parent[d] # c
        BY <1>3, <2>3, TreeAssumption DEF TreeInv, Shape
      <3>2. ASSUME NEW part \in (SUBSET Living') \ {{}} PROVE \E d \in part : parent'[d] \notin part
        <4>0. Living' = Living \cup {c} /\ Living \subseteq Categories
          BY <1>7, <2>3
        <4>1. part \ {c} \in SUBSET Living /\ part # {} /\ part \ {c} \subseteq Categories
          <5>1. part \subseteq Living \cup {c} /\ part # {}
            BY <4>0
          <5> QED
            BY <4>0, <5>1
        <4>2. CASE part \ {c} = {}
          BY <1>3, <1>6, <4>1, <4>2
        <4>3. CASE part \ {c} # {}
          <5>1. PICK d \in part \ {c} : parent[d] \notin part \ {c}
            BY <4>1, <4>3 DEF TreeInv, NoLoops, Acyclic
          <5> QED
            BY <1>6, <3>1, <4>1, <5>1
        <4> QED
          BY <4>2, <4>3
      <3>3. Acyclic'
        BY <3>2 DEF Acyclic
      <3>4. ASSUME NEW f \in Editors, Moving(f)', NEW part,
                   Loop(edit[f].category, edit[f].under, part)'
            PROVE  edit'[f].at = "walk" /\ edit'[f].cursor \in part
        <4>1. f # e /\ Moving(f) /\ edit'[f] = edit[f] /\ edit[f].category # c
          BY <1>5, <1>11, <2>3, <3>4
        <4>2. edit[f].under # c
          BY <1>3, <2>3, <4>1, TreeAssumption DEF TreeInv, Shape, Moving
        <4>3. /\ part \subseteq Living \cup {c} /\ edit[f].category \in part
              /\ edit[f].under \in part
              /\ \A d \in part : d # edit[f].category => parent'[d] \in part
          BY <1>7, <2>3, <3>4, <4>1 DEF Loop
        <4>4. Loop(edit[f].category, edit[f].under, part \ {c})
          <5>1. ASSUME NEW d \in part \ {c}, d # edit[f].category PROVE parent[d] \in part \ {c}
            BY <1>6, <1>7, <3>1, <4>3, <5>1
          <5> QED
            BY <4>1, <4>2, <4>3, <5>1 DEF Loop
        <4>5. edit[f].at = "walk" /\ edit[f].cursor \in part \ {c}
          BY <4>1, <4>4 DEF TreeInv, NoLoops
        <4> QED
          BY <4>1, <4>5
      <3> QED
        BY <2>1, <3>3, <3>4
    <2> QED
      BY <2>2, <2>3
  <1>13. NoneBelowDeleted'
    <2> SUFFICES ASSUME ~crossed.removal
                 PROVE  /\ \A d \in Living' : parent'[d] \in Living' \cup {NoCategory}
                        /\ \A f \in Editors : Saving(f)' =>
                             edit'[f].under \in Living' \cup {NoCategory}
                        /\ \A f \in Editors : ~Removing(f)'
      BY <1>2 DEF NoneBelowDeleted
    <2>1. \A f \in Editors : ~Removing(f)
      BY <1>1 DEF TreeInv, NoneBelowDeleted
    <2>2. \A f \in Editors : ~Removing(f)'
      BY <1>5, <1>8, <2>1
    <2>3. under \in Living \cup {NoCategory}
      BY <1>1 DEF TreeInv, NoneBelowDeleted, under
    <2>4. Living \subseteq Living' /\ Living' \subseteq Living \cup {c} /\ Living \subseteq Categories
      BY <1>7
    <2>5. ASSUME NEW d \in Living' PROVE parent'[d] \in Living' \cup {NoCategory}
      <3>1. CASE d = c
        BY <1>6, <2>3, <2>4, <3>1
      <3>2. CASE d # c
        BY <1>6, <2>4, <3>2 DEF TreeInv, NoneBelowDeleted
      <3> QED
        BY <3>1, <3>2
    <2>6. ASSUME NEW f \in Editors, Saving(f)' PROVE edit'[f].under \in Living' \cup {NoCategory}
      BY <1>5, <1>8, <2>4, <2>6 DEF TreeInv, NoneBelowDeleted
    <2> QED
      BY <2>2, <2>5, <2>6
  <1> QED
    BY <1>9, <1>10, <1>12, <1>13 DEF TreeInv

LEMMA TreeStarts == TreeInit => TreeInv
  <1> SUFFICES ASSUME TreeInit PROVE TreeInv
    OBVIOUS
  <1>1. /\ \A e \in Editors : edit[e] = NoEdit
        /\ \A e \in Editors : ~Saving(e) /\ ~Removing(e) /\ ~Moving(e) /\ edit[e].at # "walk"
        /\ \A c \in Categories : parent[c] = NoCategory
    BY EditMade DEF TreeInit, Saving, Removing, Moving
  <1>2. Living = {}
    BY DEF TreeInit, Living
  <1>3. TreeTypes
    BY EditMade DEF TreeInit, TreeTypes, Roots
  <1>4. Shape
    BY <1>1 DEF Shape
  <1>5. Acyclic
    <2>1. (SUBSET Living) \ {{}} = {}
      BY <1>2
    <2> QED
      BY <2>1 DEF Acyclic
  <1>6. NoLoops
    BY <1>1, <1>5 DEF NoLoops
  <1>7. NoneBelowDeleted
    BY <1>1, <1>2 DEF NoneBelowDeleted
  <1> QED
    BY <1>3, <1>4, <1>6, <1>7 DEF TreeInv

LEMMA TreeStep == TreeInv /\ [TreeNext]_treeVars => TreeInv'
  <1>1. TreeInv /\ UNCHANGED treeVars => TreeInv'
    <2> SUFFICES ASSUME TreeInv, UNCHANGED treeVars PROVE TreeInv'
      OBVIOUS
    <2>1. UNCHANGED <<rowOf, parent, edit, crossed>>
      BY DEF treeVars
    <2>2. Living' = Living /\ Present' = Present /\ (Acyclic => Acyclic')
      BY <2>1 DEF Living, Present, Acyclic
    <2>3. \A e \in Editors : /\ (Saving(e)' <=> Saving(e)) /\ (Removing(e)' <=> Removing(e))
                             /\ (Moving(e)' <=> Moving(e))
      BY <2>1 DEF Saving, Removing, Moving
    <2>4. TreeTypes' /\ Shape' /\ NoneBelowDeleted'
      BY <2>1, <2>2, <2>3 DEF TreeInv, TreeTypes, Shape, NoneBelowDeleted
    <2>5. \A e \in Editors : \A part :
            (Loop(edit[e].category, edit[e].under, part)' => Loop(edit[e].category, edit[e].under, part))
      BY <2>1, <2>2 DEF Loop
    <2>6. NoLoops'
      BY <2>1, <2>2, <2>3, <2>5 DEF TreeInv, NoLoops
    <2> QED
      BY <2>4, <2>6 DEF TreeInv
  <1>2. ASSUME TreeInv, NEW e \in Editors, EditFails(e) PROVE TreeInv'
    BY <1>2, EditsEnd DEF EditFails
  <1> QED
    BY <1>1, <1>2, SaveStarts, WalkGoesOn, CategoryWritten, RemovalStarts, DeleteEnds DEF TreeNext

\* No category becomes its own ancestor unless two moves overlapped, and none is
\* left below a deleted one unless a removal overlapped with a save: for any
\* categories and any number of administrators.
THEOREM TreeStaysSound == TreeSpec => []TreeSound
  <1>1. TreeInv => TreeSound
    BY DEF TreeInv, NoLoops, NoneBelowDeleted, TreeSound
  <1> QED
    BY <1>1, TreeStarts, TreeStep, PTL DEF TreeSpec

\* The types of the categories and of the edits.
LEMMA TreeTyped == TreeSpec => []TreeTypeOK
  <1>1. TreeInv => TreeTypeOK
    BY DEF TreeInv, TreeTypes, TreeTypeOK, Edits
  <1> QED
    BY <1>1, TreeStarts, TreeStep, PTL DEF TreeSpec

-----------------------------------------------------------------------------
\* A row that a form or the cache has: when nothing was reserved as it was
\* read, the stock it shows is what there was on the shelf.
Honest(row, wrong) ==
  row.sku \in Skus => /\ row.stock \in Int
                      /\ row.sku \notin wrong /\ row.held = 0 => row.stock = row.shelf

FormRows == [status : {"active", "inactive", "deleted"}, default : BOOLEAN,
             quantity : Int, reserved : Int]

FormTypes ==
  /\ variant \in [Skus -> FormRows]
  /\ onShelf \in [Skus -> Int]
  /\ DOMAIN cached = Browsers /\ DOMAIN form = Browsers

FormsHonest ==
  \A b \in Browsers : /\ cached[b] # NoRow => Honest(cached[b], misread)
                      /\ form[b] # NoRow => Honest(form[b], misread)

ShelfInv == FormTypes /\ FormsHonest /\ StockFollowsShelf

LEMMA DetailHonest == ASSUME ShelfInv, NEW v PROVE Honest(AdminDetail(v), misread)
  BY DEF ShelfInv, FormTypes, FormsHonest, FormRows, Honest, AdminDetail, StockFollowsShelf

LEMMA OpenHonest ==
  ASSUME ShelfInv, NEW b \in Browsers, NEW stale \in BOOLEAN, OpenForm(b, stale)
  PROVE  ShelfInv'
  <1> DEFINE fresh == AdminDetail(ShownVariant)
  <1>1. /\ form' = [form EXCEPT ![b] = IF cached[b] = NoRow THEN fresh ELSE cached[b]]
        /\ cached' = [cached EXCEPT ![b] = IF cached[b] = NoRow \/ stale THEN fresh ELSE cached[b]]
        /\ UNCHANGED <<variant, onShelf, misread>>
    BY DEF OpenForm
  <1>2. Honest(fresh, misread)
    BY DetailHonest
  <1> HIDE DEF fresh
  <1> QED
    BY <1>1, <1>2 DEF ShelfInv, FormTypes, FormsHonest, StockFollowsShelf

LEMMA CloseHonest ==
  ASSUME ShelfInv, NEW b \in Browsers, CacheEmptied(b) \/ CloseForm(b)
  PROVE  ShelfInv'
  BY DEF ShelfInv, FormTypes, FormsHonest, StockFollowsShelf, CacheEmptied, CloseForm

LEMMA RowsCounted ==
  ASSUME NEW o \in FormRows, NEW q \in Int
  PROVE  [o EXCEPT !.quantity = q] \in FormRows /\ [o EXCEPT !.quantity = q].quantity = q
  BY DEF FormRows

LEMMA RowsRenewed ==
  ASSUME NEW o \in FormRows, NEW q \in Int
  PROVE  /\ Variant("active", TRUE, q, o.reserved) \in FormRows
         /\ Variant("active", TRUE, q, o.reserved).quantity = q
  BY DEF FormRows, Variant

LEMMA RowsPutAside ==
  ASSUME NEW o \in FormRows, NEW st \in {"inactive", "deleted"}
  PROVE  /\ [o EXCEPT !.status = st] \in FormRows
         /\ [o EXCEPT !.status = st].quantity = o.quantity
  BY DEF FormRows

LEMMA SyncedVariant ==
  ASSUME ShelfInv, NEW s, NEW q, NEW v \in Skus, v = s => q \in Int
  PROVE  /\ SyncVariants(s, q)[v] \in FormRows
         /\ SyncVariants(s, q)[v].quantity = IF v = s THEN q ELSE variant[v].quantity
  <1> DEFINE old == variant[v]
             new == SyncVariants(s, q)[v]
  <1>1. /\ old \in FormRows
        /\ new = IF v = s
                 THEN IF old.status = "deleted" THEN [old EXCEPT !.quantity = q]
                      ELSE Variant("active", TRUE, q, old.reserved)
                 ELSE IF old.status = "deleted" THEN old
                      ELSE [old EXCEPT !.status = IF v \in inOrders THEN "inactive" ELSE "deleted"]
    BY DEF ShelfInv, FormTypes, FormsHonest, SyncVariants, SetStock
  <1> HIDE DEF old, new
  <1>2. CASE v = s
    <2>1. q \in Int
      BY <1>2
    <2>2. \/ new = [old EXCEPT !.quantity = q]
          \/ new = Variant("active", TRUE, q, old.reserved)
      BY <1>1, <1>2 DEF Variant
    <2> QED
      <3>1. CASE new = [old EXCEPT !.quantity = q]
        <4>1. new \in FormRows /\ new.quantity = q
          BY <1>1, <2>1, <3>1, RowsCounted
        <4> QED
          BY <1>2, <4>1 DEF new
      <3>2. CASE new = Variant("active", TRUE, q, old.reserved)
        <4>1. new \in FormRows /\ new.quantity = q
          BY <1>1, <2>1, <3>2, RowsRenewed, Zenon
        <4> QED
          BY <1>2, <4>1 DEF new
      <3> QED
        BY <2>2, <3>1, <3>2
  <1>3. CASE v # s
    <2>1. \/ new = old
          \/ new = [old EXCEPT !.status = "inactive"]
          \/ new = [old EXCEPT !.status = "deleted"]
      BY <1>1, <1>3
    <2>2. new \in FormRows /\ new.quantity = old.quantity
      BY <1>1, <2>1, RowsPutAside
    <2> QED
      BY <1>3, <2>2 DEF old, new
  <1> QED
    BY <1>2, <1>3

LEMMA SaveHonest ==
  ASSUME ShelfInv, NEW b \in Browsers, NEW received \in {0, 1}, SaveForm(b, received)
  PROVE  ShelfInv'
  <1> DEFINE row == form[b]
             s == row.sku
             q == row.stock + received
  <1>1. /\ row # NoRow
        /\ variant' = SyncVariants(s, q)
        /\ onShelf' = [onShelf EXCEPT ![s] = onShelf[s] + received]
        /\ misread' = IF row.held = 0 /\ row.shelf = onShelf[s]
                      THEN misread ELSE misread \union {s}
        /\ form' = [form EXCEPT ![b] = NoRow] /\ cached' = cached
    BY DEF SaveForm, ShelfInv
  <1>2. /\ Honest(row, misread)
        /\ s \in Skus => row.stock \in Int /\ q \in Int
    BY <1>1 DEF ShelfInv, FormTypes, FormsHonest, Honest
  <1>3. variant' = [v \in Skus |-> variant'[v]]
    BY <1>1 DEF SyncVariants
  <1> HIDE DEF q, s
  <1>4. ASSUME NEW v \in Skus
        PROVE  /\ variant'[v] \in FormRows
               /\ variant'[v].quantity = IF v = s THEN q ELSE variant[v].quantity
    BY <1>1, <1>2, SyncedVariant
  <1>5. variant' \in [Skus -> FormRows]
    <2> DEFINE f == variant'
    <2>1. f = [v \in Skus |-> f[v]] /\ \A v \in Skus : f[v] \in FormRows
      BY <1>3, <1>4
    <2> HIDE DEF f
    <2>2. f \in [Skus -> FormRows]
      BY <2>1
    <2> QED
      BY <2>2 DEF f
  <1>6. onShelf' \in [Skus -> Int]
    <2>1. CASE s \in Skus
      BY <1>1, <2>1 DEF ShelfInv, FormTypes, FormsHonest
    <2>2. CASE s \notin Skus
      BY <1>1, <2>2 DEF ShelfInv, FormTypes, FormsHonest
    <2> QED
      BY <2>1, <2>2
  <1>7. misread \subseteq misread' /\ misread' \subseteq misread \union {s}
    BY <1>1
  <1>8. ASSUME NEW r, Honest(r, misread) PROVE Honest(r, misread')
    BY <1>7, <1>8 DEF Honest
  <1>9. ASSUME NEW v \in Skus, v \notin misread' PROVE variant'[v].quantity = onShelf'[v]
    <2>1. CASE v = s
      <3>1. row.held = 0 /\ row.shelf = onShelf[v] /\ misread' = misread
        BY <1>1, <1>9, <2>1
      <3>2. row.stock = onShelf[v]
        BY <1>2, <1>9, <2>1, <3>1 DEF Honest, s
      <3>3. onShelf'[v] = onShelf[v] + received
        BY <1>1, <2>1 DEF ShelfInv, FormTypes, FormsHonest
      <3> QED
        BY <1>4, <2>1, <3>2, <3>3 DEF q
    <2>2. CASE v # s
      BY <1>1, <1>4, <1>7, <1>9, <2>2 DEF ShelfInv, FormTypes, FormsHonest, StockFollowsShelf
    <2> QED
      BY <2>1, <2>2
  <1>10. \A v \in Skus : variant'[v].quantity = onShelf'[v] \/ v \in misread'
    BY <1>9
  <1>11. \A c \in Browsers : /\ cached'[c] # NoRow => Honest(cached'[c], misread')
                             /\ form'[c] # NoRow => Honest(form'[c], misread')
    BY <1>1, <1>8 DEF ShelfInv, FormTypes, FormsHonest
  <1>12. (DOMAIN cached)' = Browsers /\ (DOMAIN form)' = Browsers
    <2>1. DOMAIN cached = Browsers /\ DOMAIN form = Browsers
      BY DEF ShelfInv, FormTypes, FormsHonest
    <2> QED
      BY <1>1, <2>1
  <1>13. StockFollowsShelf'
    BY <1>10 DEF StockFollowsShelf
  <1>14. FormsHonest'
    BY <1>11 DEF FormsHonest
  <1>15. FormTypes'
    BY <1>5, <1>6, <1>12 DEF FormTypes
  <1> QED
    BY <1>13, <1>14, <1>15 DEF ShelfInv

LEMMA UnitHonest ==
  ASSUME ShelfInv, NEW v \in Skus, OrderUnit(v) \/ SellUnit(v) \/ ReleaseUnit(v)
  PROVE  ShelfInv'
  <1>1. UNCHANGED <<cached, form, misread>>
    BY DEF OrderUnit, SellUnit, ReleaseUnit
  <1>2. variant \in [Skus -> FormRows]
    BY DEF ShelfInv, FormTypes, FormsHonest
  <1>3. \A w \in Skus : variant[w].quantity \in Int /\ onShelf[w] \in Int
    BY DEF ShelfInv, FormTypes, FormsHonest, FormRows
  <1>4. CASE OrderUnit(v) \/ ReleaseUnit(v)
    <2>1. /\ variant' \in [Skus -> FormRows] /\ onShelf' = onShelf
          /\ \A w \in Skus : variant'[w].quantity = variant[w].quantity
      BY <1>2, <1>4 DEF OrderUnit, ReleaseUnit, FormRows
    <2> QED
      BY <1>1, <2>1 DEF ShelfInv, FormTypes, FormsHonest, StockFollowsShelf
  <1>5. CASE SellUnit(v)
    <2>1. /\ variant' \in [Skus -> FormRows] /\ onShelf' \in [Skus -> Int]
          /\ \A w \in Skus : w # v => /\ variant'[w].quantity = variant[w].quantity
                                    /\ onShelf'[w] = onShelf[w]
          /\ variant'[v].quantity = variant[v].quantity - 1
          /\ onShelf'[v] = onShelf[v] - 1
      BY <1>2, <1>5 DEF SellUnit, ShelfInv, FormTypes, FormRows
    <2>2. \A w \in Skus : variant'[w].quantity = onShelf'[w] \/ w \in misread
      BY <1>3, <2>1 DEF ShelfInv, FormTypes, FormsHonest, StockFollowsShelf
    <2> QED
      BY <1>1, <2>1, <2>2 DEF ShelfInv, FormTypes, FormsHonest, StockFollowsShelf
  <1> QED
    BY <1>4, <1>5

\* A variant's stock is the number of units there are, unless a form was saved
\* from an answer that was not good for it: for any variants, forms and limits.
THEOREM FormKeepsStock == FormSpec => []StockFollowsShelf
  <1>1. FormInit => ShelfInv
    BY DEF FormInit, ShelfInv, FormTypes, FormsHonest, StockFollowsShelf, Variant, FormRows
  <1>2. ShelfInv /\ UNCHANGED formVars => ShelfInv'
    BY DEF ShelfInv, FormTypes, FormsHonest, StockFollowsShelf, formVars
  <1>3. ShelfInv /\ [FormNext]_formVars => ShelfInv'
    BY <1>2, OpenHonest, CloseHonest, SaveHonest, UnitHonest DEF FormNext
  <1>4. ShelfInv => StockFollowsShelf
    BY DEF ShelfInv, FormTypes, FormsHonest
  <1> QED
    BY <1>1, <1>3, <1>4, PTL DEF FormSpec

-----------------------------------------------------------------------------
\* The types of the variants: no more is reserved than there is, so the stock a
\* form shows is a natural number.

StockRows == [status : {"active", "inactive", "deleted"}, default : BOOLEAN,
              quantity : 0..ShelfLimit, reserved : 0..ShelfLimit]

Answers == [sku : Skus, stock : Nat, held : Nat, shelf : Nat] \union {NoRow}

ReservedLess == \A v \in Skus : variant[v].reserved <= variant[v].quantity

FormInv == FormTypeOK /\ ReservedLess

LEMMA FormParts ==
  FormInv <=> /\ variant \in [Skus -> StockRows]
              /\ inOrders \subseteq Skus /\ misread \subseteq Skus
              /\ cached \in [Browsers -> Answers] /\ form \in [Browsers -> Answers]
              /\ onShelf \in [Skus -> 0..ShelfLimit]
              /\ \A v \in Skus : variant[v].reserved <= variant[v].quantity
  BY DEF FormInv, FormTypeOK, ReservedLess, StockRows, Answers

\* One of the variants that are listed is shown.
LEMMA OneIsShown ==
  ASSUME FormAssumption, FormInv, Listed # {}
  PROVE  ShownVariant \in Listed
  <1> DEFINE Before(v, w) == IF variant[v].default = variant[w].default
                             THEN v <= w ELSE variant[v].default
             D == {v \in Listed : variant[v].default}
  <1>1. Listed \subseteq Nat /\ D \subseteq Nat
    BY DEF FormAssumption, Listed
  <1>b. \A v \in Listed : variant[v].default = TRUE \/ variant[v].default = FALSE
    BY FormParts DEF StockRows, Listed
  <1>2. \E v \in Listed : \A w \in Listed : Before(v, w)
    <2>1. CASE D # {}
      <3>1. PICK v \in D : \A w \in D : v <= w
        BY <1>1, <2>1, LeastNat
      <3>2. v \in Listed /\ variant[v].default = TRUE
        BY <1>b, <3>1
      <3>3. \A w \in Listed : Before(v, w)
        BY <1>b, <3>1, <3>2
      <3> QED
        BY <3>2, <3>3
    <2>2. CASE D = {}
      <3>1. PICK v \in Listed : \A w \in Listed : v <= w
        BY <1>1, LeastNat
      <3>2. \A w \in Listed : variant[w].default = FALSE
        BY <1>b, <2>2
      <3>3. \A w \in Listed : Before(v, w)
        BY <3>1, <3>2
      <3> QED
        BY <3>1, <3>3
    <2> QED
      BY <2>1, <2>2
  <1>3. ShownVariant = CHOOSE v \in Listed : \A w \in Listed : Before(v, w)
    BY DEF ShownVariant
  <1> HIDE DEF Before
  <1> QED
    BY <1>2, <1>3

LEMMA OpenTyped ==
  ASSUME FormInv, NEW b \in Browsers, NEW stale \in BOOLEAN, OpenForm(b, stale)
  PROVE  FormInv'
  <1> DEFINE fresh == AdminDetail(ShownVariant)
  <1>1. /\ form' = [form EXCEPT ![b] = IF cached[b] = NoRow THEN fresh ELSE cached[b]]
        /\ cached' = [cached EXCEPT ![b] = IF cached[b] = NoRow \/ stale THEN fresh ELSE cached[b]]
        /\ UNCHANGED <<variant, inOrders, onShelf, misread>> /\ Listed # {}
    BY DEF OpenForm
  <1>2. ShownVariant \in Skus
    BY <1>1, OneIsShown, FormAssumption DEF Listed
  <1>3. fresh \in Answers
    <2> DEFINE v == ShownVariant
    <2>1. variant[v] \in StockRows /\ onShelf[v] \in 0..ShelfLimit
          /\ variant[v].reserved <= variant[v].quantity
      BY <1>2, FormParts
    <2>2. /\ variant[v].quantity \in Nat /\ variant[v].reserved \in Nat /\ onShelf[v] \in Nat
      BY <2>1, FormAssumption DEF StockRows, FormAssumption
    <2> HIDE DEF v
    <2>3. AdminDetail(v) \in Answers
      BY <1>2, <2>1, <2>2 DEF AdminDetail, Answers, v
    <2> QED
      BY <2>3 DEF v
  <1> HIDE DEF fresh
  <1>4. cached' \in [Browsers -> Answers] /\ form' \in [Browsers -> Answers]
    BY <1>1, <1>3, FormParts
  <1>5. /\ variant' \in [Skus -> StockRows] /\ inOrders' \subseteq Skus /\ misread' \subseteq Skus
        /\ onShelf' \in [Skus -> 0..ShelfLimit]
        /\ \A v \in Skus : variant'[v].reserved <= variant'[v].quantity
    BY <1>1, FormParts
  <1> QED
    BY <1>4, <1>5, FormParts DEF FormInv, FormTypeOK, ReservedLess, StockRows, Answers

LEMMA CloseTyped ==
  ASSUME FormInv, NEW b \in Browsers, CacheEmptied(b) \/ CloseForm(b)
  PROVE  FormInv'
  BY DEF FormInv, FormTypeOK, ReservedLess, CacheEmptied, CloseForm

\* What a save makes of a variant.
LEMMA SyncTyped ==
  ASSUME FormInv, NEW s \in Skus, NEW q \in 0..ShelfLimit, q >= variant[s].reserved, NEW v \in Skus
  PROVE  /\ SyncVariants(s, q)[v] \in StockRows
         /\ SyncVariants(s, q)[v].reserved <= SyncVariants(s, q)[v].quantity
  <1> DEFINE old == variant[v]
             new == SyncVariants(s, q)[v]
  <1>1. /\ old \in StockRows /\ old.reserved <= old.quantity
        /\ variant[s].reserved \in 0..ShelfLimit
    BY FormParts DEF StockRows
  <1>2. new = IF v = s
              THEN IF old.status = "deleted" THEN [old EXCEPT !.quantity = q]
                   ELSE Variant("active", TRUE, q, old.reserved)
              ELSE IF old.status = "deleted" THEN old
                   ELSE [old EXCEPT !.status = IF v \in inOrders THEN "inactive" ELSE "deleted"]
    BY DEF SyncVariants, SetStock
  <1>3. v = s => q >= old.reserved
    OBVIOUS
  <1> HIDE DEF old, new
  <1>4. \/ v = s /\ new = [old EXCEPT !.quantity = q]
        \/ v = s /\ new = Variant("active", TRUE, q, old.reserved)
        \/ new = old
        \/ new = [old EXCEPT !.status = "inactive"]
        \/ new = [old EXCEPT !.status = "deleted"]
    BY <1>2
  <1>5. CASE v = s /\ new = [old EXCEPT !.quantity = q]
    <2>1. new \in StockRows /\ new.reserved <= new.quantity
      BY <1>1, <1>3, <1>5 DEF StockRows
    <2> QED
      BY <2>1 DEF new
  <1>6. CASE v = s /\ new = Variant("active", TRUE, q, old.reserved)
    <2>1. old.reserved \in 0..ShelfLimit
      BY <1>1 DEF StockRows
    <2>2. Variant("active", TRUE, q, old.reserved) \in StockRows
      BY <2>1 DEF Variant, StockRows
    <2>3. /\ Variant("active", TRUE, q, old.reserved).reserved = old.reserved
          /\ Variant("active", TRUE, q, old.reserved).quantity = q
      BY DEF Variant
    <2>4. new \in StockRows /\ new.reserved = old.reserved /\ new.quantity = q
      BY <1>6, <2>2, <2>3
    <2> QED
      BY <1>3, <1>6, <2>1, <2>4 DEF new
  <1>7. CASE new = old
    BY <1>1, <1>7 DEF new
  <1>8. ASSUME NEW st \in {"inactive", "deleted"}, new = [old EXCEPT !.status = st]
        PROVE  new \in StockRows /\ new.reserved <= new.quantity
    BY <1>1, <1>8 DEF StockRows
  <1>9. new \in StockRows /\ new.reserved <= new.quantity
    BY <1>4, <1>5, <1>6, <1>7, <1>8 DEF new
  <1> QED
    BY <1>9 DEF new

LEMMA SaveTyped ==
  ASSUME FormInv, NEW b \in Browsers, NEW received \in {0, 1}, SaveForm(b, received)
  PROVE  FormInv'
  <1> DEFINE row == form[b]
             s == row.sku
             q == row.stock + received
  <1>1. /\ row # NoRow /\ inOrders' = inOrders
        /\ q <= ShelfLimit /\ onShelf[s] + received <= ShelfLimit /\ q >= variant[s].reserved
        /\ variant' = SyncVariants(s, q)
        /\ onShelf' = [onShelf EXCEPT ![s] = onShelf[s] + received]
        /\ misread' \subseteq misread \union {s}
        /\ form' = [form EXCEPT ![b] = NoRow] /\ cached' = cached
    BY DEF SaveForm
  <1>2. row \in [sku : Skus, stock : Nat, held : Nat, shelf : Nat]
    BY <1>1, FormParts DEF Answers
  <1>3. s \in Skus /\ q \in 0..ShelfLimit
    BY <1>1, <1>2, FormAssumption DEF FormAssumption
  <1>4. variant' = [v \in Skus |-> variant'[v]]
    BY <1>1 DEF SyncVariants
  <1> HIDE DEF row, s, q
  <1>5. \A v \in Skus : /\ variant'[v] \in StockRows
                        /\ variant'[v].reserved <= variant'[v].quantity
    BY <1>1, <1>3, SyncTyped
  <1>6. variant' \in [Skus -> StockRows]
    <2> DEFINE f == variant'
    <2>1. f = [v \in Skus |-> f[v]] /\ \A v \in Skus : f[v] \in StockRows
      BY <1>4, <1>5
    <2> HIDE DEF f
    <2>2. f \in [Skus -> StockRows]
      BY <2>1
    <2> QED
      BY <2>2 DEF f
  <1>7. onShelf' \in [Skus -> 0..ShelfLimit]
    <2>1. onShelf[s] + received \in 0..ShelfLimit
      BY <1>1, <1>3, FormParts, FormAssumption DEF FormAssumption
    <2> QED
      BY <1>1, <1>3, <2>1, FormParts
  <1>8. /\ cached' \in [Browsers -> Answers] /\ form' \in [Browsers -> Answers]
    BY <1>1, FormParts DEF Answers
  <1>9. inOrders' \subseteq Skus /\ misread' \subseteq Skus
    BY <1>1, <1>3, FormParts
  <1> QED
    BY <1>5, <1>6, <1>7, <1>8, <1>9 DEF FormInv, FormTypeOK, ReservedLess, StockRows, Answers

LEMMA UnitTyped ==
  ASSUME FormInv, NEW v \in Skus, OrderUnit(v) \/ SellUnit(v) \/ ReleaseUnit(v)
  PROVE  FormInv'
  <1> DEFINE old == variant[v]
             new == variant'[v]
  <1>1. /\ inOrders' \subseteq Skus /\ misread' \subseteq Skus
        /\ cached' \in [Browsers -> Answers] /\ form' \in [Browsers -> Answers]
    BY FormParts DEF OrderUnit, SellUnit, ReleaseUnit
  <1>2. onShelf' \in [Skus -> 0..ShelfLimit]
    BY FormParts, FormAssumption DEF OrderUnit, SellUnit, ReleaseUnit, FormAssumption
  <1>3. old \in StockRows /\ old.reserved <= old.quantity
    BY FormParts
  <1>4. /\ variant' = [variant EXCEPT ![v] = new]
        /\ \/ old.quantity > old.reserved /\ new = [old EXCEPT !.reserved = old.reserved + 1]
           \/ old.reserved > 0 /\ new = [old EXCEPT !.reserved = old.reserved - 1,
                                                    !.quantity = old.quantity - 1]
           \/ old.reserved > 0 /\ new = [old EXCEPT !.reserved = old.reserved - 1]
    BY FormParts DEF OrderUnit, SellUnit, ReleaseUnit
  <1> HIDE DEF old, new
  <1>5. new \in StockRows /\ new.reserved <= new.quantity
    <2>1. /\ old.quantity \in Nat /\ old.reserved \in Nat /\ old.quantity <= ShelfLimit
          /\ ShelfLimit \in Nat
          /\ old = [status |-> old.status, default |-> old.default,
                    quantity |-> old.quantity, reserved |-> old.reserved]
      BY <1>3, FormAssumption DEF StockRows, FormAssumption
    <2>2. \E n, m \in 0..ShelfLimit :
            /\ n <= m
            /\ new = [status |-> old.status, default |-> old.default, quantity |-> m, reserved |-> n]
      <3>1. CASE old.quantity > old.reserved /\ new = [old EXCEPT !.reserved = old.reserved + 1]
        <4>1. new = [status |-> old.status, default |-> old.default,
                     quantity |-> old.quantity, reserved |-> old.reserved + 1]
          BY <2>1, <3>1
        <4>2. /\ old.reserved + 1 \in 0..ShelfLimit /\ old.quantity \in 0..ShelfLimit
              /\ old.reserved + 1 <= old.quantity
          BY <2>1, <3>1
        <4> QED
          BY <4>1, <4>2
      <3>2. CASE old.reserved > 0 /\ new = [old EXCEPT !.reserved = old.reserved - 1,
                                                     !.quantity = old.quantity - 1]
        <4>1. new = [status |-> old.status, default |-> old.default,
                     quantity |-> old.quantity - 1, reserved |-> old.reserved - 1]
          BY <2>1, <3>2
        <4>2. old.reserved - 1 \in 0..ShelfLimit /\ old.quantity - 1 \in 0..ShelfLimit
          BY <1>3, <2>1, <3>2
        <4> QED
          BY <1>3, <2>1, <4>1, <4>2
      <3>3. CASE old.reserved > 0 /\ new = [old EXCEPT !.reserved = old.reserved - 1]
        BY <1>3, <2>1, <3>3
      <3> QED
        BY <1>4, <3>1, <3>2, <3>3
    <2> QED
      BY <1>3, <2>2 DEF StockRows
  <1>6. variant' \in [Skus -> StockRows]
    BY <1>4, <1>5, FormParts
  <1>7. \A w \in Skus : variant'[w].reserved <= variant'[w].quantity
    <2>1. \A w \in Skus : w # v => variant'[w] = variant[w]
      BY <1>4, FormParts
    <2> QED
      BY <1>5, <2>1, FormParts DEF new
  <1> QED
    BY <1>1, <1>2, <1>6, <1>7 DEF FormInv, FormTypeOK, ReservedLess, StockRows, Answers

\* The types of the variants and of the forms' rows.
LEMMA FormTyped == FormSpec => []FormTypeOK
  <1>1. FormInit => FormInv
    BY FormAssumption
    DEF FormInit, FormInv, FormTypeOK, ReservedLess, Variant, FormAssumption
  <1>2. FormInv /\ UNCHANGED formVars => FormInv'
    BY DEF FormInv, FormTypeOK, ReservedLess, formVars
  <1>3. FormInv /\ [FormNext]_formVars => FormInv'
    BY <1>2, OpenTyped, CloseTyped, SaveTyped, UnitTyped DEF FormNext
  <1>4. FormInv => FormTypeOK
    BY DEF FormInv
  <1> QED
    BY <1>1, <1>3, <1>4, PTL DEF FormSpec

-----------------------------------------------------------------------------
(* Search index.  A request that is alone with a product knows whether the *)
(* product is for sale and that its document is current; every other       *)
(* product that a request has is in doubt.                                 *)

\* A request as the record of its parts.
IsJob(j) ==
  /\ j = [at |-> j.at, kind |-> j.kind, on |-> j.on, want |-> j.want,
          built |-> j.built, alone |-> j.alone]
  /\ j.built = [p \in j.on |-> j.built[p]]
  /\ j.at \in {"idle", "write", "build", "unindex"}
  /\ j.on \subseteq Products /\ j.alone \subseteq j.on
  /\ j.at = "idle" => j.on = {}

IndexTypes ==
  /\ job = [e \in ShopEditors |-> job[e]]
  /\ \A e \in ShopEditors : IsJob(job[e])
  /\ \A p \in Products : /\ product[p].deleted \in BOOLEAN
                         /\ product[p].status = "none" => product[p].deleted = FALSE

Follows(p) == Shown(p) = ForSale(p) /\ (Shown(p) => document[p].changes = product[p].changes)

Current(p) == Document(product[p].status, product[p].changes)

\* Only this request has the product.
Sole(e, p) ==
  /\ \A o \in ShopEditors : p \in job[o].on => o = e
  /\ job[e].at \in {"write", "build"} => product[p].deleted = FALSE
  /\ job[e].at = "build" => job[e].built[p] \in {NoDocument, Current(p)}
  /\ job[e].at = "unindex" => ~ForSale(p)

\* What a request knows of a product; those it is not alone with are in doubt.
Knows(e, p) ==
  /\ p \notin job[e].alone => p \in doubtful
  /\ p \in job[e].alone => Sole(e, p)
  /\ job[e].at = "write" =>
       /\ Follows(p) \/ p \in doubtful
       /\ job[e].built[p] = NoDocument
       /\ IF job[e].kind = "remove" THEN product[p].status # "none" ELSE job[e].want # "none"

IndexInv ==
  /\ IndexTypes
  /\ \A e \in ShopEditors : \A p \in job[e].on : Knows(e, p)
  /\ IndexFollows

\* A request that has nothing to do.
LEMMA NoJobMade ==
  /\ IsJob(NoJob) /\ NoJob.on = {} /\ NoJob.at = "idle" /\ NoJob.alone = {}
  BY DEF NoJob, Job, IsJob

\* A request ends and leaves the products as they are.
LEMMA LeaveFacts ==
  ASSUME IndexTypes, NEW e \in ShopEditors, LeaveIndex(e)
  PROVE  /\ job' = [o \in ShopEditors |-> job'[o]]
         /\ \A o \in ShopEditors : IsJob(job'[o])
         /\ job'[e] = NoJob /\ job'[e].on = {}
         /\ \A o \in ShopEditors : o # e => job'[o] = job[o]
  BY NoJobMade DEF LeaveIndex, IndexTypes

\* The request has left, and settled or doubted every product it had.
LEMMA LeftWell ==
  ASSUME IndexInv, NEW e \in ShopEditors, LeaveIndex(e), product' = product,
         \A p \in Products : p \notin job[e].on =>
            document'[p] = document[p] /\ (p \in doubtful' <=> p \in doubtful),
         \A p \in job[e].on : p \in doubtful' \/ (p \in job[e].alone /\ Follows(p)')
  PROVE  IndexInv'
  <1>1. /\ job' = [o \in ShopEditors |-> job'[o]]
        /\ \A o \in ShopEditors : IsJob(job'[o])
        /\ job'[e] = NoJob /\ job'[e].on = {}
        /\ \A o \in ShopEditors : o # e => job'[o] = job[o]
    BY LeaveFacts DEF IndexInv
  <1>2. IndexTypes'
    BY <1>1 DEF IndexInv, IndexTypes
  <1>3. ASSUME NEW o \in ShopEditors, NEW p \in job'[o].on
        PROVE  Knows(o, p)'
    <2>1. o # e /\ job'[o] = job[o] /\ p \in job[o].on /\ p \in Products
      BY <1>1, <1>3 DEF IndexInv, IndexTypes, IsJob
    <2>2. Knows(o, p)
      BY <2>1 DEF IndexInv
    <2>3. CASE p \in job[e].on
      <3>1. p \notin job[e].alone /\ p \notin job[o].alone
        <4>1. p \in job[e].alone => Sole(e, p)
          BY <2>3 DEF IndexInv, Knows
        <4>2. p \in job[o].alone => Sole(o, p)
          BY <2>2 DEF Knows
        <4> QED
          BY <4>1, <4>2, <2>1, <2>3 DEF Sole
      <3>2. p \in doubtful'
        BY <2>3, <3>1
      <3> QED
        BY <2>1, <2>2, <3>1, <3>2 DEF Knows
    <2>4. CASE p \notin job[e].on
      <3>1. document'[p] = document[p] /\ (p \in doubtful' <=> p \in doubtful)
        BY <2>1, <2>4
      <3>2. Follows(p)' <=> Follows(p)
        BY <3>1 DEF Follows, Shown, ForSale
      <3>3. Sole(o, p) => Sole(o, p)'
        BY <1>1, <2>1 DEF Sole, ForSale, Current
      <3> QED
        BY <2>1, <2>2, <3>1, <3>2, <3>3 DEF Knows
    <2> QED
      BY <2>3, <2>4
  <1>4. IndexFollows'
    <2> SUFFICES ASSUME NEW p \in Products, p \notin doubtful',
                        \A o \in ShopEditors : p \notin job'[o].on
                 PROVE  Follows(p)'
      BY DEF IndexFollows, Follows
    <2>1. CASE p \in job[e].on
      BY <2>1
    <2>2. CASE p \notin job[e].on
      <3>1. document'[p] = document[p] /\ p \notin doubtful
        BY <2>2
      <3>2. \A o \in ShopEditors : p \notin job[o].on
        BY <1>1, <2>2
      <3>3. Follows(p)
        BY <3>1, <3>2 DEF IndexInv, IndexFollows, Follows
      <3> QED
        BY <3>1, <3>3 DEF Follows, Shown, ForSale
    <2> QED
      BY <2>1, <2>2
  <1> QED
    BY <1>2, <1>3, <1>4 DEF IndexInv

\* The products in on that some request has already.
Busy(on) == (UNION {job[o].on : o \in ShopEditors}) \cap on

\* A request begins, and the others lose what they had alone.
LEMMA Entered ==
  ASSUME IndexTypes, NEW e \in ShopEditors, NEW at, NEW kind, NEW on, NEW want,
         Enter(e, Job(at, kind, on, want))
  PROVE  /\ job[e] = NoJob /\ doubtful' = doubtful \cup Busy(on)
         /\ job' = [o \in ShopEditors |-> job'[o]]
         /\ job'[e] = [at |-> at, kind |-> kind, on |-> on, want |-> want,
                       built |-> [p \in on |-> NoDocument], alone |-> on \ Busy(on)]
         /\ \A o \in ShopEditors : o # e =>
              job'[o] = [at |-> job[o].at, kind |-> job[o].kind, on |-> job[o].on,
                         want |-> job[o].want, built |-> job[o].built,
                         alone |-> job[o].alone \ Busy(on)]
  <1> DEFINE busy == Busy(on)
             j == Job(at, kind, on, want)
  <1>1. /\ job[e] = NoJob /\ doubtful' = doubtful \cup busy
        /\ job' = [o \in ShopEditors |-> [(IF o = e THEN j ELSE job[o]) EXCEPT !.alone = @ \ busy]]
    BY DEF Enter, Job, Busy
  <1>2. /\ j.at = at /\ j.kind = kind /\ j.on = on /\ j.want = want /\ j.alone = on
        /\ j.built = [p \in on |-> NoDocument]
        /\ j = [at |-> j.at, kind |-> j.kind, on |-> j.on, want |-> j.want,
                built |-> j.built, alone |-> j.alone]
    BY DEF Job
  <1> HIDE DEF j, busy
  <1>3. /\ job' = [o \in ShopEditors |-> job'[o]]
        /\ job'[e] = [at |-> at, kind |-> kind, on |-> on, want |-> want,
                      built |-> [p \in on |-> NoDocument], alone |-> on \ busy]
    BY <1>1, <1>2
  <1>4. ASSUME NEW o \in ShopEditors, o # e
        PROVE  job'[o] = [at |-> job[o].at, kind |-> job[o].kind, on |-> job[o].on,
                          want |-> job[o].want, built |-> job[o].built,
                          alone |-> job[o].alone \ busy]
    <2>1. job'[o] = [job[o] EXCEPT !.alone = @ \ busy]
      BY <1>1, <1>4
    <2>2. job[o] = [at |-> job[o].at, kind |-> job[o].kind, on |-> job[o].on,
                    want |-> job[o].want, built |-> job[o].built, alone |-> job[o].alone]
      BY DEF IndexTypes, IsJob
    <2> QED
      BY <2>1, <2>2
  <1> QED
    BY <1>1, <1>3, <1>4 DEF busy

\* A request begins.
LEMMA EnterKeeps ==
  ASSUME IndexInv, NEW e \in ShopEditors, NEW at \in {"write", "build"}, NEW kind,
         NEW on \in SUBSET Products, NEW want,
         Enter(e, Job(at, kind, on, want)), product' = product, document' = document,
         \A p \in on : product[p].deleted = FALSE,
         at = "write" => \A p \in on :
           IF kind = "remove" THEN product[p].status # "none" ELSE want # "none"
  PROVE  IndexInv'
  <1> DEFINE busy == Busy(on)
  <1>1. job[e] = NoJob /\ doubtful' = doubtful \cup busy
    BY Entered DEF IndexInv
  <1>3. /\ job' = [o \in ShopEditors |-> job'[o]]
        /\ job'[e] = [at |-> at, kind |-> kind, on |-> on, want |-> want,
                      built |-> [p \in on |-> NoDocument], alone |-> on \ busy]
    BY Entered DEF IndexInv
  <1>r. \A o \in ShopEditors : o # e =>
          job'[o] = [at |-> job[o].at, kind |-> job[o].kind, on |-> job[o].on,
                     want |-> job[o].want, built |-> job[o].built,
                     alone |-> job[o].alone \ busy]
    BY Entered DEF IndexInv
  <1>4. ASSUME NEW o \in ShopEditors, o # e
        PROVE  job'[o] = [at |-> job[o].at, kind |-> job[o].kind, on |-> job[o].on,
                          want |-> job[o].want, built |-> job[o].built,
                          alone |-> job[o].alone \ busy]
    BY ONLY <1>r, <1>4, o \in ShopEditors
  <1>5. ASSUME NEW o \in ShopEditors, o # e
        PROVE
          /\ job'[o].at = job[o].at /\ job'[o].kind = job[o].kind /\ job'[o].on = job[o].on
          /\ job'[o].want = job[o].want /\ job'[o].built = job[o].built
          /\ job'[o].alone = job[o].alone \ busy
    <2> DEFINE k == job[o]
    <2>1. job'[o] = [at |-> k.at, kind |-> k.kind, on |-> k.on, want |-> k.want,
                     built |-> k.built, alone |-> k.alone \ busy]
      BY <1>4, <1>5
    <2> HIDE DEF k, busy
    <2>2. /\ job'[o].at = k.at /\ job'[o].kind = k.kind /\ job'[o].on = k.on
          /\ job'[o].want = k.want /\ job'[o].built = k.built
          /\ job'[o].alone = k.alone \ busy
      BY <2>1
    <2> QED
      BY <2>2 DEF k
  <1>b. ASSUME NEW p \in on, NEW o \in ShopEditors, p \in job[o].on PROVE p \in busy
    <2>1. job[o].on \in {job[x].on : x \in ShopEditors}
      OBVIOUS
    <2>2. p \in UNION {job[x].on : x \in ShopEditors}
      BY <1>b, <2>1
    <2> QED
      BY <2>2 DEF Busy
  <1> HIDE DEF busy
  <1>6. \A o \in ShopEditors : IsJob(job'[o])
    <2> SUFFICES ASSUME NEW o \in ShopEditors PROVE IsJob(job'[o])
      OBVIOUS
    <2>1. CASE o = e
      BY <1>3, <2>1 DEF IsJob
    <2>2. CASE o # e
      <3>1. IsJob(job[o])
        BY DEF IndexInv, IndexTypes
      <3>2. job'[o] = [at |-> job'[o].at, kind |-> job'[o].kind, on |-> job'[o].on,
                       want |-> job'[o].want, built |-> job'[o].built,
                       alone |-> job'[o].alone]
        BY <1>4, <1>5, <2>2
      <3> QED
        BY <1>5, <2>2, <3>1, <3>2 DEF IsJob
    <2> QED
      BY <2>1, <2>2
  <1>7. IndexTypes'
    BY <1>3, <1>6 DEF IndexInv, IndexTypes
  <1>8. \A p \in Products : Follows(p)' <=> Follows(p)
    BY DEF Follows, Shown, ForSale
  <1>9. ASSUME NEW p \in on PROVE Knows(e, p)'
    <2>1. job'[e].at = at /\ job'[e].alone = on \ busy /\ job'[e].built[p] = NoDocument
          /\ job'[e].kind = kind /\ job'[e].want = want /\ job'[e].on = on
      BY <1>3
    <2>2. p \in job'[e].alone => Sole(e, p)'
      <3> SUFFICES ASSUME p \notin busy PROVE Sole(e, p)'
        BY <2>1
      <3>1. \A o \in ShopEditors : p \in job'[o].on => o = e
        BY <1>5, <1>b
      <3> QED
        BY <2>1, <3>1 DEF Sole
    <2>3. Follows(p)' \/ p \in doubtful'
      <3>1. CASE p \in busy
        BY <1>1, <3>1
      <3>2. CASE p \notin busy
        <4>1. p \in doubtful \/ Follows(p)
          BY <1>b, <3>2 DEF IndexInv, IndexFollows, Follows
        <4> QED
          BY <1>1, <1>8, <4>1
      <3> QED
        BY <3>1, <3>2
    <2> QED
      BY <1>1, <2>1, <2>2, <2>3 DEF Knows
  <1>10. ASSUME NEW o \in ShopEditors, o # e, NEW p \in job[o].on PROVE Knows(o, p)'
    <2>1. /\ Knows(o, p) /\ p \in Products
          /\ job'[o].alone = job[o].alone \ busy /\ job'[o].at = job[o].at
          /\ job'[o].kind = job[o].kind /\ job'[o].want = job[o].want
          /\ job'[o].built = job[o].built
      BY <1>5, <1>10 DEF IndexInv, IndexTypes, IsJob
    <2>2. p \in job'[o].alone => Sole(o, p)'
      <3> SUFFICES ASSUME p \in job[o].alone, p \notin busy PROVE Sole(o, p)'
        BY <2>1
      <3>1. p \notin on /\ Sole(o, p)
        BY <1>b, <2>1 DEF Knows
      <3>2. \A x \in ShopEditors : p \in job'[x].on => p \in job[x].on
        BY <1>3, <1>5, <3>1
      <3> QED
        BY <2>1, <3>1, <3>2 DEF Sole, ForSale, Current
    <2> QED
      BY <1>1, <1>8, <2>1, <2>2 DEF Knows
  <1>11. IndexFollows'
    <2> SUFFICES ASSUME NEW p \in Products, p \notin doubtful',
                        \A o \in ShopEditors : p \notin job'[o].on
                 PROVE  Follows(p)'
      BY DEF IndexFollows, Follows
    <2>1. p \notin doubtful
      BY <1>1
    <2>2. \A o \in ShopEditors : p \notin job[o].on
      <3>1. job[e].on = {}
        BY <1>1, NoJobMade
      <3> QED
        BY <1>5, <3>1
    <2> QED
      BY <1>8, <2>1, <2>2 DEF IndexInv, IndexFollows, Follows
  <1>12. \A o \in ShopEditors : \A p \in job'[o].on : Knows(o, p)'
    <2> SUFFICES ASSUME NEW o \in ShopEditors, NEW p \in job'[o].on PROVE Knows(o, p)'
      OBVIOUS
    <2>1. CASE o = e
      BY <1>3, <1>9, <2>1
    <2>2. CASE o # e
      <3>1. p \in job[o].on
        BY <1>5, <2>2
      <3> QED
        BY <1>10, <2>2, <3>1
    <2> QED
      BY <2>1, <2>2
  <1> QED
    BY <1>7, <1>11, <1>12 DEF IndexInv

\* The product is written.
LEMMA WriteKeeps ==
  ASSUME IndexInv, NEW e \in ShopEditors, WriteProduct(e)
  PROVE  IndexInv'
  <1> DEFINE j == job[e]
             next == IndexStep(j.kind, j.want)
  <1>1. /\ j.at = "write" /\ document' = document /\ doubtful' = doubtful
        /\ job' = [job EXCEPT ![e].at = next]
        /\ \A p \in Products : p \notin j.on => product'[p] = product[p]
        /\ \A p \in Products : p \in j.on =>
             product'[p] = Product(IF j.kind = "remove" THEN product[p].status ELSE j.want,
                                   product[p].deleted \/ j.kind = "remove",
                                   product[p].changes + 1)
    BY DEF WriteProduct
  <1>2. next \in {"build", "unindex"}
    BY DEF IndexStep
  <1>a. /\ j = [at |-> j.at, kind |-> j.kind, on |-> j.on, want |-> j.want,
                built |-> j.built, alone |-> j.alone]
        /\ job = [o \in ShopEditors |-> job[o]] /\ j.on \subseteq Products
    BY DEF IndexInv, IndexTypes, IsJob
  <1> HIDE DEF j, next
  <1>3. /\ job' = [o \in ShopEditors |-> job'[o]]
        /\ \A o \in ShopEditors : o # e => job'[o] = job[o]
        /\ job'[e] = [at |-> next, kind |-> j.kind, on |-> j.on, want |-> j.want,
                      built |-> j.built, alone |-> j.alone]
    BY <1>1, <1>a DEF j
  <1>4. \A p \in j.on :
          /\ j.kind = "remove" => product[p].status # "none"
          /\ j.kind # "remove" => j.want # "none"
          /\ j.built[p] = NoDocument
    BY <1>1 DEF IndexInv, Knows, j
  <1>5. \A p \in j.on : /\ product'[p].deleted \in BOOLEAN
                        /\ product'[p].status # "none"
                        /\ j.kind = "remove" => product'[p].deleted = TRUE
                        /\ j.kind # "remove" /\ product[p].deleted = FALSE => product'[p].deleted = FALSE
                        /\ j.kind # "remove" => product'[p].status = j.want
    <2> SUFFICES ASSUME NEW p \in j.on
                 PROVE  /\ product'[p].deleted \in BOOLEAN
                        /\ product'[p].status # "none"
                        /\ j.kind = "remove" => product'[p].deleted = TRUE
                        /\ j.kind # "remove" /\ product[p].deleted = FALSE => product'[p].deleted = FALSE
                        /\ j.kind # "remove" => product'[p].status = j.want
      OBVIOUS
    <2>1. product'[p] = Product(IF j.kind = "remove" THEN product[p].status ELSE j.want,
                                product[p].deleted \/ j.kind = "remove",
                                product[p].changes + 1)
      BY <1>1, <1>a
    <2>2. /\ product'[p].status = (IF j.kind = "remove" THEN product[p].status ELSE j.want)
          /\ product'[p].deleted = (product[p].deleted \/ j.kind = "remove")
      BY <2>1 DEF Product
    <2>3. product'[p].status # "none" /\ (j.kind # "remove" => product'[p].status = j.want)
      BY <1>4, <2>2
    <2> QED
      BY <2>2, <2>3
  <1>6. IndexTypes'
    <2>1. \A o \in ShopEditors : IsJob(job'[o])
      BY <1>2, <1>3, <1>a DEF IndexInv, IndexTypes, IsJob, j
    <2>2. \A p \in Products : /\ product'[p].deleted \in BOOLEAN
                              /\ product'[p].status = "none" => product'[p].deleted = FALSE
      BY <1>1, <1>5 DEF IndexInv, IndexTypes
    <2> QED
      BY <1>3, <2>1, <2>2 DEF IndexTypes
  <1>7. \A o \in ShopEditors : job'[o].on = job[o].on
    BY <1>3 DEF j
  <1>8. ASSUME NEW p \in j.on PROVE Knows(e, p)'
    <2>1. Knows(e, p) /\ p \in Products
      BY <1>a DEF IndexInv, j
    <2>2. p \in j.alone => Sole(e, p)'
      <3> SUFFICES ASSUME p \in j.alone PROVE Sole(e, p)'
        OBVIOUS
      <3>1. (\A o \in ShopEditors : p \in job[o].on => o = e) /\ product[p].deleted = FALSE
        BY <1>1, <2>1 DEF Knows, Sole, j
      <3>2. next = "build" => product'[p].deleted = FALSE
        BY <1>5, <3>1 DEF next, IndexStep
      <3>3. next = "unindex" => ~ForSale(p)'
        BY <1>5 DEF next, IndexStep, ForSale
      <3>4. job'[e].at = next /\ job'[e].built[p] = NoDocument
        BY <1>3, <1>4
      <3> QED
        BY <1>2, <1>7, <3>1, <3>2, <3>3, <3>4 DEF Sole
    <2>3. p \notin j.alone => p \in doubtful
      BY <2>1 DEF Knows, j
    <2> QED
      BY <1>1, <1>2, <1>3, <2>2, <2>3 DEF Knows
  <1>9. ASSUME NEW o \in ShopEditors, o # e, NEW p \in job[o].on PROVE Knows(o, p)'
    <2>1. Knows(o, p) /\ job'[o] = job[o] /\ p \in Products
      BY <1>3, <1>9 DEF IndexInv, IndexTypes, IsJob
    <2>2. CASE p \in j.on
      <3>1. p \notin job[o].alone /\ p \in doubtful
        BY <1>9, <2>1, <2>2 DEF Knows, Sole, j
      <3>2. job[o].at = "write" =>
              IF job[o].kind = "remove" THEN product'[p].status # "none" ELSE job[o].want # "none"
        BY <1>5, <2>1, <2>2 DEF Knows
      <3> QED
        BY <1>1, <2>1, <3>1, <3>2 DEF Knows
    <2>3. CASE p \notin j.on
      <3>1. product'[p] = product[p]
        BY <1>1, <2>1, <2>3
      <3>2. Sole(o, p) => Sole(o, p)'
        BY <1>7, <2>1, <3>1 DEF Sole, ForSale, Current
      <3>3. Follows(p) => Follows(p)'
        BY <1>1, <3>1 DEF Follows, Shown, ForSale
      <3> QED
        BY <1>1, <2>1, <3>1, <3>2, <3>3 DEF Knows
    <2> QED
      BY <2>2, <2>3
  <1>10. IndexFollows'
    <2> SUFFICES ASSUME NEW p \in Products, p \notin doubtful',
                        \A o \in ShopEditors : p \notin job'[o].on
                 PROVE  Follows(p)'
      BY DEF IndexFollows, Follows
    <2>1. Follows(p)
      BY <1>1, <1>7 DEF IndexInv, IndexFollows, Follows
    <2>2. product'[p] = product[p]
      BY <1>1, <1>7 DEF j
    <2> QED
      BY <1>1, <2>1, <2>2 DEF Follows, Shown, ForSale
  <1>11. \A o \in ShopEditors : \A p \in job'[o].on : Knows(o, p)'
    BY <1>7, <1>8, <1>9 DEF j
  <1> QED
    BY <1>6, <1>10, <1>11 DEF IndexInv

\* A document is built.
LEMMA BuildKeeps ==
  ASSUME IndexInv, NEW e \in ShopEditors, NEW p \in Products, BuildDocument(e, p)
  PROVE  IndexInv'
  <1> DEFINE j == job[e]
  <1>1. /\ j.at = "build" /\ p \in j.on
        /\ product' = product /\ document' = document /\ doubtful' = doubtful
        /\ job' = [job EXCEPT ![e].built[p] = Current(p)]
    BY DEF BuildDocument, Current
  <1>a. /\ j = [at |-> j.at, kind |-> j.kind, on |-> j.on, want |-> j.want,
                built |-> j.built, alone |-> j.alone]
        /\ j.built = [x \in j.on |-> j.built[x]]
        /\ job = [o \in ShopEditors |-> job[o]]
    BY DEF IndexInv, IndexTypes, IsJob
  <1> HIDE DEF j
  <1>2. /\ job' = [o \in ShopEditors |-> job'[o]]
        /\ \A o \in ShopEditors : o # e => job'[o] = job[o]
        /\ job'[e] = [at |-> j.at, kind |-> j.kind, on |-> j.on, want |-> j.want,
                      built |-> [j.built EXCEPT ![p] = Current(p)], alone |-> j.alone]
    BY <1>1, <1>a DEF j
  <1>3. \A x \in j.on : job'[e].built[x] = IF x = p THEN Current(p) ELSE j.built[x]
    BY <1>2, <1>a
  <1>4. IndexTypes'
    <2>1. IsJob(j)
      BY DEF IndexInv, IndexTypes, j
    <2>2. job'[e].built = [x \in j.on |-> job'[e].built[x]]
      BY <1>2, <1>a
    <2>3. IsJob(job'[e])
      BY <1>2, <2>1, <2>2 DEF IsJob
    <2> QED
      BY <1>1, <1>2, <2>3 DEF IndexInv, IndexTypes
  <1>5. \A o \in ShopEditors : /\ job'[o].on = job[o].on /\ job'[o].at = job[o].at
                               /\ job'[o].alone = job[o].alone
    BY <1>2 DEF j
  <1>6. ASSUME NEW o \in ShopEditors, NEW x \in job[o].on PROVE Knows(o, x)'
    <2>1. Knows(o, x)
      BY DEF IndexInv
    <2>2. CASE o = e
      <3>1. Sole(o, x) => Sole(o, x)'
        BY <1>1, <1>3, <1>5, <2>2 DEF Sole, ForSale, Current, j
      <3> QED
        BY <1>1, <1>5, <2>1, <2>2, <3>1 DEF Knows, j
    <2>3. CASE o # e
      <3>1. Sole(o, x) => Sole(o, x)'
        BY <1>1, <1>2, <1>5, <2>3 DEF Sole, ForSale, Current
      <3>2. Follows(x) => Follows(x)'
        BY <1>1 DEF Follows, Shown, ForSale
      <3> QED
        BY <1>1, <1>2, <2>1, <2>3, <3>1, <3>2 DEF Knows
    <2> QED
      BY <2>2, <2>3
  <1>7. IndexFollows'
    BY <1>1, <1>5 DEF IndexInv, IndexFollows, Shown, ForSale
  <1> QED
    BY <1>4, <1>5, <1>6, <1>7 DEF IndexInv

\* The documents are sent.
LEMMA AddKeeps ==
  ASSUME IndexInv, NEW e \in ShopEditors, AddDocuments(e)
  PROVE  IndexInv'
  <1>1. /\ job[e].at = "build" /\ LeaveIndex(e) /\ product' = product
        /\ \A p \in job[e].on : job[e].built[p] # NoDocument
        /\ document' = [p \in Products |-> IF p \in job[e].on THEN job[e].built[p] ELSE document[p]]
        /\ doubtful' = doubtful \ job[e].alone
    BY DEF AddDocuments, Settle
  <1>2. job[e].alone \subseteq job[e].on /\ job[e].on \subseteq Products
    BY DEF IndexInv, IndexTypes, IsJob
  <1>3. ASSUME NEW p \in job[e].on PROVE p \in doubtful' \/ (p \in job[e].alone /\ Follows(p)')
    <2>1. Knows(e, p)
      BY DEF IndexInv
    <2>2. CASE p \notin job[e].alone
      BY <1>1, <2>1, <2>2 DEF Knows
    <2>3. CASE p \in job[e].alone
      <3>1. job[e].built[p] = Current(p) /\ product[p].deleted = FALSE
        BY <1>1, <2>1, <2>3 DEF Knows, Sole
      <3>2. document'[p] = Current(p)
        BY <1>1, <1>2, <3>1
      <3>3. document'[p].status = product[p].status /\ document'[p].changes = product[p].changes
        BY <3>2 DEF Current, Document
      <3>4. Follows(p)'
        BY <1>1, <3>1, <3>3 DEF Follows, Shown, ForSale
      <3> QED
        BY <2>3, <3>4
    <2> QED
      BY <2>2, <2>3
  <1>4. \A p \in Products : p \notin job[e].on =>
            document'[p] = document[p] /\ (p \in doubtful' <=> p \in doubtful)
    BY <1>1, <1>2
  <1> QED
    BY <1>1, <1>3, <1>4, LeftWell

\* The documents are deleted.
LEMMA UnindexKeeps ==
  ASSUME IndexInv, NEW e \in ShopEditors, Unindex(e)
  PROVE  IndexInv'
  <1>1. /\ job[e].at = "unindex" /\ LeaveIndex(e) /\ product' = product
        /\ document' = [p \in Products |-> IF p \in job[e].on THEN NoDocument ELSE document[p]]
        /\ doubtful' = doubtful \ job[e].alone
    BY DEF Unindex, Settle, Removed
  <1>2. job[e].alone \subseteq job[e].on /\ job[e].on \subseteq Products
    BY DEF IndexInv, IndexTypes, IsJob
  <1>3. ASSUME NEW p \in job[e].on PROVE p \in doubtful' \/ (p \in job[e].alone /\ Follows(p)')
    <2>1. Knows(e, p)
      BY DEF IndexInv
    <2>2. CASE p \notin job[e].alone
      BY <1>1, <2>1, <2>2 DEF Knows
    <2>3. CASE p \in job[e].alone
      <3>1. ~ForSale(p)
        BY <1>1, <2>1, <2>3 DEF Knows, Sole
      <3>2. document'[p].status = "absent"
        BY <1>1, <1>2 DEF NoDocument, Document
      <3>3. Follows(p)'
        BY <1>1, <3>1, <3>2 DEF Follows, Shown, ForSale
      <3> QED
        BY <2>3, <3>3
    <2> QED
      BY <2>2, <2>3
  <1>4. \A p \in Products : p \notin job[e].on =>
            document'[p] = document[p] /\ (p \in doubtful' <=> p \in doubtful)
    BY <1>1, <1>2
  <1> QED
    BY <1>1, <1>3, <1>4, LeftWell

\* The write fails, or the index does not hear of it.
LEMMA GivesUpKeeps ==
  ASSUME IndexInv, NEW e \in ShopEditors, WriteFails(e) \/ IndexMisses(e)
  PROVE  IndexInv'
  <1>1. LeaveIndex(e) /\ product' = product /\ document' = document
    BY DEF WriteFails, IndexMisses, LeaveIndex
  <1>2. CASE IndexMisses(e)
    <2>1. doubtful' = doubtful \cup job[e].on
      BY <1>2 DEF IndexMisses
    <2> QED
      BY <1>1, <2>1, LeftWell
  <1>3. CASE WriteFails(e)
    <2>1. doubtful' = doubtful /\ job[e].at = "write"
      BY <1>3 DEF WriteFails
    <2>2. ASSUME NEW p \in job[e].on
          PROVE  p \in doubtful' \/ (p \in job[e].alone /\ Follows(p)')
      <3>1. Knows(e, p)
        BY DEF IndexInv
      <3>2. Follows(p) => Follows(p)'
        BY <1>1 DEF Follows, Shown, ForSale
      <3> QED
        BY <2>1, <3>1, <3>2 DEF Knows
    <2> QED
      BY <1>1, <2>1, <2>2, LeftWell
  <1> QED
    BY <1>2, <1>3

\* The API stops.
LEMMA ReindexRestart ==
  ASSUME IndexInv, ApiRestarts
  PROVE  IndexInv'
  <1>1. /\ product' = product /\ document' = document
        /\ job' = [e \in ShopEditors |-> NoJob] /\ \A e \in ShopEditors : job'[e] = NoJob
        /\ doubtful' = doubtful \cup
             UNION {job[e].on : e \in {o \in ShopEditors : job[o].at \in {"build", "unindex"}}}
    BY DEF ApiRestarts
  <1>2. IndexTypes'
    BY <1>1, NoJobMade DEF IndexInv, IndexTypes
  <1>3. \A e \in ShopEditors : job'[e].on = {}
    BY <1>1, NoJobMade
  <1>4. IndexFollows'
    <2> SUFFICES ASSUME NEW p \in Products, p \notin doubtful' PROVE Follows(p)'
      BY DEF IndexFollows, Follows
    <2>1. p \notin doubtful
      BY <1>1
    <2>2. \A e \in ShopEditors : p \in job[e].on => job[e].at \notin {"build", "unindex"}
      BY <1>1
    <2>3. Follows(p)
      <3>1. CASE \E e \in ShopEditors : p \in job[e].on
        <4>1. PICK e \in ShopEditors : p \in job[e].on
          BY <3>1
        <4>2. job[e].at = "write"
          BY <2>2, <4>1 DEF IndexInv, IndexTypes, IsJob
        <4> QED
          BY <2>1, <4>1, <4>2 DEF IndexInv, Knows
      <3>2. CASE ~ \E e \in ShopEditors : p \in job[e].on
        BY <2>1, <3>2 DEF IndexInv, IndexFollows, Follows
      <3> QED
        BY <3>1, <3>2
    <2> QED
      BY <1>1, <2>3 DEF Follows, Shown, ForSale
  <1> QED
    BY <1>2, <1>3, <1>4 DEF IndexInv

\* Every step preserves the invariant.
LEMMA IndexStepKeeps ==
  ASSUME IndexInv, [IndexNext]_indexVars
  PROVE  IndexInv'
  <1>1. CASE UNCHANGED indexVars
    BY <1>1 DEF indexVars, IndexInv, IndexTypes, IndexFollows, Knows, Sole, Follows, Current,
                Shown, ForSale
  <1>e. \A p \in Existing : p \in Products /\ product[p].deleted = FALSE /\ product[p].status # "none"
    BY DEF Existing, IndexInv, IndexTypes
  <1>2. ASSUME NEW e \in ShopEditors, NEW p \in Products, NEW want \in Statuses, StartCreate(e, p, want)
        PROVE  IndexInv'
    <2>1. product[p].deleted = FALSE
      BY <1>2 DEF StartCreate, IndexInv, IndexTypes
    <2>2. want # "none" /\ {p} \in SUBSET Products
      BY DEF Statuses
    <2> QED
      BY <1>2, <2>1, <2>2, EnterKeeps DEF StartCreate
  <1>3. ASSUME NEW e \in ShopEditors, NEW p \in Products, NEW kind, NEW want,
               want \in Statuses \/ kind = "remove", StartChange(e, p, kind, want)
        PROVE  IndexInv'
    <2>1. product[p].deleted = FALSE /\ product[p].status # "none"
      BY <1>3, <1>e DEF StartChange
    <2>2. IF kind = "remove" THEN product[p].status # "none" ELSE want # "none"
      BY <1>3, <2>1 DEF Statuses
    <2>3. {p} \in SUBSET Products /\ \A x \in {p} : x = p
      OBVIOUS
    <2> QED
      BY <1>3, <2>1, <2>2, <2>3, EnterKeeps DEF StartChange
  <1>4. ASSUME NEW e \in ShopEditors, StartReindex(e) PROVE IndexInv'
    <2>1. Existing \in SUBSET Products
      BY <1>e
    <2> QED
      BY <1>4, <1>e, <2>1, EnterKeeps DEF StartReindex
  <1>5. ASSUME NEW e \in ShopEditors, NEW p \in Products, BuildDocument(e, p) PROVE IndexInv'
    BY <1>5, BuildKeeps
  <1>6. ASSUME NEW e \in ShopEditors, WriteProduct(e) PROVE IndexInv'
    BY <1>6, WriteKeeps
  <1>7. ASSUME NEW e \in ShopEditors, WriteFails(e) \/ IndexMisses(e) PROVE IndexInv'
    BY <1>7, GivesUpKeeps
  <1>8. ASSUME NEW e \in ShopEditors, AddDocuments(e) PROVE IndexInv'
    BY <1>8, AddKeeps
  <1>9. ASSUME NEW e \in ShopEditors, Unindex(e) PROVE IndexInv'
    BY <1>9, UnindexKeeps
  <1>10. CASE ApiRestarts
    BY <1>10, ReindexRestart
  <1>11. CASE IndexNext
    BY <1>2, <1>3, <1>4, <1>5, <1>6, <1>7, <1>8, <1>9, <1>10, <1>11 DEF IndexNext
  <1> QED
    BY <1>1, <1>11

\* It holds at first.
LEMMA IndexStart == IndexInit => IndexInv
  <1> SUFFICES ASSUME IndexInit PROVE IndexInv
    OBVIOUS
  <1>1. /\ \A e \in ShopEditors : job[e] = NoJob
        /\ job = [e \in ShopEditors |-> NoJob]
        /\ \A p \in Products : /\ product[p].deleted = FALSE /\ product[p].status = "none"
                               /\ document[p].status = "absent"
    BY DEF IndexInit, Product, NoDocument, Document
  <1>2. IndexTypes
    BY <1>1, NoJobMade DEF IndexTypes
  <1>3. \A e \in ShopEditors : job[e].on = {}
    BY <1>1, NoJobMade
  <1>4. IndexFollows
    BY <1>1 DEF IndexFollows, Shown, ForSale
  <1> QED
    BY <1>2, <1>3, <1>4 DEF IndexInv

\* A product that no request is busy with is found by the search if and only if
\* it is for sale, unless its index has missed a change, for any number of
\* products, of overlapping requests and of restarts.
THEOREM IndexKeepsUp == IndexSpec => []IndexFollows
  <1>1. IndexInv => IndexFollows
    BY DEF IndexInv
  <1>2. IndexInv /\ [IndexNext]_indexVars => IndexInv'
    BY IndexStepKeeps
  <1> QED
    BY <1>1, <1>2, IndexStart, PTL DEF IndexSpec
-----------------------------------------------------------------------------
\* The types of the products, the documents and the requests: what a request
\* sends was a document when it was built.

ProductRows == [status : Statuses \union {"none"}, deleted : BOOLEAN, changes : 0..MaxChanges]

Documents == [status : Statuses \union {"absent"}, changes : 0..MaxChanges]

\* What a request carries to the rows and to the index.
Carries(j) ==
  /\ \A p \in j.on : j.built[p] \in Documents \union {NoDocument}
  /\ j.at = "write" => j.kind = "remove" \/ j.want \in Statuses
  /\ j.at = "build" => \A p \in j.on : product[p].status # "none"

RowTypes ==
  /\ product \in [Products -> ProductRows]
  /\ document \in [Products -> Documents]
  /\ reachable \in BOOLEAN
  /\ doubtful \subseteq Products
  /\ \A e \in ShopEditors : Carries(job[e])

LEMMA NoDocumentTyped == NoDocument \in Documents
  BY IndexAssumption DEF NoDocument, Document, Documents, IndexAssumption

LEMMA LeavesTyped ==
  ASSUME IndexInv, RowTypes, NEW e \in ShopEditors, LeaveIndex(e), product' = product
  PROVE  \A o \in ShopEditors : Carries(job[o])'
  <1>1. job'[e] = NoJob /\ \A o \in ShopEditors : o # e => job'[o] = job[o]
    BY LeaveFacts DEF IndexInv
  <1>2. Carries(job[e])'
    BY <1>1, NoJobMade DEF Carries
  <1> QED
    BY <1>1, <1>2 DEF RowTypes, Carries

LEMMA EntersTyped ==
  ASSUME IndexInv, RowTypes, NEW e \in ShopEditors, NEW at, NEW kind, NEW on \in SUBSET Products,
         NEW want, Enter(e, Job(at, kind, on, want)),
         at = "write" => kind = "remove" \/ want \in Statuses,
         at = "build" => \A p \in on : product[p].status # "none",
         UNCHANGED <<product, document, reachable>>
  PROVE  RowTypes'
  <1>1. doubtful' \subseteq Products
    <2>1. doubtful' = doubtful \union Busy(on)
      BY Entered DEF IndexInv
    <2> QED
      BY <2>1 DEF RowTypes, Busy
  <1>2. Carries(job[e])'
    <2>1. job'[e] = [at |-> at, kind |-> kind, on |-> on, want |-> want,
                     built |-> [p \in on |-> NoDocument], alone |-> on \ Busy(on)]
      BY Entered DEF IndexInv
    <2> QED
      BY <2>1 DEF Carries
  <1>r. \A o \in ShopEditors : o # e =>
          job'[o] = [at |-> job[o].at, kind |-> job[o].kind, on |-> job[o].on,
                     want |-> job[o].want, built |-> job[o].built,
                     alone |-> job[o].alone \ Busy(on)]
    BY Entered DEF IndexInv
  <1>3. ASSUME NEW o \in ShopEditors, o # e PROVE Carries(job[o])'
    <2> DEFINE j == job[o]
               k == job'[o]
    <2>1. k = [at |-> j.at, kind |-> j.kind, on |-> j.on, want |-> j.want, built |-> j.built,
               alone |-> j.alone \ Busy(on)]
      BY <1>3, <1>r
    <2>2. Carries(j) /\ product' = product
      BY DEF RowTypes
    <2> HIDE DEF j, k
    <2>3. k.at = j.at /\ k.kind = j.kind /\ k.on = j.on /\ k.want = j.want /\ k.built = j.built
      BY <2>1
    <2>4. Carries(k)
      BY <2>2, <2>3 DEF Carries
    <2> QED
      BY <2>2, <2>4 DEF Carries, k
  <1> QED
    BY <1>1, <1>2, <1>3 DEF RowTypes

LEMMA WriteTyped ==
  ASSUME IndexInv, RowTypes, NEW e \in ShopEditors, WriteProduct(e)
  PROVE  RowTypes'
  <1> DEFINE j == job[e]
             next == IndexStep(j.kind, j.want)
  <1>1. /\ j.at = "write" /\ UNCHANGED <<document, reachable, doubtful>>
        /\ job' = [job EXCEPT ![e].at = next]
        /\ \A p \in j.on : product[p].changes < MaxChanges
        /\ product' = [p \in Products |->
             IF p \notin j.on THEN product[p]
             ELSE Product(IF j.kind = "remove" THEN product[p].status ELSE j.want,
                          product[p].deleted \/ j.kind = "remove",
                          product[p].changes + 1)]
    BY DEF WriteProduct
  <1>2. next # "write"
    BY DEF IndexStep
  <1>3. /\ j = [at |-> j.at, kind |-> j.kind, on |-> j.on, want |-> j.want,
                built |-> j.built, alone |-> j.alone]
        /\ job = [o \in ShopEditors |-> job[o]]
    BY DEF IndexInv, IndexTypes, IsJob
  <1>4. Carries(j)
    BY DEF RowTypes
  <1> HIDE DEF j, next
  <1>5. /\ \A o \in ShopEditors : o # e => job'[o] = job[o]
        /\ job'[e] = [at |-> next, kind |-> j.kind, on |-> j.on, want |-> j.want,
                      built |-> j.built, alone |-> j.alone]
    BY <1>1, <1>3 DEF j
  <1>n. \A p \in j.on : p \in Products /\ (j.kind = "remove" => product[p].status # "none")
    BY <1>1 DEF IndexInv, IndexTypes, IsJob, Knows, j
  <1>p. \A p \in j.on : product'[p].status # "none"
    <2> SUFFICES ASSUME NEW p \in j.on PROVE product'[p].status # "none"
      OBVIOUS
    <2>1. product'[p].status = IF j.kind = "remove" THEN product[p].status ELSE j.want
      BY <1>1, <1>n DEF Product
    <2> QED
      BY <1>1, <1>4, <1>n, <2>1 DEF Carries, Statuses
  <1>q. \A p \in Products : product[p].status # "none" => product'[p].status # "none"
    BY <1>1, <1>p
  <1>6. \A o \in ShopEditors : Carries(job[o])'
    <2>1. Carries(job[e])'
      BY <1>2, <1>4, <1>5, <1>p DEF Carries
    <2>2. ASSUME NEW o \in ShopEditors, o # e PROVE Carries(job[o])'
      <3>1. Carries(job[o]) /\ job[o].on \subseteq Products /\ job'[o] = job[o]
        BY <1>5, <2>2 DEF RowTypes, IndexInv, IndexTypes, IsJob
      <3> QED
        BY <1>q, <3>1 DEF Carries
    <2> QED
      BY <2>1, <2>2
  <1>7. ASSUME NEW p \in Products PROVE product'[p] \in ProductRows
    <2>1. product[p] \in ProductRows
      BY DEF RowTypes
    <2>2. CASE p \notin j.on
      BY <1>1, <2>1, <2>2
    <2>3. CASE p \in j.on
      <3> DEFINE st == IF j.kind = "remove" THEN product[p].status ELSE j.want
                 gone == product[p].deleted \/ j.kind = "remove"
                 n == product[p].changes + 1
      <3>1. st \in Statuses \union {"none"}
        BY <1>1, <1>4, <2>1 DEF Carries, ProductRows
      <3>2. n \in 0..MaxChanges
        BY <1>1, <2>1, <2>3, IndexAssumption DEF ProductRows, IndexAssumption
      <3>3. gone \in BOOLEAN
        BY Zenon
      <3>4. product'[p] = Product(st, gone, n)
        BY <1>1, <2>3, Zenon
      <3> HIDE DEF st, gone, n
      <3> QED
        BY <3>1, <3>2, <3>3, <3>4 DEF Product, ProductRows
    <2> QED
      BY <2>2, <2>3
  <1>8. product' \in [Products -> ProductRows]
    <2> DEFINE f == product'
    <2>1. f = [p \in Products |-> f[p]] /\ \A p \in Products : f[p] \in ProductRows
      BY <1>1, <1>7
    <2> HIDE DEF f
    <2>2. f \in [Products -> ProductRows]
      BY <2>1
    <2> QED
      BY <2>2 DEF f
  <1> QED
    BY <1>1, <1>6, <1>8 DEF RowTypes

LEMMA BuildTyped ==
  ASSUME IndexInv, RowTypes, NEW e \in ShopEditors, NEW p \in Products, BuildDocument(e, p)
  PROVE  RowTypes'
  <1> DEFINE j == job[e]
  <1>1. /\ UNCHANGED <<product, document, reachable, doubtful>>
        /\ j.at = "build" /\ p \in j.on
        /\ job' = [job EXCEPT ![e].built[p] = Current(p)]
    BY DEF BuildDocument, Current
  <1>2. Current(p) \in Documents
    <2>1. product[p] \in ProductRows /\ product[p].status # "none"
      BY <1>1 DEF RowTypes, Carries, j
    <2> QED
      BY <2>1 DEF Current, Document, Documents, ProductRows
  <1>3. /\ j = [at |-> j.at, kind |-> j.kind, on |-> j.on, want |-> j.want,
                built |-> j.built, alone |-> j.alone]
        /\ j.built = [x \in j.on |-> j.built[x]]
        /\ job = [o \in ShopEditors |-> job[o]]
    BY DEF IndexInv, IndexTypes, IsJob
  <1>4. Carries(j)
    BY DEF RowTypes
  <1> HIDE DEF j
  <1>5. /\ \A o \in ShopEditors : o # e => job'[o] = job[o]
        /\ job'[e] = [at |-> j.at, kind |-> j.kind, on |-> j.on, want |-> j.want,
                      built |-> [j.built EXCEPT ![p] = Current(p)], alone |-> j.alone]
    BY <1>1, <1>3 DEF j
  <1>6. \A x \in j.on : job'[e].built[x] = IF x = p THEN Current(p) ELSE j.built[x]
    BY <1>3, <1>5
  <1>7. Carries(job[e])'
    BY <1>1, <1>2, <1>4, <1>5, <1>6 DEF Carries
  <1>8. \A o \in ShopEditors : o # e => Carries(job[o])'
    BY <1>1, <1>5 DEF Carries, RowTypes
  <1> QED
    BY <1>1, <1>7, <1>8 DEF RowTypes

\* Every step preserves the types.
LEMMA RowStep ==
  ASSUME IndexInv, RowTypes, [IndexNext]_indexVars
  PROVE  RowTypes'
  <1>1. CASE UNCHANGED indexVars
    BY <1>1 DEF indexVars, RowTypes, Carries
  <1>2. ASSUME NEW e \in ShopEditors, NEW p \in Products, NEW want \in Statuses, StartCreate(e, p, want)
        PROVE  RowTypes'
    <2>1. {p} \in SUBSET Products
      OBVIOUS
    <2> QED
      BY <1>2, <2>1, EntersTyped DEF StartCreate
  <1>3. ASSUME NEW e \in ShopEditors, NEW p \in Products, NEW kind, NEW want,
               want \in Statuses \/ kind = "remove", StartChange(e, p, kind, want)
        PROVE  RowTypes'
    <2>1. {p} \in SUBSET Products
      OBVIOUS
    <2> QED
      BY <1>3, <2>1, EntersTyped DEF StartChange
  <1>4. ASSUME NEW e \in ShopEditors, StartReindex(e) PROVE RowTypes'
    <2>1. Existing \in SUBSET Products /\ \A p \in Existing : product[p].status # "none"
      BY DEF Existing
    <2> QED
      BY <1>4, <2>1, EntersTyped DEF StartReindex
  <1>5. ASSUME NEW e \in ShopEditors, NEW p \in Products, BuildDocument(e, p) PROVE RowTypes'
    BY <1>5, BuildTyped
  <1>6. ASSUME NEW e \in ShopEditors, WriteProduct(e) PROVE RowTypes'
    BY <1>6, WriteTyped
  <1>7. ASSUME NEW e \in ShopEditors, WriteFails(e) \/ IndexMisses(e) PROVE RowTypes'
    <2>1. LeaveIndex(e) /\ UNCHANGED <<product, document, reachable>>
      BY <1>7 DEF WriteFails, IndexMisses, LeaveIndex
    <2>2. doubtful' \subseteq Products
      BY <1>7 DEF WriteFails, IndexMisses, RowTypes, IndexInv, IndexTypes, IsJob
    <2>3. \A o \in ShopEditors : Carries(job[o])'
      BY <2>1, LeavesTyped
    <2> QED
      BY <2>1, <2>2, <2>3 DEF RowTypes
  <1>8. ASSUME NEW e \in ShopEditors, AddDocuments(e) PROVE RowTypes'
    <2>1. /\ LeaveIndex(e) /\ UNCHANGED <<product, reachable>> /\ doubtful' \subseteq doubtful
          /\ document' = [p \in Products |-> IF p \in job[e].on THEN job[e].built[p] ELSE document[p]]
      BY <1>8 DEF AddDocuments, Settle
    <2>2. \A p \in job[e].on : job[e].built[p] \in Documents
      BY NoDocumentTyped DEF RowTypes, Carries
    <2>3. document' \in [Products -> Documents]
      BY <2>1, <2>2 DEF RowTypes
    <2>4. \A o \in ShopEditors : Carries(job[o])'
      BY <2>1, LeavesTyped
    <2> QED
      BY <2>1, <2>3, <2>4 DEF RowTypes
  <1>9. ASSUME NEW e \in ShopEditors, Unindex(e) PROVE RowTypes'
    <2>1. /\ LeaveIndex(e) /\ UNCHANGED <<product, reachable>> /\ doubtful' \subseteq doubtful
          /\ document' = [p \in Products |-> IF p \in job[e].on THEN NoDocument ELSE document[p]]
      BY <1>9 DEF Unindex, Settle, Removed
    <2>2. document' \in [Products -> Documents]
      BY <2>1, NoDocumentTyped DEF RowTypes
    <2>3. \A o \in ShopEditors : Carries(job[o])'
      BY <2>1, LeavesTyped
    <2> QED
      BY <2>1, <2>2, <2>3 DEF RowTypes
  <1>10. CASE ApiRestarts
    <2>1. /\ UNCHANGED <<product, document>> /\ reachable' \in BOOLEAN
          /\ \A e \in ShopEditors : job'[e] = NoJob
          /\ doubtful' = doubtful \union
               UNION {job[e].on : e \in {o \in ShopEditors : job[o].at \in {"build", "unindex"}}}
      BY <1>10 DEF ApiRestarts
    <2>2. \A e \in ShopEditors : job[e].on \subseteq Products
      BY DEF IndexInv, IndexTypes, IsJob
    <2>3. doubtful' \subseteq Products
      BY <2>1, <2>2 DEF RowTypes
    <2>4. \A e \in ShopEditors : Carries(job[e])'
      BY <2>1, NoJobMade DEF Carries
    <2> QED
      BY <2>1, <2>3, <2>4 DEF RowTypes
  <1>11. CASE IndexNext
    BY <1>2, <1>3, <1>4, <1>5, <1>6, <1>7, <1>8, <1>9, <1>10, <1>11 DEF IndexNext
  <1> QED
    BY <1>1, <1>11

LEMMA IndexTyped == IndexSpec => []IndexTypeOK
  <1>1. IndexInit => RowTypes
    <2> SUFFICES ASSUME IndexInit PROVE RowTypes
      OBVIOUS
    <2>1. \A e \in ShopEditors : Carries(job[e])
      BY NoJobMade DEF IndexInit, Carries
    <2>2. document \in [Products -> Documents] /\ reachable \in BOOLEAN /\ doubtful \subseteq Products
      BY NoDocumentTyped DEF IndexInit
    <2>3. product \in [Products -> ProductRows]
      BY IndexAssumption DEF IndexInit, Product, ProductRows, IndexAssumption
    <2> QED
      BY <2>1, <2>2, <2>3 DEF RowTypes
  <1>2. IndexInv /\ RowTypes => IndexTypeOK
    BY DEF IndexInv, IndexTypes, IsJob, RowTypes, ProductRows, Documents, IndexTypeOK
  <1>3. IndexInv /\ RowTypes /\ [IndexNext]_indexVars => RowTypes' /\ IndexInv'
    BY RowStep, IndexStepKeeps
  <1> QED
    BY <1>1, <1>2, <1>3, IndexStart, PTL DEF IndexSpec
=============================================================================
