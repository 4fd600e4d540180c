------------------------ MODULE WorktreeChanges_proofs ------------------------
(* Theorems about WorktreeChanges, for every set of paths, contents, commits *)
(* and starting repositories.                                                *)
EXTENDS WorktreeChanges, FiniteSetTheorems, TLAPS

-----------------------------------------------------------------------------
(* Types.                                                                    *)

\* Halves as the collection hands them over.
IsHalves(h) ==
    /\ DOMAIN h \subseteq Paths
    /\ \A p \in DOMAIN h : h[p].before \in Sides /\ h[p].after \in Sides

LEMMA HalvesTyped == ASSUME TypeOK, Pending = {} PROVE IsHalves(Halves)
<1> DEFINE h == Halves
<1>1. ASSUME NEW p \in DOMAIN h
      PROVE  p \in Paths /\ h[p].before \in Sides /\ h[p].after \in Sides
  <2>1. p \in Paths /\ p \in {i.path : i \in items}
    BY <1>1 DEF Halves
  <2>2. PICK i \in items : i.path = p
    BY <2>1
  <2>3. after[p] \in Sides
    BY <2>1, <2>2 DEF TypeOK, Pending, Sides
  <2>4. tree[base][p] \in Things
    BY <2>1 DEF TypeOK, Trees
  <2>5. Text(tree[base][p]) \in Sides
    BY <2>4 DEF Text, Things, Sides
  <2> QED
    BY <1>1, <2>1, <2>3, <2>5 DEF Halves
<1> QED
  BY <1>1 DEF IsHalves

\* Renames and the rest are changes between sides of paths.
LEMMA ReportTyped ==
    ASSUME TypeOK, Pending = {}
    PROVE  Reported(Halves) \subseteq Changes
<1> DEFINE h == Halves
<1>1. IsHalves(h)
  BY HalvesTyped
<1>2. ASSUME NEW r \in Renames(h)
      PROVE  r[1] \in DOMAIN h /\ r[2] \in DOMAIN h
  BY <1>2 DEF Renames, Removed, Arrived
<1> HIDE DEF h
<1>3. ASSUME NEW c \in Reported(h)
      PROVE  c \in Changes
  BY <1>1, <1>2, <1>3 DEF Reported, Changes, IsHalves
<1> QED
  BY <1>3 DEF h

LEMMA InitTyped == ASSUME Init PROVE TypeOK
  BY WorktreeAssumption DEF Init, TypeOK, Nowhere, Trees, Things, Steps

\* The paths status and the commits list, as CheckAfter leaves them.
Lists(listed) ==
    /\ \A p \in listed : MayList(p)
    /\ pc' = "items"
    /\ HeadIsHeld
    /\ \A p \in Paths : ~Twice(p) /\ ~Nested(p)
    /\ {p \in Paths : Listed(p)} \subseteq listed
    /\ items' = {[path |-> p, deleted |-> HasD(p)] : p \in listed}
           \cup {[path |-> p, deleted |-> Text(tree[held][p]) = None] : p \in Committed \ listed}
    /\ UNCHANGED <<world, call, held, status, seen, after, at, result, quiet>>

LEMMA Listing ==
    ASSUME CheckAfter
    PROVE  pc = "after" /\ (Fail \/ \E listed \in SUBSET Paths : Lists(listed))
  BY DEF CheckAfter, Lists

LEMMA ListedItems == ASSUME NEW listed \in SUBSET Paths, Lists(listed) PROVE items' \subseteq Items
<1>1. items' = {[path |-> p, deleted |-> HasD(p)] : p \in listed}
         \cup {[path |-> p, deleted |-> Text(tree[held][p]) = None] : p \in Committed \ listed}
  BY DEF Lists
<1>2. \A p : HasD(p) \in BOOLEAN /\ (Text(tree[held][p]) = None) \in BOOLEAN
  BY DEF HasD
<1>3. listed \subseteq Paths /\ Committed \subseteq Paths
  BY DEF Committed
<1>4. ASSUME NEW i \in items'
      PROVE  i \in Items
  <2>1. CASE i \in {[path |-> p, deleted |-> HasD(p)] : p \in listed}
    <3>1. PICK p \in listed : i = [path |-> p, deleted |-> HasD(p)]
      BY <2>1
    <3> QED
      BY <1>2, <1>3, <3>1 DEF Items
  <2>2. CASE i \in {[path |-> p, deleted |-> Text(tree[held][p]) = None] : p \in Committed \ listed}
    <3>1. PICK p \in Committed \ listed : i = [path |-> p, deleted |-> Text(tree[held][p]) = None]
      BY <2>2
    <3> QED
      BY <1>2, <1>3, <3>1 DEF Items
  <2> QED
    BY <1>1, <1>4, <2>1, <2>2
<1> QED
  BY <1>4

LEMMA ListingTyped == ASSUME TypeOK, CheckAfter PROVE TypeOK'
<1>1. CASE Fail
  BY <1>1 DEF Fail, TypeOK, world, call, status, Steps
<1>2. ASSUME NEW listed \in SUBSET Paths, Lists(listed)
      PROVE  TypeOK'
  <2>1. items' \subseteq Items
    BY <1>2, ListedItems
  <2> QED
    BY <1>2, <2>1 DEF TypeOK, world, call, status, result, Steps, Lists
<1> QED
  BY <1>1, <1>2, Listing

LEMMA StepTyped == ASSUME TypeOK, [Next]_vars PROVE TypeOK'
<1> USE DEF TypeOK, world, call, status, result, Steps
<1>1. CASE UNCHANGED vars
  BY <1>1 DEF vars
<1>2. ASSUME NEW p \in Loose, NEW thing \in Things, Edit(p, thing) \/ Stage(p, thing)
      PROVE  TypeOK'
  <2>1. moves' \in Nat
    BY <1>2 DEF Edit, Stage, Moves
  <2>2. work' \in Trees /\ index' \in Trees
    BY <1>2, WorktreeAssumption DEF Edit, Stage, Trees
  <2> QED
    BY <1>2, <2>1, <2>2 DEF Edit, Stage, Moves
<1>3. ASSUME NEW c \in Commits, MoveHead(c)
      PROVE  TypeOK'
  <2>1. moves' \in Nat
    BY <1>3 DEF MoveHead, Moves
  <2> QED
    BY <1>3, <2>1 DEF MoveHead, Moves
<1>4. CASE Resolve
  BY <1>4 DEF Resolve, Goto
<1>5. CASE CheckBefore
  BY <1>5 DEF CheckBefore, Goto, Fail
<1>6. CASE StatusReadsIndex
  BY <1>6 DEF StatusReadsIndex, Goto
<1>7. CASE StatusReadsHead
  BY <1>7 DEF StatusReadsHead, Goto
<1>8. CASE StatusEnds
  BY <1>8 DEF StatusEnds, Goto
<1>9. ASSUME NEW p \in Paths, StatusLooks(p)
      PROVE  TypeOK'
  BY <1>9 DEF StatusLooks, Trees
<1>10. CASE CheckAfter
  BY <1>10, ListingTyped
<1>11. ASSUME NEW i \in items, TakeDeleted(i) \/ TakePresent(i)
       PROVE  TypeOK'
  BY <1>11 DEF TakeDeleted, TakePresent, Items, Sides, Trees
<1>12. CASE AskIndex
  BY <1>12 DEF AskIndex, Sides
<1>13. CASE ReadFile
  BY <1>13 DEF ReadFile, Fail, Sides, Things
<1>14. CASE Finish
  BY <1>14, ReportTyped DEF Finish, Goto
<1>15. CASE GitFails
  BY <1>15 DEF GitFails
<1> QED
  BY <1>1, <1>2, <1>3, <1>4, <1>5, <1>6, <1>7, <1>8, <1>9, <1>10, <1>11, <1>12, <1>13, <1>14, <1>15
     DEF Next, Others, Collects

\* TypeOK holds in every reachable state.
THEOREM TypeCorrect == Spec => []TypeOK
<1>1. Init => TypeOK
  BY InitTyped
<1>2. TypeOK /\ [Next]_vars => TypeOK'
  BY StepTyped
<1> QED
  BY <1>1, <1>2, PTL DEF Spec

-----------------------------------------------------------------------------
(* The invariant behind the report, when HEAD does not come back.            *)

Underway == {"index", "tree", "look", "after", "items", "gitlink", "read"}
Reads    == {"items", "gitlink", "read"}

\* HEAD is what the call holds, or has left it for good; what git status read
\* of HEAD is the tree held, or HEAD has left by now.
HeadInv ==
    /\ head \notin left
    /\ pc \in Underway => head = held \/ held \in left
    /\ pc \in {"look", "after"} => gitTree = tree[held] \/ held \in left
    /\ pc \in Reads => gitTree = tree[held]
    /\ mode = "worktree" => base = head \/ base \in left
    /\ mode = "worktree" /\ pc \in Underway \cup {"before"} => held = base

\* The two sides of every path, as far as they are known.
ViewInv ==
    /\ pc \in Reads \cup {"after"} => \A p \in Paths : seen[p] # Unseen
    /\ pc \in Reads =>
         /\ \A p \in Paths : (\A i \in items : i.path # p) => Text(seen[p]) = Text(tree[base][p])
         /\ \A i \in items : i.deleted => Text(seen[i.path]) = None
         /\ \A i, j \in items : i.path = j.path => i = j
         /\ \A p \in Paths : after[p] # Unseen => after[p] = Text(seen[p])
    /\ pc \notin Reads \cup {"done"} => \A p \in Paths : after[p] = Unseen
    /\ pc \in {"gitlink", "read"} =>
         /\ at \in Paths
         /\ after[at] = Unseen
         /\ \E i \in items : i.path = at /\ ~i.deleted
    /\ pc = "gitlink" => seen[at] = Link

ResultInv ==
    /\ pc # "done" => answer = "none"
    /\ answer = "none" => changes = {}

Inv == TypeOK /\ HeadInv /\ ViewInv /\ ResultInv

LEMMA InitInv == ASSUME Init PROVE Inv
<1>1. TypeOK
  BY InitTyped
<1>2. HeadInv
  BY DEF Init, HeadInv, Underway, Reads
<1>3. ViewInv
  BY DEF Init, ViewInv, Reads
<1>4. ResultInv
  BY DEF Init, ResultInv
<1> QED
  BY <1>1, <1>2, <1>3, <1>4 DEF Inv

LEMMA HeadStep == ASSUME ~Returns, TypeOK, HeadInv, [Next]_vars PROVE HeadInv'
<1> USE DEF HeadInv, Underway, Reads, world, call, status
<1>1. CASE UNCHANGED vars
  BY <1>1 DEF vars
<1>2. ASSUME NEW p \in Loose, NEW thing \in Things, Edit(p, thing) \/ Stage(p, thing)
      PROVE  HeadInv'
  BY <1>2 DEF Edit, Stage, Moves
<1>3. ASSUME NEW c \in Commits, MoveHead(c)
      PROVE  HeadInv'
  BY <1>3 DEF MoveHead, Moves
<1>4. CASE Resolve
  BY <1>4 DEF Resolve, Goto
<1>5. CASE CheckBefore
  BY <1>5 DEF CheckBefore, Goto, Fail, HeadIsHeld
<1>6. CASE StatusReadsIndex
  BY <1>6 DEF StatusReadsIndex, Goto
<1>7. CASE StatusReadsHead
  BY <1>7 DEF StatusReadsHead, Goto
<1>8. CASE StatusEnds
  BY <1>8 DEF StatusEnds, Goto
<1>9. ASSUME NEW p \in Paths, StatusLooks(p)
      PROVE  HeadInv'
  BY <1>9 DEF StatusLooks
<1>10. CASE CheckAfter
  <2>1. CASE Fail
    BY <2>1 DEF Fail
  <2>2. ASSUME NEW listed \in SUBSET Paths, pc = "after", Lists(listed)
        PROVE  HeadInv'
    BY <2>2 DEF Lists, HeadIsHeld
  <2> QED
    BY <1>10, <2>1, <2>2, Listing
<1>11. ASSUME NEW i \in items, TakeDeleted(i) \/ TakePresent(i)
       PROVE  HeadInv'
  BY <1>11 DEF TakeDeleted, TakePresent
<1>12. CASE AskIndex
  BY <1>12 DEF AskIndex
<1>13. CASE ReadFile
  BY <1>13 DEF ReadFile, Fail
<1>14. CASE Finish
  BY <1>14 DEF Finish, Goto
<1>15. CASE GitFails
  BY <1>15 DEF GitFails
<1> QED
  BY <1>1, <1>2, <1>3, <1>4, <1>5, <1>6, <1>7, <1>8, <1>9, <1>10, <1>11, <1>12, <1>13, <1>14, <1>15
     DEF Next, Others, Collects

LEMMA ResultStep == ASSUME ResultInv, [Next]_vars PROVE ResultInv'
<1> USE DEF ResultInv, result
<1>1. CASE UNCHANGED vars
  BY <1>1 DEF vars
<1>2. CASE Others
  BY <1>2 DEF Others, Edit, Stage, MoveHead, Moves
<1>3. CASE CheckAfter
  <2>1. CASE Fail
    BY <2>1 DEF Fail
  <2>2. ASSUME NEW listed \in SUBSET Paths, pc = "after", Lists(listed)
        PROVE  ResultInv'
    BY <2>2 DEF Lists
  <2> QED
    BY <1>3, <2>1, <2>2, Listing
<1>4. CASE Collects /\ ~CheckAfter
  BY <1>4 DEF Collects, Resolve, CheckBefore, StatusReadsIndex, StatusReadsHead, StatusEnds, StatusLooks,
     TakeDeleted, TakePresent, AskIndex, ReadFile, Finish, GitFails, Goto, Fail
<1> QED
  BY <1>1, <1>2, <1>3, <1>4 DEF Next

\* Where the listing succeeds, a path outside it is the same in the base tree,
\* and a path listed as deleted was not found.
LEMMA ListingSound ==
    ASSUME ~Returns, TypeOK, HeadInv, ViewInv, pc = "after", NEW listed \in SUBSET Paths, Lists(listed)
    PROVE  ViewInv'
<1>1. held \notin left /\ gitTree = tree[held] /\ (mode = "worktree" => held = base)
  BY DEF Lists, HeadIsHeld, HeadInv, Underway
<1>2. \A p \in Paths : seen[p] # Unseen /\ after[p] = Unseen
  BY DEF ViewInv, Reads
<1>3. \A p \in Paths : ~Twice(p) /\ ~Nested(p) /\ (Listed(p) => p \in listed)
  BY DEF Lists
<1>4. /\ pc' = "items" /\ seen' = seen /\ after' = after /\ tree' = tree /\ base' = base
      /\ items' = {[path |-> p, deleted |-> HasD(p)] : p \in listed}
             \cup {[path |-> p, deleted |-> Text(tree[held][p]) = None] : p \in Committed \ listed}
  BY DEF Lists, world, call
<1>5. ASSUME NEW i \in items'
      PROVE  \/ i.path \in listed /\ i.deleted = HasD(i.path)
             \/ i.path \in Committed \ listed /\ i.deleted = (Text(tree[held][i.path]) = None)
  <2>1. CASE i \in {[path |-> p, deleted |-> HasD(p)] : p \in listed}
    <3>1. PICK p \in listed : i = [path |-> p, deleted |-> HasD(p)]
      BY <2>1
    <3> QED
      BY <3>1
  <2>2. CASE i \in {[path |-> p, deleted |-> Text(tree[held][p]) = None] : p \in Committed \ listed}
    <3>1. PICK p \in Committed \ listed : i = [path |-> p, deleted |-> Text(tree[held][p]) = None]
      BY <2>2
    <3> QED
      BY <3>1
  <2> QED
    BY <1>4, <1>5, <2>1, <2>2
<1>6. \A p \in listed \cup Committed : \E i \in items' : i.path = p
  <2>1. ASSUME NEW p \in listed
        PROVE  \E i \in items' : i.path = p
    <3>1. [path |-> p, deleted |-> HasD(p)] \in items'
      BY <1>4
    <3> QED
      BY <3>1
  <2>2. ASSUME NEW p \in Committed \ listed
        PROVE  \E i \in items' : i.path = p
    <3>1. [path |-> p, deleted |-> Text(tree[held][p]) = None] \in items'
      BY <1>4
    <3> QED
      BY <3>1
  <2> QED
    BY <2>1, <2>2
<1>7. ASSUME NEW p \in Paths, \A i \in items' : i.path # p
      PROVE  Text(seen[p]) = Text(tree[base][p])
  <2>1. p \notin listed /\ p \notin Committed
    BY <1>6, <1>7
  <2>2. seen[p] = tree[held][p]
    BY <1>1, <1>3, <2>1 DEF Listed
  <2>3. tree[base][p] = tree[held][p]
    BY <1>1, <2>1 DEF Committed, TypeOK
  <2> QED
    BY <2>2, <2>3
<1>8. ASSUME NEW i \in items', i.deleted
      PROVE  Text(seen[i.path]) = None
  <2>1. CASE i.path \in listed /\ i.deleted = HasD(i.path)
    <3>1. i.path \in Paths /\ HasD(i.path) /\ ~Twice(i.path)
      BY <1>3, <1>8, <2>1
    <3>2. seen[i.path] = None
      BY <3>1 DEF HasD, Twice
    <3> QED
      BY <3>2 DEF Text
  <2>2. CASE i.path \in Committed \ listed /\ i.deleted = (Text(tree[held][i.path]) = None)
    <3>1. i.path \in Paths /\ ~Listed(i.path) /\ Text(tree[held][i.path]) = None
      BY <1>3, <1>8, <2>2 DEF Committed
    <3>2. seen[i.path] = tree[held][i.path]
      BY <1>1, <3>1 DEF Listed
    <3> QED
      BY <3>1, <3>2
  <2> QED
    BY <1>5, <1>8, <2>1, <2>2
<1>9. ASSUME NEW i \in items', NEW j \in items', i.path = j.path
      PROVE  i = j
  <2>1. items' \subseteq Items
    BY ListedItems
  <2>2. i.deleted = j.deleted
    BY <1>5, <1>9
  <2> QED
    BY <1>9, <2>1, <2>2 DEF Items
<1> QED
  BY <1>2, <1>4, <1>7, <1>8, <1>9 DEF ViewInv, Reads

LEMMA ViewStep == ASSUME ~Returns, TypeOK, HeadInv, ViewInv, [Next]_vars PROVE ViewInv'
<1> USE DEF Reads, world, call, status
<1>1. CASE UNCHANGED vars
  BY <1>1 DEF vars, ViewInv
<1>2. CASE Others
  BY <1>2 DEF Others, Edit, Stage, MoveHead, Moves, ViewInv
<1>4. CASE Resolve
  BY <1>4 DEF Resolve, Goto, ViewInv
<1>5. CASE CheckBefore
  BY <1>5 DEF CheckBefore, Goto, Fail, ViewInv
<1>6. CASE StatusReadsIndex
  BY <1>6 DEF StatusReadsIndex, Goto, ViewInv
<1>7. CASE StatusReadsHead
  BY <1>7 DEF StatusReadsHead, Goto, ViewInv
<1>8. CASE StatusEnds
  BY <1>8 DEF StatusEnds, Goto, ViewInv
<1>9. ASSUME NEW p \in Paths, StatusLooks(p)
      PROVE  ViewInv'
  BY <1>9 DEF StatusLooks, ViewInv
<1>10. CASE CheckAfter
  <2>1. CASE Fail
    BY <1>10, <2>1 DEF Fail, ViewInv
  <2>2. ASSUME NEW listed \in SUBSET Paths, pc = "after", Lists(listed)
        PROVE  ViewInv'
    BY <2>2, ListingSound
  <2> QED
    BY <1>10, <2>1, <2>2, Listing
<1>11. ASSUME NEW i \in items, TakeDeleted(i)
       PROVE  ViewInv'
  <2>1. i.path \in Paths /\ Text(seen[i.path]) = None
    BY <1>11 DEF TakeDeleted, TypeOK, Items, ViewInv
  <2>2. after' = [after EXCEPT ![i.path] = None]
    BY <1>11 DEF TakeDeleted
  <2>3. \A p \in Paths : after'[p] # Unseen => after'[p] = Text(seen[p])
    BY <1>11, <2>1, <2>2 DEF TypeOK, ViewInv, TakeDeleted
  <2> QED
    BY <1>11, <2>3 DEF TakeDeleted, ViewInv
<1>12. ASSUME NEW i \in items, TakePresent(i)
       PROVE  ViewInv'
  <2>1. i.path \in Paths /\ after[i.path] = Unseen /\ ~i.deleted
    BY <1>12 DEF TakePresent, Pending, TypeOK, Items
  <2>2. seen' = [seen EXCEPT ![i.path] = work[i.path]]
    BY <1>12 DEF TakePresent
  <2>3. work[i.path] # Unseen
    BY <2>1, WorktreeAssumption DEF TypeOK, Trees
  <2>4. \A p \in Paths : p # i.path => seen'[p] = seen[p]
    BY <2>2 DEF TypeOK
  <2>5. seen'[i.path] = work[i.path]
    BY <2>1, <2>2 DEF TypeOK
  <2>6. \A j \in items : j.deleted => j.path # i.path /\ j.path \in Paths
    BY <1>12, <2>1 DEF TakePresent, ViewInv, TypeOK, Items
  <2>7. pc = "items" /\ pc' \in {"gitlink", "read"} /\ (pc' = "gitlink" => work[i.path] = Link)
    BY <1>12 DEF TakePresent, IsDirectory
  <2>8. at' = i.path /\ UNCHANGED <<tree, base, items, after>>
    BY <1>12 DEF TakePresent
  <2> QED
    BY <1>12, <2>1, <2>3, <2>4, <2>5, <2>6, <2>7, <2>8 DEF ViewInv
<1>13. CASE AskIndex
  <2>1. pc = "gitlink" /\ at \in Paths /\ after[at] = Unseen /\ seen[at] = Link
    BY <1>13 DEF AskIndex, ViewInv
  <2>2. CASE index[at] # Link
    BY <1>13, <2>1, <2>2 DEF AskIndex, ViewInv
  <2>3. CASE index[at] = Link
    <3>1. after' = [after EXCEPT ![at] = None] /\ pc' = "items"
      BY <1>13, <2>3 DEF AskIndex
    <3>2. \A p \in Paths : after'[p] # Unseen => after'[p] = Text(seen[p])
      BY <2>1, <3>1 DEF TypeOK, ViewInv, Text
    <3> QED
      BY <1>13, <2>1, <3>1, <3>2 DEF AskIndex, ViewInv
  <2> QED
    BY <2>2, <2>3
<1>14. CASE ReadFile
  <2>1. CASE Fail
    BY <1>14, <2>1 DEF Fail, ViewInv
  <2>2. CASE ~Fail
    <3>1. /\ pc = "read" /\ pc' = "items" /\ work[at] \in Contents
          /\ after' = [after EXCEPT ![at] = work[at]]
          /\ seen' = [seen EXCEPT ![at] = work[at]]
          /\ UNCHANGED <<tree, base, items>>
      BY <1>14, <2>2 DEF ReadFile
    <3>2. at \in Paths /\ work[at] # Unseen /\ Text(work[at]) = work[at]
      BY <3>1, WorktreeAssumption DEF ViewInv, Text, Things
    <3>3. PICK k \in items : k.path = at /\ ~k.deleted
      BY <3>1 DEF ViewInv
    <3>4. \A p \in Paths : after'[p] # Unseen => after'[p] = Text(seen'[p])
      BY <3>1, <3>2 DEF TypeOK, ViewInv
    <3>5. \A j \in items : j.deleted => j.path # at /\ j.path \in Paths
      BY <3>1, <3>3 DEF ViewInv, TypeOK, Items
    <3>6. \A p \in Paths : seen'[p] # Unseen /\ (p # at => seen'[p] = seen[p])
      BY <3>1, <3>2 DEF TypeOK, ViewInv
    <3> QED
      BY <3>1, <3>2, <3>3, <3>4, <3>5, <3>6 DEF ViewInv
  <2> QED
    BY <2>1, <2>2
<1>15. CASE Finish
  BY <1>15 DEF Finish, Goto, ViewInv
<1>16. CASE GitFails
  BY <1>16 DEF GitFails, ViewInv
<1> QED
  BY <1>1, <1>2, <1>4, <1>5, <1>6, <1>7, <1>8, <1>9, <1>10, <1>11, <1>12, <1>13, <1>14, <1>15, <1>16
     DEF Next, Collects

\* Inv is inductive as long as HEAD comes back to no commit it left.
LEMMA Invariance == ASSUME ~Returns PROVE Spec => []Inv
<1>1. Init => Inv
  BY InitInv
<1>2. Inv /\ [Next]_vars => Inv'
  BY StepTyped, HeadStep, ViewStep, ResultStep DEF Inv
<1> QED
  BY <1>1, <1>2, PTL DEF Spec

\* What `git status` read of HEAD is the tree of the commit the call holds.
THEOREM StatusVouched == ASSUME ~Returns PROVE Spec => []StatusIsOfHeld
<1>1. Inv => StatusIsOfHeld
  BY DEF Inv, HeadInv, StatusIsOfHeld, Reads
<1> QED
  BY <1>1, Invariance, PTL

-----------------------------------------------------------------------------
(* The report is the difference between the base tree and one view.          *)

Half(h, p) == [path |-> p, before |-> h[p].before, after |-> h[p].after]

\* Unfolding the renames of a report gives back the halves it was made from.
LEMMA Unfolding ==
    ASSUME NEW h
    PROVE  UNION {HalvesOf(c) : c \in Reported(h)} = {Half(h, p) : p \in DOMAIN h}
<1>1. ASSUME NEW r \in Renames(h)
      PROVE  /\ r[1] \in DOMAIN h /\ h[r[1]].after = None
             /\ r[2] \in DOMAIN h /\ h[r[2]].before = None
             /\ r[1] # r[2]
  <2>1. r[1] \in Removed(h) /\ r[2] \in Arrived(h)
    BY <1>1 DEF Renames
  <2> QED
    BY <2>1, WorktreeAssumption DEF Removed, Arrived, Readable
<1>2. ASSUME NEW c \in Reported(h), NEW x \in HalvesOf(c)
      PROVE  \E p \in DOMAIN h : x = Half(h, p)
  <2>1. CASE \E r \in Renames(h) :
               c = [path |-> r[2], old |-> r[1], before |-> h[r[1]].before, after |-> h[r[2]].after]
    <3>1. PICK r \in Renames(h) :
            c = [path |-> r[2], old |-> r[1], before |-> h[r[1]].before, after |-> h[r[2]].after]
      BY <2>1
    <3>2. x = Half(h, r[1]) \/ x = Half(h, r[2])
      BY <1>1, <1>2, <3>1 DEF HalvesOf, Half
    <3> QED
      BY <1>1, <3>2
  <2>2. CASE \E p \in DOMAIN h \ Paired(h) :
               c = [path |-> p, old |-> p, before |-> h[p].before, after |-> h[p].after]
    BY <1>2, <2>2 DEF HalvesOf, Half
  <2> QED
    BY <1>2, <2>1, <2>2 DEF Reported
<1>3. ASSUME NEW p \in DOMAIN h
      PROVE  \E c \in Reported(h) : Half(h, p) \in HalvesOf(c)
  <2>1. CASE p \in Paired(h)
    <3>1. PICK r \in Renames(h) : p = r[1] \/ p = r[2]
      BY <2>1 DEF Paired
    <3> DEFINE c == [path |-> r[2], old |-> r[1], before |-> h[r[1]].before, after |-> h[r[2]].after]
    <3>2. c \in Reported(h)
      BY DEF Reported
    <3>3. Half(h, p) \in HalvesOf(c)
      BY <1>1, <3>1 DEF HalvesOf, Half
    <3> QED
      BY <3>2, <3>3
  <2>2. CASE p \notin Paired(h)
    <3> DEFINE c == [path |-> p, old |-> p, before |-> h[p].before, after |-> h[p].after]
    <3>1. c \in Reported(h)
      BY <2>2 DEF Reported
    <3>2. Half(h, p) \in HalvesOf(c)
      BY DEF HalvesOf, Half
    <3> QED
      BY <3>1, <3>2
  <2> QED
    BY <2>1, <2>2
<1> QED
  BY <1>2, <1>3

LEMMA Finishing == ASSUME Inv, Finish PROVE OneView!Report
<1> DEFINE h == Halves
<1>1. /\ pc = "items" /\ answer = "none" /\ answer' = "report"
      /\ Pending = {} /\ changes' = Reported(h)
      /\ UNCHANGED <<tree, base, work, seen>>
  BY DEF Finish, Goto, Inv, ResultInv, world, call
<1>2. \A p \in Paths : seen[p] # Unseen
  BY <1>1 DEF Inv, ViewInv, Reads
<1>3. ASSUME NEW p \in Paths
      PROVE  \/ Text(tree[base][p]) = Text(seen[p]) /\ \A i \in items : i.path # p
             \/ after[p] = Text(seen[p]) /\ \E i \in items : i.path = p
  <2>1. CASE \A i \in items : i.path # p
    BY <1>1, <2>1 DEF Inv, ViewInv, Reads
  <2>2. CASE \E i \in items : i.path = p
    BY <1>1, <2>2 DEF Inv, ViewInv, Reads, Pending
  <2> QED
    BY <2>1, <2>2
<1>4. ASSUME NEW p \in DOMAIN h
      PROVE  /\ p \in Paths /\ Differs(p)
             /\ after[p] = Text(seen[p])
             /\ Half(h, p) = [path |-> p, before |-> Text(tree[base][p]), after |-> Text(seen[p])]
  <2>1. p \in Paths /\ Differs(p) /\ p \in {i.path : i \in items}
    BY <1>4 DEF Halves
  <2>2. after[p] = Text(seen[p])
    BY <1>3, <2>1
  <2> QED
    BY <1>4, <2>1, <2>2 DEF Half, Halves
<1>5. \A p \in Paths : OneView!Text(tree[base][p]) = Text(tree[base][p]) /\ OneView!Text(seen[p]) = Text(seen[p])
  BY DEF OneView!Text, Text
<1>6. OneView!MustReport \subseteq DOMAIN h
  <2>1. ASSUME NEW p \in Paths, Text(tree[base][p]) # Text(seen[p])
        PROVE  p \in DOMAIN h
    <3>1. after[p] = Text(seen[p]) /\ p \in {i.path : i \in items}
      BY <1>3, <2>1
    <3>2. Differs(p)
      BY <2>1, <3>1 DEF Differs
    <3> QED
      BY <2>1, <3>1, <3>2 DEF Halves
  <2> QED
    BY <1>5, <2>1 DEF OneView!MustReport
<1>7. DOMAIN h \subseteq OneView!MayReport
  <2>1. ASSUME NEW p \in DOMAIN h, Text(tree[base][p]) = Text(seen[p])
        PROVE  tree[base][p] \in Big /\ seen[p] \in Big
    <3>1. Text(tree[base][p]) \in Big /\ Text(seen[p]) \in Big
      BY <1>4, <2>1 DEF Differs
    <3> QED
      BY <3>1, WorktreeAssumption DEF Text
  <2> QED
    BY <1>4, <1>5, <2>1 DEF OneView!MustReport, OneView!MayReport
<1>8. UNION {HalvesOf(c) : c \in Reported(h)}
        = {[path |-> p, before |-> OneView!Text(tree[base][p]), after |-> OneView!Text(seen[p])] : p \in DOMAIN h}
  <2>1. UNION {HalvesOf(c) : c \in Reported(h)} = {Half(h, p) : p \in DOMAIN h}
    BY Unfolding
  <2> HIDE DEF h
  <2> QED
    BY <1>4, <1>5, <2>1
<1> QED
  BY <1>1, <1>2, <1>6, <1>7, <1>8 DEF OneView!Report

LEMMA StepReports == ASSUME Inv, [Next]_vars PROVE [OneView!ReportNext]_(OneView!reportVars)
<1> USE DEF OneView!ReportNext, OneView!reportVars, world, call, status, result
<1>1. CASE UNCHANGED vars
  BY <1>1 DEF vars
<1>2. ASSUME NEW p \in Loose, NEW thing \in Things, Edit(p, thing)
      PROVE  OneView!FilesChange
  <2>1. work' \in [Paths -> OneView!Things]
    BY <1>2, WorktreeAssumption DEF Edit, Inv, TypeOK, Trees, Things, OneView!Things
  <2> QED
    BY <1>2, <2>1 DEF Edit, Moves, OneView!FilesChange
<1>3. ASSUME NEW p \in Loose, NEW thing \in Things, Stage(p, thing)
      PROVE  UNCHANGED OneView!reportVars
  BY <1>3 DEF Stage, Moves
<1>4. ASSUME NEW c \in Commits, MoveHead(c)
      PROVE  UNCHANGED OneView!reportVars
  BY <1>4 DEF MoveHead, Moves
<1>5. ASSUME Fail, pc # "done"
      PROVE  OneView!GiveUp
  BY <1>5 DEF Fail, OneView!GiveUp, Inv, ResultInv
<1>6. CASE Resolve \/ StatusReadsIndex \/ StatusReadsHead \/ StatusEnds
  BY <1>6 DEF Resolve, StatusReadsIndex, StatusReadsHead, StatusEnds
<1>7. CASE CheckBefore
  BY <1>5, <1>7 DEF CheckBefore, Goto
<1>8. ASSUME NEW p \in Paths, StatusLooks(p)
      PROVE  OneView!Look(p)
  BY <1>8 DEF StatusLooks, OneView!Look, Inv, ResultInv
<1>9. CASE CheckAfter
  BY <1>5, <1>9, Listing DEF Lists
<1>10. ASSUME NEW i \in items, TakeDeleted(i)
       PROVE  UNCHANGED OneView!reportVars
  BY <1>10 DEF TakeDeleted
<1>11. ASSUME NEW i \in items, TakePresent(i)
       PROVE  i.path \in Paths /\ OneView!Look(i.path)
  BY <1>11 DEF TakePresent, OneView!Look, Inv, ResultInv, TypeOK, Items
<1>12. CASE AskIndex
  BY <1>12 DEF AskIndex
<1>13. CASE ReadFile
  <2>1. CASE Fail
    BY <1>5, <1>13, <2>1 DEF ReadFile
  <2>2. CASE ~Fail
    <3>1. at \in Paths /\ OneView!Look(at)
      BY <1>13, <2>2 DEF ReadFile, OneView!Look, Inv, ViewInv, ResultInv
    <3> QED
      BY <3>1
  <2> QED
    BY <2>1, <2>2
<1>14. CASE Finish
  BY <1>14, Finishing
<1>15. CASE GitFails
  BY <1>15 DEF GitFails, OneView!GiveUp, Inv, ResultInv
<1> QED
  BY <1>1, <1>2, <1>3, <1>4, <1>6, <1>7, <1>8, <1>9, <1>10, <1>11, <1>12, <1>13, <1>14, <1>15
     DEF Next, Others, Collects

\* Collecting implements ChangeReport: every report is the difference between
\* the base tree and one look at each path.
THEOREM ImplementsReport == ASSUME ~Returns PROVE Spec => ReportsOneView
<1>1. Init => OneView!ReportInit
  <2> SUFFICES ASSUME Init PROVE OneView!ReportInit
    OBVIOUS
  <2>1. TypeOK
    BY InitTyped
  <2> QED
    BY <2>1 DEF Init, OneView!ReportInit, TypeOK, Trees, Things, OneView!Things
<1>2. Inv /\ [Next]_vars => [OneView!ReportNext]_(OneView!reportVars)
  BY StepReports
<1> QED
  BY <1>1, <1>2, Invariance, PTL DEF Spec, ReportsOneView, OneView!ReportSpec

-----------------------------------------------------------------------------
(* Renames are a maximum matching.                                           *)

\* The place of x among the members of S.
Below(S, x) == {e \in S : e < x}
Turn(S, x)  == Cardinality(Below(S, x))

LEMMA TurnGrows ==
    ASSUME NEW S, S \subseteq Nat, IsFiniteSet(S), NEW x \in S, NEW y \in S, x < y
    PROVE  Turn(S, x) \in Nat /\ Turn(S, y) \in Nat /\ Turn(S, x) < Turn(S, y)
<1>1. IsFiniteSet(Below(S, x)) /\ IsFiniteSet(Below(S, y))
  BY FS_Subset DEF Below
<1>2. Below(S, x) \cup {x} \in SUBSET Below(S, y)
  <2>1. ASSUME NEW e \in Below(S, x) \cup {x}
        PROVE  e \in Below(S, y)
    <3>1. e \in S /\ (e < x \/ e = x) /\ e \in Nat /\ x \in Nat /\ y \in Nat
      BY DEF Below
    <3>2. e < y
      BY <3>1
    <3> QED
      BY <3>1, <3>2 DEF Below
  <2> QED
    BY <2>1
<1>3. x \notin Below(S, x)
  BY DEF Below
<1>4. Cardinality(Below(S, x) \cup {x}) = Turn(S, x) + 1
  BY <1>1, <1>3, FS_AddElement DEF Turn
<1>5. Cardinality(Below(S, x) \cup {x}) <= Turn(S, y)
  BY <1>1, <1>2, FS_Subset DEF Turn
<1>6. Turn(S, x) \in Nat /\ Turn(S, y) \in Nat
  BY <1>1, FS_CardinalityType DEF Turn
<1> QED
  BY <1>4, <1>5, <1>6

LEMMA TurnInjective ==
    ASSUME NEW S, S \subseteq Nat, IsFiniteSet(S), NEW x \in S, NEW y \in S, Turn(S, x) = Turn(S, y)
    PROVE  x = y
<1>1. CASE x < y
  <2>1. Turn(S, x) \in Nat /\ Turn(S, x) < Turn(S, y)
    BY <1>1, TurnGrows
  <2> QED
    BY <2>1
<1>2. CASE y < x
  <2>1. Turn(S, y) \in Nat /\ Turn(S, y) < Turn(S, x)
    BY <1>2, TurnGrows
  <2> QED
    BY <2>1
<1> QED
  BY <1>1, <1>2

\* Every turn before that of x is taken.
LEMMA TurnOnto ==
    ASSUME NEW S, S \subseteq Nat, IsFiniteSet(S), NEW x \in S, NEW m \in Nat, m < Turn(S, x)
    PROVE  \E y \in S : Turn(S, y) = m
<1> DEFINE T == Below(S, x)
           n == Turn(S, x)
           f == [e \in T |-> Turn(S, e)]
<1>1. T \subseteq S /\ IsFiniteSet(T) /\ n = Cardinality(T) /\ n \in Nat
  BY FS_Subset, FS_CardinalityType DEF Below, Turn
<1>2. ASSUME NEW e \in T
      PROVE  f[e] \in 0 .. (n - 1)
  <2>1. e \in S /\ e < x
    BY DEF Below
  <2>2. Turn(S, e) \in Nat /\ Turn(S, e) < n
    BY <2>1, TurnGrows
  <2> QED
    BY <1>1, <2>2
<1>3. \A d, e \in T : f[d] = f[e] => d = e
  BY <1>1, TurnInjective
<1>4. f \in Injection(T, 0 .. (n - 1))
  <2>1. f \in [T -> 0 .. (n - 1)]
    BY <1>2
  <2> HIDE DEF f, T, n
  <2>2. DOMAIN f = T
    BY <2>1
  <2>3. IsInjective(f)
    BY <1>3, <2>2 DEF IsInjective
  <2> QED
    BY <2>1, <2>3 DEF Injection
<1>5. IsFiniteSet(0 .. (n - 1)) /\ Cardinality(0 .. (n - 1)) = n
  <2> HIDE DEF n
  <2>1. n \in Nat /\ 0 \in Int /\ n - 1 \in Int
    BY <1>1
  <2>2. /\ IsFiniteSet(0 .. (n - 1))
        /\ Cardinality(0 .. (n - 1)) = IF 0 > n - 1 THEN 0 ELSE (n - 1) - 0 + 1
    BY <2>1, FS_Interval
  <2>3. (IF 0 > n - 1 THEN 0 ELSE (n - 1) - 0 + 1) = n
    BY <2>1
  <2> QED
    BY <2>2, <2>3
<1>6. f \in Surjection(T, 0 .. (n - 1))
  <2> HIDE DEF f, T, n
  <2> QED
    BY <1>1, <1>4, <1>5, FS_Injection
<1>7. \E e \in T : f[e] = m
  <2>1. m \in 0 .. (n - 1)
    BY <1>1
  <2> HIDE DEF f, T, n
  <2> QED
    BY <1>6, <2>1 DEF Surjection
<1> QED
  BY <1>1, <1>7

SameBefore(h, k) == {p \in Removed(h) : Key[h[p].before] = k}
SameAfter(h, k)  == {p \in Arrived(h) : Key[h[p].after] = k}

LEMMA KeyClasses ==
    ASSUME NEW h, IsHalves(h), NEW k
    PROVE  /\ SameBefore(h, k) \subseteq Nat /\ IsFiniteSet(SameBefore(h, k))
           /\ SameAfter(h, k) \subseteq Nat /\ IsFiniteSet(SameAfter(h, k))
<1>1. SameBefore(h, k) \in SUBSET Paths /\ SameAfter(h, k) \in SUBSET Paths
  BY DEF IsHalves, SameBefore, SameAfter, Removed, Arrived
<1>2. Paths \subseteq Nat /\ IsFiniteSet(Paths)
  BY WorktreeAssumption
<1> QED
  BY <1>1, <1>2, FS_Subset

LEMMA Turns ==
    ASSUME NEW h
    PROVE  /\ \A d : RemovedTurn(h, d) = Turn(SameBefore(h, Key[h[d].before]), d)
           /\ \A a : ArrivedTurn(h, a) = Turn(SameAfter(h, Key[h[a].after]), a)
<1>1. ASSUME NEW d
      PROVE  RemovedTurn(h, d) = Turn(SameBefore(h, Key[h[d].before]), d)
  <2>1. {e \in Removed(h) : e < d /\ Key[h[e].before] = Key[h[d].before]}
           = Below(SameBefore(h, Key[h[d].before]), d)
    BY DEF Below, SameBefore
  <2> QED
    BY <2>1 DEF RemovedTurn, Turn
<1>2. ASSUME NEW a
      PROVE  ArrivedTurn(h, a) = Turn(SameAfter(h, Key[h[a].after]), a)
  <2>1. {b \in Arrived(h) : b < a /\ Key[h[b].after] = Key[h[a].after]}
           = Below(SameAfter(h, Key[h[a].after]), a)
    BY DEF Below, SameAfter
  <2> QED
    BY <2>1 DEF ArrivedTurn, Turn
<1> QED
  BY <1>1, <1>2

\* A half is in one rename at most.
LEMMA OneRename ==
    ASSUME NEW h, IsHalves(h), NEW r \in Renames(h), NEW s \in Renames(h), r # s
    PROVE  {r[1], r[2]} \cap {s[1], s[2]} = {}
<1>1. /\ r[1] \in Removed(h) /\ r[2] \in Arrived(h) /\ Pairs(h, r[1], r[2]) /\ r = <<r[1], r[2]>>
      /\ s[1] \in Removed(h) /\ s[2] \in Arrived(h) /\ Pairs(h, s[1], s[2]) /\ s = <<s[1], s[2]>>
  BY DEF Renames
<1>2. \A p \in Removed(h), q \in Arrived(h) : p # q
  BY WorktreeAssumption DEF Removed, Arrived, Readable
<1>3. CASE r[1] = s[1]
  <2> DEFINE k == Key[h[r[1]].before]
             S == SameAfter(h, k)
  <2>1. r[2] \in S /\ s[2] \in S
    BY <1>1, <1>3 DEF Pairs, SameAfter
  <2>2. Turn(S, r[2]) = Turn(S, s[2])
    BY <1>1, <1>3, Turns DEF Pairs
  <2>3. S \subseteq Nat /\ IsFiniteSet(S)
    BY KeyClasses
  <2> HIDE DEF S
  <2>4. r[2] = s[2]
    BY <2>1, <2>2, <2>3, TurnInjective
  <2> QED
    BY <1>1, <1>3, <2>4
<1>4. CASE r[2] = s[2]
  <2> DEFINE k == Key[h[r[2]].after]
             S == SameBefore(h, k)
  <2>1. r[1] \in S /\ s[1] \in S
    BY <1>1, <1>4 DEF Pairs, SameBefore
  <2>2. Turn(S, r[1]) = Turn(S, s[1])
    BY <1>1, <1>4, Turns DEF Pairs
  <2>3. S \subseteq Nat /\ IsFiniteSet(S)
    BY KeyClasses
  <2> HIDE DEF S
  <2>4. r[1] = s[1]
    BY <2>1, <2>2, <2>3, TurnInjective
  <2> QED
    BY <1>1, <1>4, <2>4
<1> QED
  BY <1>1, <1>2, <1>3, <1>4

\* A deletion and an arrival of one key are not both left over: the one whose
\* turn is earlier has a partner.
LEMMA NoneLeft ==
    ASSUME NEW h, IsHalves(h), NEW d \in Removed(h), NEW a \in Arrived(h),
           Key[h[d].before] = Key[h[a].after]
    PROVE  d \in Paired(h) \/ a \in Paired(h)
<1> DEFINE k == Key[h[d].before]
           D == SameBefore(h, k)
           A == SameAfter(h, k)
<1>1. D \subseteq Nat /\ IsFiniteSet(D) /\ A \subseteq Nat /\ IsFiniteSet(A)
  BY KeyClasses
<1>2. d \in D /\ a \in A
  BY DEF SameBefore, SameAfter
<1>3. /\ \A x \in D : x \in Removed(h) /\ Key[h[x].before] = k /\ RemovedTurn(h, x) = Turn(D, x)
      /\ \A x \in A : x \in Arrived(h) /\ Key[h[x].after] = k /\ ArrivedTurn(h, x) = Turn(A, x)
  BY Turns DEF SameBefore, SameAfter
<1>4. ASSUME NEW x \in D, NEW y \in A, Turn(D, x) = Turn(A, y)
      PROVE  x \in Paired(h) /\ y \in Paired(h)
  <2>1. <<x, y>> \in Renames(h)
    BY <1>3, <1>4 DEF Renames, Pairs
  <2> QED
    BY <2>1 DEF Paired
<1> HIDE DEF D, A
<1>5. Turn(D, d) \in Nat /\ Turn(A, a) \in Nat
  BY <1>1, FS_Subset, FS_CardinalityType DEF Turn, Below
<1>6. CASE Turn(D, d) = Turn(A, a)
  BY <1>2, <1>4, <1>6
<1>7. CASE Turn(D, d) < Turn(A, a)
  <2>1. PICK y \in A : Turn(A, y) = Turn(D, d)
    BY <1>1, <1>2, <1>5, <1>7, TurnOnto
  <2> QED
    BY <1>2, <1>4, <2>1
<1>8. CASE Turn(A, a) < Turn(D, d)
  <2>1. PICK x \in D : Turn(D, x) = Turn(A, a)
    BY <1>1, <1>2, <1>5, <1>8, TurnOnto
  <2> QED
    BY <1>2, <1>4, <2>1
<1> QED
  BY <1>5, <1>6, <1>7, <1>8

\* RenamesMatch, of any set of changes.
Matching(found) ==
    /\ \A c, d \in found : c # d => {c.path, c.old} \cap {d.path, d.old} = {}
    /\ \A c \in found : c.path # c.old => Key[c.before] = Key[c.after]
    /\ \A c, d \in found :
         ~ /\ c.before \in Readable /\ c.after = None
           /\ d.after \in Readable /\ d.before = None
           /\ Key[c.before] = Key[d.after]

\* What is reported of the halves is a maximum matching of them.
LEMMA ReportedMatches == ASSUME NEW h, IsHalves(h) PROVE Matching(Reported(h))
<1> DEFINE joined == {[path |-> r[2], old |-> r[1], before |-> h[r[1]].before, after |-> h[r[2]].after]
                       : r \in Renames(h)}
           single == {[path |-> p, old |-> p, before |-> h[p].before, after |-> h[p].after]
                       : p \in DOMAIN h \ Paired(h)}
<1>1. \A r \in Renames(h) :
         /\ r[1] \in Removed(h) /\ r[2] \in Arrived(h)
         /\ r[1] \in Paired(h) /\ r[2] \in Paired(h)
         /\ Key[h[r[1]].before] = Key[h[r[2]].after]
  BY DEF Renames, Pairs, Paired
<1>2. \A c \in joined : \E r \in Renames(h) :
         /\ c.path = r[2] /\ c.old = r[1]
         /\ c.before = h[r[1]].before /\ c.after = h[r[2]].after
         /\ c = [path |-> r[2], old |-> r[1], before |-> h[r[1]].before, after |-> h[r[2]].after]
  OBVIOUS
<1>3. \A c \in single : \E p \in DOMAIN h \ Paired(h) :
         /\ c.path = p /\ c.old = p
         /\ c.before = h[p].before /\ c.after = h[p].after
         /\ c = [path |-> p, old |-> p, before |-> h[p].before, after |-> h[p].after]
  OBVIOUS
<1>4. Reported(h) = joined \cup single
  BY DEF Reported
<1> HIDE DEF joined, single
<1>5. ASSUME NEW c \in Reported(h), NEW d \in Reported(h), c # d
      PROVE  {c.path, c.old} \cap {d.path, d.old} = {}
  <2>1. CASE c \in joined /\ d \in joined
    <3>1. PICK r \in Renames(h) :
             /\ c.path = r[2] /\ c.old = r[1]
             /\ c = [path |-> r[2], old |-> r[1], before |-> h[r[1]].before, after |-> h[r[2]].after]
      BY <1>2, <2>1
    <3>2. PICK s \in Renames(h) :
             /\ d.path = s[2] /\ d.old = s[1]
             /\ d = [path |-> s[2], old |-> s[1], before |-> h[s[1]].before, after |-> h[s[2]].after]
      BY <1>2, <2>1
    <3>3. r # s
      BY <1>5, <3>1, <3>2
    <3>4. {r[1], r[2]} \cap {s[1], s[2]} = {}
      BY <3>3, OneRename
    <3> QED
      BY <3>1, <3>2, <3>4
  <2>2. CASE c \in joined /\ d \in single
    BY <1>1, <1>2, <1>3, <2>2
  <2>3. CASE c \in single /\ d \in joined
    BY <1>1, <1>2, <1>3, <2>3
  <2>4. CASE c \in single /\ d \in single
    BY <1>3, <1>5, <2>4
  <2> QED
    BY <1>4, <2>1, <2>2, <2>3, <2>4
<1>6. ASSUME NEW c \in Reported(h), c.path # c.old
      PROVE  Key[c.before] = Key[c.after]
  BY <1>1, <1>2, <1>3, <1>4, <1>6
<1>7. ASSUME NEW c \in Reported(h), NEW d \in Reported(h),
             c.before \in Readable, c.after = None, d.after \in Readable, d.before = None,
             Key[c.before] = Key[d.after]
      PROVE  FALSE
  <2>1. None \notin Readable
    BY WorktreeAssumption DEF Readable
  <2>2. c \notin joined /\ d \notin joined
    BY <1>1, <1>2, <1>7, <2>1 DEF Removed, Arrived
  <2>3. PICK p \in DOMAIN h \ Paired(h) : c.before = h[p].before /\ c.after = h[p].after
    BY <1>3, <1>4, <2>2
  <2>4. PICK q \in DOMAIN h \ Paired(h) : d.before = h[q].before /\ d.after = h[q].after
    BY <1>3, <1>4, <2>2
  <2>5. p \in Removed(h) /\ q \in Arrived(h) /\ Key[h[p].before] = Key[h[q].after]
    BY <1>7, <2>3, <2>4 DEF Removed, Arrived
  <2>6. p \in Paired(h) \/ q \in Paired(h)
    BY <2>5, NoneLeft
  <2> QED
    BY <2>3, <2>4, <2>6
<1> QED
  BY <1>5, <1>6, <1>7 DEF Matching

\* Renames are a maximum matching, in every report.
THEOREM RenamesMatched == Spec => []RenamesMatch
<1>1. Init => RenamesMatch
  BY DEF Init, RenamesMatch
<1>2. TypeOK /\ RenamesMatch /\ [Next]_vars => RenamesMatch'
  <2> SUFFICES ASSUME TypeOK, RenamesMatch, [Next]_vars
               PROVE  RenamesMatch'
    OBVIOUS
  <2>1. CASE Finish
    <3>1. changes' = Reported(Halves) /\ Pending = {}
      BY <2>1 DEF Finish
    <3>2. IsHalves(Halves)
      BY <3>1, HalvesTyped
    <3>3. Matching(changes')
      BY <3>1, <3>2, ReportedMatches
    <3> QED
      BY <3>1, <3>3 DEF RenamesMatch, Matching
  <2>2. CASE ~Finish
    <3>1. ASSUME Others
         PROVE  UNCHANGED changes
      BY <3>1 DEF Others, Moves, Edit, Stage, MoveHead, result
    <3>2. ASSUME Resolve
         PROVE  UNCHANGED changes
      BY <3>2 DEF Resolve, result
    <3>3. ASSUME CheckBefore
         PROVE  UNCHANGED changes
      BY <3>3 DEF CheckBefore, Fail, result
    <3>4. ASSUME StatusReadsIndex \/ StatusReadsHead \/ StatusEnds
         PROVE  UNCHANGED changes
      BY <3>4 DEF StatusReadsIndex, StatusReadsHead, StatusEnds, result
    <3>5. ASSUME AskIndex
         PROVE  UNCHANGED changes
      BY <3>5 DEF AskIndex, result
    <3>6. ASSUME ReadFile
         PROVE  UNCHANGED changes
      BY <3>6 DEF ReadFile, Fail, result
    <3>7. ASSUME GitFails
         PROVE  UNCHANGED changes
      BY <3>7 DEF GitFails, result
    <3>8. ASSUME UNCHANGED vars
         PROVE  UNCHANGED changes
      BY <3>8 DEF vars, result
    <3>9. ASSUME NEW p \in Paths, StatusLooks(p)
         PROVE  UNCHANGED changes
      BY <3>9 DEF StatusLooks, result
    <3>10. ASSUME NEW i \in items, TakeDeleted(i) \/ TakePresent(i)
          PROVE  UNCHANGED changes
      BY <3>10 DEF TakeDeleted, TakePresent, result
    <3>11. ASSUME CheckAfter
          PROVE  UNCHANGED changes
      BY <3>11, Listing DEF Lists, Fail, result
    <3>12. UNCHANGED changes
      BY <2>2, <3>1, <3>2, <3>3, <3>4, <3>5, <3>6, <3>7, <3>8, <3>9, <3>10, <3>11 DEF Next, Collects
    <3>13. Matching(changes) /\ changes' = changes
      BY <3>12 DEF RenamesMatch, Matching
    <3>14. Matching(changes')
      BY <3>13
    <3> QED
      BY <3>14 DEF RenamesMatch, Matching
  <2> QED
    BY <2>1, <2>2
<1> QED
  BY <1>1, <1>2, TypeCorrect, PTL DEF Spec

-----------------------------------------------------------------------------
(* A repository at rest.                                                     *)

Unreadable == \E p \in Paths : \/ tree[head][p] # None /\ index[p] = None /\ work[p] # None
                               \/ work[p] = Link /\ index[p] # Link

\* What a path that is to be read may be: a file, or a submodule of the index.
Takable(p) == work[p] \in Contents \/ (work[p] = Link /\ index[p] = Link)

\* As long as nothing moves, `git status` and the readings see the repository
\* as it is, so whatever is listed as present can be read.
RestInv ==
    quiet =>
        /\ head = held
        /\ mode = "worktree" => base = head
        /\ pc \in {"tree", "look", "after"} => gitIndex = index
        /\ pc \in {"look", "after"} => gitTree = tree[head]
        /\ \A p \in Paths : seen[p] \in {Unseen, work[p]}
        /\ pc = "after" => \A p \in Paths : seen[p] = work[p]
        /\ pc \in Reads => \A i \in items : i.deleted \/ (i.path \in Paths /\ Takable(i.path))
        /\ pc \in {"gitlink", "read"} => at \in Paths
        /\ pc = "gitlink" => index[at] = Link
        /\ pc = "read" => work[at] \in Contents
        /\ answer = "failed" => Unreadable

LEMMA RestInit == Init => RestInv
BY DEF Init, RestInv, Reads

\* What `git status` lists as present, and every committed path it does not
\* list, can be read.
LEMMA ListedTakable ==
    ASSUME TypeOK, RestInv, quiet, pc = "after",
           \A p \in Paths : ~Twice(p) /\ ~Nested(p),
           NEW listed \in SUBSET {p \in Paths : MayList(p)},
           {p \in Paths : Listed(p)} \subseteq listed,
           items' = {[path |-> p, deleted |-> HasD(p)] : p \in listed}
              \cup {[path |-> p, deleted |-> Text(tree[held][p]) = None] : p \in Committed \ listed},
           NEW i \in items'
    PROVE  i.deleted \/ (i.path \in Paths /\ Takable(i.path))
<1>1. /\ gitIndex = index /\ gitTree = tree[head] /\ held = head
      /\ \A p \in Paths : seen[p] = work[p]
  BY DEF RestInv
<1>2. \A p \in Paths : work[p] \in Things /\ index[p] \in Things /\ tree[head][p] \in Things
  BY DEF TypeOK, Trees
<1>3. CASE i \in {[path |-> p, deleted |-> HasD(p)] : p \in listed}
  <2>1. PICK p \in listed : i = [path |-> p, deleted |-> HasD(p)]
    BY <1>3
  <2> SUFFICES ASSUME ~HasD(p) PROVE Takable(p)
    BY <2>1
  <2>2. p \in Paths /\ MayList(p) /\ ~Nested(p)
    OBVIOUS
  <2>3. CASE work[p] = Link
    BY <1>1, <2>2, <2>3 DEF Nested, Takable
  <2>4. CASE work[p] = None
    BY <1>1, <2>2, <2>4, WorktreeAssumption DEF HasD, MayList, Listed
  <2> QED
    BY <1>2, <2>2, <2>3, <2>4 DEF Takable, Things
<1>4. CASE i \in {[path |-> p, deleted |-> Text(tree[held][p]) = None] : p \in Committed \ listed}
  <2>1. PICK p \in Committed \ listed : i = [path |-> p, deleted |-> Text(tree[held][p]) = None]
    BY <1>4
  <2> SUFFICES ASSUME Text(tree[held][p]) # None PROVE Takable(p)
    BY <2>1 DEF Committed
  <2>2. p \in Paths /\ ~Listed(p)
    BY DEF Committed
  <2>3. work[p] = tree[head][p]
    BY <1>1, <2>2 DEF Listed
  <2>4. tree[head][p] # None /\ tree[head][p] # Link
    BY <1>1 DEF Text
  <2> QED
    BY <1>2, <2>2, <2>3, <2>4 DEF Takable, Things
<1> QED
  BY <1>3, <1>4

LEMMA RestStep == ASSUME TypeOK, RestInv, [Next]_vars PROVE RestInv'
<1> SUFFICES ASSUME quiet' PROVE RestInv'
  BY DEF RestInv
<1>1. CASE UNCHANGED vars
  BY <1>1 DEF vars, world, call, status, result, RestInv, Unreadable, Takable
<1> SUFFICES ASSUME Collects, ~GitFails PROVE RestInv'
  BY <1>1 DEF Next, Others, Edit, Stage, MoveHead, Moves, GitFails
<1>2. quiet /\ UNCHANGED <<world, call>>
  BY DEF Collects, Resolve, CheckBefore, StatusReadsIndex, StatusReadsHead, StatusEnds, StatusLooks,
     CheckAfter, TakeDeleted, TakePresent, AskIndex, ReadFile, Finish, Fail
<1> USE DEF world, call, status, result
<1>3. RestInv => Unreadable' = Unreadable /\ \A p : Takable(p)' = Takable(p)
  BY <1>2 DEF Unreadable, Takable
<1>4. CASE Resolve
  BY <1>2, <1>3, <1>4 DEF Resolve, Goto, RestInv, Reads
<1>5. CASE CheckBefore
  BY <1>2, <1>3, <1>5 DEF CheckBefore, Goto, HeadIsHeld, RestInv, Reads
<1>6. CASE StatusReadsIndex \/ StatusReadsHead
  BY <1>2, <1>3, <1>6 DEF StatusReadsIndex, StatusReadsHead, Goto, RestInv, Reads
<1>7. CASE StatusEnds
  BY <1>2, <1>3, <1>7 DEF StatusEnds, Goto, RestInv, Reads
<1>8. ASSUME NEW p \in Paths, StatusLooks(p) PROVE RestInv'
  <2>1. \A q \in Paths : seen'[q] \in {Unseen, work[q]}
    BY <1>2, <1>8 DEF StatusLooks, RestInv, TypeOK
  <2> QED
    BY <1>2, <1>3, <1>8, <2>1 DEF StatusLooks, RestInv, Reads
<1>9. CASE CheckAfter
  <2>1. CASE Fail
    <3>1. \E p \in Paths : Twice(p) \/ Nested(p)
      BY <1>2, <1>9, <2>1 DEF CheckAfter, HeadIsHeld, RestInv, Fail
    <3>2. Unreadable
      BY <1>2, <1>9, <3>1 DEF CheckAfter, Twice, Nested, RestInv, Unreadable
    <3> QED
      BY <1>2, <1>3, <2>1, <3>2 DEF Fail, RestInv, Reads
  <2>2. CASE ~Fail
    <3>1. PICK listed \in SUBSET {p \in Paths : MayList(p)} :
             /\ {p \in Paths : Listed(p)} \subseteq listed
             /\ items' = {[path |-> p, deleted |-> HasD(p)] : p \in listed}
                   \cup {[path |-> p, deleted |-> Text(tree[held][p]) = None]
                          : p \in Committed \ listed}
      BY <1>9, <2>2 DEF CheckAfter
    <3>2. \A i \in items' : i.deleted \/ (i.path \in Paths /\ Takable(i.path))
      BY <1>2, <1>9, <2>2, <3>1, ListedTakable DEF CheckAfter
    <3>3. pc' = "items" /\ UNCHANGED <<held, status, seen, result>>
      BY <1>9, <2>2 DEF CheckAfter
    <3> QED
      BY <1>2, <1>3, <3>2, <3>3 DEF RestInv
  <2> QED
    BY <2>1, <2>2
<1>10. ASSUME NEW i \in items, TakeDeleted(i) PROVE RestInv'
  BY <1>2, <1>3, <1>10 DEF TakeDeleted, RestInv
<1>11. ASSUME NEW i \in items, TakePresent(i) PROVE RestInv'
  <2>1. i.path \in Paths /\ Takable(i.path)
    BY <1>2, <1>11 DEF TakePresent, RestInv, Reads
  <2>2. \A q \in Paths : seen'[q] \in {Unseen, work[q]}
    BY <1>2, <1>11, <2>1 DEF TakePresent, RestInv, TypeOK
  <2>3. /\ at' = i.path
        /\ pc' \in {"gitlink", "read"}
        /\ pc' = "gitlink" => index[i.path] = Link
        /\ pc' = "read" => work[i.path] \in Contents
    BY <1>11, <2>1, WorktreeAssumption DEF TakePresent, Takable, IsDirectory
  <2> QED
    BY <1>2, <1>3, <1>11, <2>1, <2>2, <2>3 DEF TakePresent, RestInv, Reads
<1>12. CASE AskIndex
  BY <1>2, <1>3, <1>12 DEF AskIndex, RestInv, Reads
<1>13. CASE ReadFile
  <2>1. work[at] \in Contents /\ at \in Paths
    BY <1>2, <1>13 DEF ReadFile, RestInv
  <2>2. work[at] \notin {None, Link}
    BY <2>1, WorktreeAssumption
  <2>3. \A q \in Paths : seen'[q] \in {Unseen, work[q]}
    BY <1>2, <1>13, <2>1, <2>2 DEF ReadFile, RestInv, TypeOK
  <2> QED
    BY <1>2, <1>3, <1>13, <2>2, <2>3 DEF ReadFile, RestInv, Reads
<1>14. CASE Finish
  BY <1>2, <1>3, <1>14 DEF Finish, Goto, RestInv, Reads
<1> QED
  BY <1>4, <1>5, <1>6, <1>7, <1>8, <1>9, <1>10, <1>11, <1>12, <1>13, <1>14 DEF Collects

\* Where nothing moves and Git answers, the call fails for no other reason than
\* a path removed from the index alone or a repository no gitlink names, for
\* any tree, index and working files.
THEOREM RestReported == Spec => []RestIsReported
<1>1. Init => TypeOK /\ RestInv
  BY InitTyped, RestInit
<1>2. TypeOK /\ RestInv /\ [Next]_vars => TypeOK' /\ RestInv'
  BY StepTyped, RestStep
<1>3. RestInv => RestIsReported
  BY DEF RestInv, RestIsReported, Unreadable
<1> QED
  BY <1>1, <1>2, <1>3, PTL DEF Spec

=============================================================================
