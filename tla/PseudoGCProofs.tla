--------------------------- MODULE PseudoGCProofs ---------------------------
(***************************************************************************)
(* Proofs about PseudoGC for any number of objects, root areas, frames and *)
(* writes.  StateInv is the inductive invariant; its parts say what holds  *)
(* in the middle of a pass (MarkInv, ReachInv, QuietInv), what the recorded *)
(* parents are (ParentInv), how old they are (FrameInv) and what holds in  *)
(* the middle of a search (SearchInv).                                     *)
(***************************************************************************)
EXTENDS PseudoGC, TLAPS

(* An object is read when it leaves the stack; what was read is marked;    *)
(* a search has visited nothing while a pass runs.                         *)
MarkInv ==
    /\ isRoot = rootSeen
    /\ \A a \in Addr : seen[a] \subseteq marked
    /\ \A a \in Addr : seen[a] # {} => a \in marked \ stack
    /\ phase = "roots" => stack = marked /\ marked = rootSeen
    /\ phase \in {"idle", "sweep"} => stack = {}
    /\ phase # "roots" => areasLeft = {}
    /\ phase # "idle" => visited = {} /\ search # "walk"
    /\ phase = "sweep" => ~onlyParents

(* Parents and references read are each other's converse.                  *)
ParentInv == \A a, b \in Addr : a \in parents[b] <=> b \in seen[a]

(* Nothing is marked that was not reached through references read.         *)
ReachInv == \A T \in SUBSET Addr : Closed(T, rootSeen, seen) => marked \subseteq T

(* While nothing is written, what was read is what memory holds.           *)
QuietInv ==
    phase # "idle" /\ quiet =>
        /\ \A a \in marked \ stack : seen[a] = words[a] \cap tracked
        /\ rootSeen = tracked \cap UNION {rootWords[r] : r \in roots \ areasLeft}

(* A pass begins in the frame of its call or later.                        *)
FrameInv ==
    /\ lastGcFrame > 0 => passAt >= lastGcFrame
    /\ gc \in {"pass", "set"} => passAt >= gcFrame
    /\ search \in {"pass", "set"} => passAt >= findFrame
    /\ search \in {"lock", "walk"} /\ findFrame > 0 => passAt >= findFrame

(* A visited object is described or about to be; the parents of described  *)
(* objects are visited; all that is described or about to be is requested  *)
(* or refers to something requested.                                       *)
SearchInv ==
    /\ visited \subseteq Responded \cup answered \cup interesting
    /\ search # "walk" => response = {} /\ interesting = {}
    /\ Responded \subseteq tracked
    /\ \A a \in Responded : parents[a] \subseteq visited
    /\ search = "walk" =>
          /\ request \cap tracked \subseteq Responded \cup interesting
          /\ \A T \in SUBSET Addr :
                Closed(T, request \cap tracked, parents)
                => (Responded \cup interesting) \cap tracked \subseteq T

StateInv == TypeOK /\ MarkInv /\ ParentInv /\ ReachInv /\ QuietInv /\ FrameInv /\ SearchInv

-----------------------------------------------------------------------------
(* The last pass found every object in objects it has marked.              *)
LEMMA ParentsMarked == StateInv => \A b \in Addr : parents[b] \subseteq marked
BY DEF StateInv, TypeOK, MarkInv, ParentInv

(* The objects that a response describes are addresses.                    *)
LEMMA RespondedType == TypeOK => Responded \subseteq Addr
BY DEF TypeOK, Responded, Entries

(* The flags stay on tracked objects, the counters in their bounds.         *)
LEMMA TypeStep == StateInv /\ [Next]_vars => TypeOK'
<1> SUFFICES ASSUME StateInv, [Next]_vars PROVE TypeOK'
  OBVIOUS
<1>a. TypeOK
  BY DEF StateInv
<1>b. MaxFrame \in Nat /\ MaxWrites \in Nat
  BY GcBoundsAssumption
<1> USE DEF TypeOK, memory, flags, passv, gcv, searchv, walkv, history
<1>1. CASE Write
  BY <1>a, <1>b, <1>1 DEF Write
<1>2. CASE OnFrame
  BY <1>a, <1>b, <1>2 DEF OnFrame
<1>3. ASSUME NEW r \in Areas, RegisterRoot(r) \/ UnregisterRoot(r)
       PROVE  TypeOK'
  BY <1>a, <1>b, <1>3 DEF RegisterRoot, UnregisterRoot, Unlocked, StateInv, MarkInv
<1>4. ASSUME NEW a \in Addr, Track(a)
       PROVE  TypeOK'
  BY <1>a, <1>b, <1>4 DEF Track, Unlocked
<1>5. CASE OnGc \/ GcReturn \/ FindGcReturn \/ FindLocked
  BY <1>a, <1>b, <1>5 DEF OnGc, GcReturn, FindGcReturn, FindLocked
<1>6. ASSUME NEW only \in BOOLEAN, BeginPass(only)
       PROVE  TypeOK'
  BY <1>a, <1>b, <1>6 DEF BeginPass, ClearedParents, NoRefs, Unlocked
<1>7. ASSUME NEW addresses \in SUBSET Addr, FindReferences(addresses)
       PROVE  TypeOK'
  BY <1>a, <1>b, <1>7 DEF FindReferences, NeedsPass
<1>8. ASSUME NEW r \in Areas, ReadArea(r)
       PROVE  TypeOK'
  BY <1>a, <1>b, <1>8 DEF ReadArea, Found, Unmarked
<1>9. CASE EndRoots
  BY <1>a, <1>b, <1>9 DEF EndRoots
<1>10. ASSUME NEW a \in Addr, ReadObject(a)
       PROVE  TypeOK'
  BY <1>a, <1>b, <1>10 DEF ReadObject, Found, Unmarked, AddParent, KeepRoot
<1>11. CASE EndMark
  BY <1>a, <1>b, <1>11 DEF EndMark
<1>12. CASE Sweep
  BY <1>a, <1>b, <1>12 DEF Sweep, Survivors, StateInv, MarkInv
<1>13. ASSUME NEW a \in Addr, Visiting(a)
       PROVE  TypeOK'
  <2>1. parents[a] \subseteq tracked
    BY <1>a, ParentsMarked
  <2>2. response' \subseteq Entries
    <3>1. [addr |-> a, parents |-> parents[a], root |-> a \in isRoot,
           deleted |-> a \notin marked] \in Entries
      BY <1>a DEF Entries
    <3> QED
      BY <1>a, <1>13, <3>1 DEF Visiting
  <2>3. visited' \subseteq tracked /\ interesting' \subseteq Addr
    BY <1>a, <1>13, <2>1 DEF Visiting, Visit, PushParents
  <2> QED
    BY <1>a, <1>13, <2>2, <2>3 DEF Visiting
<1>14. CASE FindDone
  BY <1>a, <1>b, <1>14, RespondedType DEF FindDone, Responded
<1>15. CASE UNCHANGED vars
  BY <1>a, <1>b, <1>15 DEF vars
<1> QED
  BY <1>1, <1>2, <1>3, <1>4, <1>5, <1>6, <1>7, <1>8, <1>9, <1>10, <1>11,
      <1>12, <1>13, <1>14, <1>15
  DEF Next, PassStep, WalkStep

(* What a pass has read is marked, and it is read once.                     *)
LEMMA MarkStep == StateInv /\ [Next]_vars => MarkInv'
<1> SUFFICES ASSUME StateInv, [Next]_vars PROVE MarkInv'
  OBVIOUS
<1>a. TypeOK /\ MarkInv
  BY DEF StateInv
<1> USE DEF TypeOK, MarkInv, memory, flags, passv, gcv, searchv, walkv,
      history
<1>1. CASE Write
  BY <1>a, <1>1 DEF Write
<1>2. CASE OnFrame
  BY <1>a, <1>2 DEF OnFrame
<1>3. ASSUME NEW r \in Areas, RegisterRoot(r) \/ UnregisterRoot(r)
       PROVE  MarkInv'
  BY <1>a, <1>3 DEF RegisterRoot, UnregisterRoot, Unlocked
<1>4. ASSUME NEW a \in Addr, Track(a)
       PROVE  MarkInv'
  BY <1>a, <1>4 DEF Track, Unlocked
<1>5. CASE OnGc \/ GcReturn \/ FindGcReturn \/ FindLocked
  BY <1>a, <1>5 DEF OnGc, GcReturn, FindGcReturn, FindLocked
<1>6. ASSUME NEW only \in BOOLEAN, BeginPass(only)
       PROVE  MarkInv'
  BY <1>a, <1>6 DEF BeginPass, ClearedParents, NoRefs, Unlocked
<1>7. ASSUME NEW addresses \in SUBSET Addr, FindReferences(addresses)
       PROVE  MarkInv'
  BY <1>a, <1>7 DEF FindReferences, NeedsPass
<1>8. ASSUME NEW r \in Areas, ReadArea(r)
       PROVE  MarkInv'
  BY <1>a, <1>8 DEF ReadArea, Found, Unmarked
<1>9. CASE EndRoots
  BY <1>a, <1>9 DEF EndRoots
<1>10. ASSUME NEW a \in Addr, ReadObject(a)
       PROVE  MarkInv'
  BY <1>a, <1>10 DEF ReadObject, Found, Unmarked, AddParent, KeepRoot
<1>11. CASE EndMark
  BY <1>a, <1>11 DEF EndMark
<1>12. CASE Sweep
  BY <1>a, <1>12 DEF Sweep, Survivors
<1>13. ASSUME NEW a \in Addr, Visiting(a)
       PROVE  MarkInv'
  BY <1>a, <1>13 DEF Visiting, Visit, PushParents
<1>14. CASE FindDone
  BY <1>a, <1>14 DEF FindDone
<1>15. CASE UNCHANGED vars
  BY <1>a, <1>15 DEF vars
<1> QED
  BY <1>1, <1>2, <1>3, <1>4, <1>5, <1>6, <1>7, <1>8, <1>9, <1>10, <1>11,
      <1>12, <1>13, <1>14, <1>15
  DEF Next, PassStep, WalkStep

(* Reading an object and recording its references go together.              *)
LEMMA ParentStep == StateInv /\ [Next]_vars => ParentInv'
<1> SUFFICES ASSUME StateInv, [Next]_vars PROVE ParentInv'
  OBVIOUS
<1>a. TypeOK /\ MarkInv /\ ParentInv
  BY DEF StateInv
<1> USE DEF ParentInv, memory, flags, passv, gcv, searchv, walkv, history
<1>1. CASE Write
  BY <1>a, <1>1 DEF Write
<1>2. CASE OnFrame
  BY <1>a, <1>2 DEF OnFrame
<1>3. ASSUME NEW r \in Areas, RegisterRoot(r) \/ UnregisterRoot(r)
       PROVE  ParentInv'
  BY <1>a, <1>3 DEF RegisterRoot, UnregisterRoot, Unlocked
<1>4. ASSUME NEW a \in Addr, Track(a)
       PROVE  ParentInv'
  BY <1>a, <1>4 DEF Track, Unlocked
<1>5. CASE OnGc \/ GcReturn \/ FindGcReturn \/ FindLocked
  BY <1>a, <1>5 DEF OnGc, GcReturn, FindGcReturn, FindLocked
<1>6. ASSUME NEW only \in BOOLEAN, BeginPass(only)
       PROVE  ParentInv'
  BY <1>a, <1>6 DEF BeginPass, ClearedParents, NoRefs, Unlocked
<1>7. ASSUME NEW addresses \in SUBSET Addr, FindReferences(addresses)
       PROVE  ParentInv'
  BY <1>a, <1>7 DEF FindReferences, NeedsPass
<1>8. ASSUME NEW r \in Areas, ReadArea(r)
       PROVE  ParentInv'
  BY <1>a, <1>8 DEF ReadArea, Found, Unmarked
<1>9. CASE EndRoots
  BY <1>a, <1>9 DEF EndRoots
<1>10. ASSUME NEW a \in Addr, ReadObject(a)
       PROVE  ParentInv'
  BY <1>a, <1>10 DEF ReadObject, AddParent, TypeOK, MarkInv
<1>11. CASE EndMark
  BY <1>a, <1>11 DEF EndMark
<1>12. CASE Sweep
  BY <1>a, <1>12 DEF Sweep, Survivors, TypeOK, MarkInv
<1>13. ASSUME NEW a \in Addr, Visiting(a)
       PROVE  ParentInv'
  BY <1>a, <1>13 DEF Visiting, Visit, PushParents
<1>14. CASE FindDone
  BY <1>a, <1>14 DEF FindDone
<1>15. CASE UNCHANGED vars
  BY <1>a, <1>15 DEF vars
<1> QED
  BY <1>1, <1>2, <1>3, <1>4, <1>5, <1>6, <1>7, <1>8, <1>9, <1>10, <1>11,
      <1>12, <1>13, <1>14, <1>15
  DEF Next, PassStep, WalkStep

(* The last pass is never older than a call that relies on it.              *)
LEMMA FrameStep == StateInv /\ [Next]_vars => FrameInv'
<1> SUFFICES ASSUME StateInv, [Next]_vars PROVE FrameInv'
  OBVIOUS
<1>a. TypeOK /\ FrameInv
  BY DEF StateInv
<1> USE DEF TypeOK, FrameInv, memory, flags, passv, gcv, searchv, walkv,
      history
<1>1. CASE Write
  BY <1>a, <1>1 DEF Write
<1>2. CASE OnFrame
  BY <1>a, <1>2 DEF OnFrame
<1>3. ASSUME NEW r \in Areas, RegisterRoot(r) \/ UnregisterRoot(r)
       PROVE  FrameInv'
  BY <1>a, <1>3 DEF RegisterRoot, UnregisterRoot, Unlocked
<1>4. ASSUME NEW a \in Addr, Track(a)
       PROVE  FrameInv'
  BY <1>a, <1>4 DEF Track, Unlocked
<1>5. CASE OnGc \/ GcReturn \/ FindGcReturn \/ FindLocked
  BY <1>a, <1>5 DEF OnGc, GcReturn, FindGcReturn, FindLocked
<1>6. ASSUME NEW only \in BOOLEAN, BeginPass(only)
       PROVE  FrameInv'
  BY <1>a, <1>6 DEF BeginPass, ClearedParents, NoRefs, Unlocked
<1>7. ASSUME NEW addresses \in SUBSET Addr, FindReferences(addresses)
       PROVE  FrameInv'
  BY <1>a, <1>7 DEF FindReferences, NeedsPass
<1>8. ASSUME NEW r \in Areas, ReadArea(r)
       PROVE  FrameInv'
  BY <1>a, <1>8 DEF ReadArea, Found, Unmarked
<1>9. CASE EndRoots
  BY <1>a, <1>9 DEF EndRoots
<1>10. ASSUME NEW a \in Addr, ReadObject(a)
       PROVE  FrameInv'
  BY <1>a, <1>10 DEF ReadObject, Found, Unmarked, AddParent, KeepRoot
<1>11. CASE EndMark
  BY <1>a, <1>11 DEF EndMark
<1>12. CASE Sweep
  BY <1>a, <1>12 DEF Sweep, StateInv, MarkInv
<1>13. ASSUME NEW a \in Addr, Visiting(a)
       PROVE  FrameInv'
  BY <1>a, <1>13 DEF Visiting, Visit, PushParents
<1>14. CASE FindDone
  BY <1>a, <1>14 DEF FindDone
<1>15. CASE UNCHANGED vars
  BY <1>a, <1>15 DEF vars
<1> QED
  BY <1>1, <1>2, <1>3, <1>4, <1>5, <1>6, <1>7, <1>8, <1>9, <1>10, <1>11,
      <1>12, <1>13, <1>14, <1>15
  DEF Next, PassStep, WalkStep

(* A mark is put on what a marked object or a root area refers to.         *)
LEMMA ReachStep == StateInv /\ [Next]_vars => ReachInv'
<1> SUFFICES ASSUME StateInv, [Next]_vars,
                    NEW T \in SUBSET Addr, Closed(T, rootSeen', seen')
             PROVE  marked' \subseteq T
  BY DEF ReachInv
<1>a. TypeOK /\ MarkInv /\ ReachInv
  BY DEF StateInv
<1>1. CASE UNCHANGED <<marked, rootSeen, seen>>
  BY <1>a, <1>1 DEF ReachInv
<1>2. ASSUME NEW only \in BOOLEAN, BeginPass(only)
      PROVE  marked' \subseteq T
  BY <1>2 DEF BeginPass
<1>3. ASSUME NEW r \in Areas, ReadArea(r)
      PROVE  marked' \subseteq T
  BY <1>a, <1>3 DEF ReadArea, Found, Closed, MarkInv
<1>4. ASSUME NEW a \in Addr, ReadObject(a)
      PROVE  marked' \subseteq T
  <2>1. /\ a \in stack /\ a \in marked /\ seen[a] = {}
        /\ rootSeen' = rootSeen
        /\ seen' = [seen EXCEPT ![a] = Found(words[a])]
        /\ marked' = marked \cup Found(words[a])
    BY <1>a, <1>4 DEF ReadObject, TypeOK, MarkInv
  <2>2. Closed(T, rootSeen, seen)
    BY <1>a, <2>1 DEF Closed, TypeOK
  <2>3. a \in T
    BY <1>a, <2>1, <2>2 DEF ReachInv
  <2>4. Found(words[a]) \subseteq T
    BY <1>a, <2>1, <2>3 DEF Closed, TypeOK
  <2> QED
    BY <1>a, <2>1, <2>2, <2>4 DEF ReachInv
<1> QED
  <2>1. \/ UNCHANGED <<marked, rootSeen, seen>>
        \/ \E only \in BOOLEAN : BeginPass(only)
        \/ \E r \in Areas : ReadArea(r)
        \/ \E a \in Addr : ReadObject(a)
    BY DEF Next, PassStep, WalkStep, vars, flags, history, Write, OnFrame,
           OnGc, GcReturn, FindGcReturn, FindLocked, RegisterRoot,
           UnregisterRoot, Track, FindReferences, EndRoots, EndMark, Sweep,
           Visiting, FindDone
  <2> QED
    BY <2>1, <1>1, <1>2, <1>3, <1>4

(* An undisturbed pass reads what memory holds.                            *)
LEMMA QuietStep == StateInv /\ [Next]_vars => QuietInv'
<1> SUFFICES ASSUME StateInv, [Next]_vars PROVE QuietInv'
  OBVIOUS
<1>a. TypeOK /\ MarkInv /\ QuietInv
  BY DEF StateInv
<1> USE DEF QuietInv, TypeOK, MarkInv, memory, flags, passv, gcv, searchv,
      walkv, history
<1>1. CASE Write
  BY <1>a, <1>1 DEF Write
<1>2. CASE OnFrame
  BY <1>a, <1>2 DEF OnFrame
<1>3. ASSUME NEW r \in Areas, RegisterRoot(r) \/ UnregisterRoot(r)
       PROVE  QuietInv'
  BY <1>a, <1>3 DEF RegisterRoot, UnregisterRoot, Unlocked
<1>4. ASSUME NEW a \in Addr, Track(a)
       PROVE  QuietInv'
  BY <1>a, <1>4 DEF Track, Unlocked
<1>5. CASE OnGc \/ GcReturn \/ FindGcReturn \/ FindLocked
  <2>1. UNCHANGED <<words, rootWords, roots, tracked, marked, stack, seen,
                     rootSeen, areasLeft, phase, quiet>>
    BY <1>5 DEF OnGc, GcReturn, FindGcReturn, FindLocked
  <2> QED
    BY <1>a, <2>1
<1>6. ASSUME NEW only \in BOOLEAN, BeginPass(only)
       PROVE  QuietInv'
  BY <1>a, <1>6 DEF BeginPass, ClearedParents, NoRefs, Unlocked
<1>7. ASSUME NEW addresses \in SUBSET Addr, FindReferences(addresses)
       PROVE  QuietInv'
  BY <1>a, <1>7 DEF FindReferences, NeedsPass
<1>8. ASSUME NEW r \in Areas, ReadArea(r)
       PROVE  QuietInv'
  <2>1. CASE ~quiet
    BY <1>8, <2>1 DEF ReadArea
  <2>2. CASE quiet
    <3>1. /\ phase = "roots" /\ r \in areasLeft /\ areasLeft' = areasLeft \ {r}
          /\ rootSeen' = rootSeen \cup (rootWords[r] \cap tracked)
          /\ UNCHANGED <<rootWords, roots, tracked>>
      BY <1>8 DEF ReadArea, Found
    <3>2. stack' = marked'
      BY <1>a, <1>8 DEF ReadArea, Found, Unmarked
    <3>3. roots \ areasLeft' = (roots \ areasLeft) \cup {r}
      BY <1>a, <3>1
    <3>4. rootSeen' = tracked \cap UNION {rootWords[q] : q \in roots \ areasLeft'}
      BY <1>a, <2>2, <3>1, <3>3
    <3> QED
      BY <3>1, <3>2, <3>4
  <2> QED
    BY <2>1, <2>2
<1>9. CASE EndRoots
  BY <1>a, <1>9 DEF EndRoots
<1>10. ASSUME NEW a \in Addr, ReadObject(a)
       PROVE  QuietInv'
  BY <1>a, <1>10 DEF ReadObject, Found, Unmarked, AddParent, KeepRoot
<1>11. CASE EndMark
  <2>1. /\ UNCHANGED <<words, rootWords, roots, tracked, marked, stack, seen,
                        rootSeen, areasLeft>>
        /\ phase' # "idle" /\ quiet' => phase # "idle" /\ quiet
    BY <1>11 DEF EndMark
  <2> QED
    BY <1>a, <2>1
<1>12. CASE Sweep
  BY <1>a, <1>12 DEF Sweep, Survivors
<1>13. ASSUME NEW a \in Addr, Visiting(a)
       PROVE  QuietInv'
  BY <1>a, <1>13 DEF Visiting, Visit, PushParents
<1>14. CASE FindDone
  BY <1>a, <1>14 DEF FindDone
<1>15. CASE UNCHANGED vars
  BY <1>a, <1>15 DEF vars
<1> QED
  BY <1>1, <1>2, <1>3, <1>4, <1>5, <1>6, <1>7, <1>8, <1>9, <1>10, <1>11,
      <1>12, <1>13, <1>14, <1>15
  DEF Next, PassStep, WalkStep

(* A search follows the parents, describes each object and forgets none.   *)
LEMMA SearchStep == StateInv /\ [Next]_vars => SearchInv'
<1> SUFFICES ASSUME StateInv, [Next]_vars PROVE SearchInv'
  OBVIOUS
<1>a. TypeOK /\ MarkInv /\ SearchInv
  BY DEF StateInv
<1> USE DEF SearchInv, TypeOK, MarkInv, Responded, Closed, memory, flags,
      passv, gcv, searchv, walkv, history
<1>1. CASE Write
  BY <1>a, <1>1 DEF Write
<1>2. CASE OnFrame
  BY <1>a, <1>2 DEF OnFrame
<1>3. ASSUME NEW r \in Areas, RegisterRoot(r) \/ UnregisterRoot(r)
       PROVE  SearchInv'
  BY <1>a, <1>3 DEF RegisterRoot, UnregisterRoot, Unlocked
<1>4. ASSUME NEW a \in Addr, Track(a)
       PROVE  SearchInv'
  BY <1>a, <1>4 DEF Track, Unlocked
<1>5. CASE OnGc \/ GcReturn \/ FindGcReturn \/ FindLocked
  BY <1>a, <1>5 DEF OnGc, GcReturn, FindGcReturn, FindLocked
<1>6. ASSUME NEW only \in BOOLEAN, BeginPass(only)
       PROVE  SearchInv'
  BY <1>a, <1>6 DEF BeginPass, ClearedParents, NoRefs, Unlocked
<1>7. ASSUME NEW addresses \in SUBSET Addr, FindReferences(addresses)
       PROVE  SearchInv'
  BY <1>a, <1>7 DEF FindReferences, NeedsPass
<1>8. ASSUME NEW r \in Areas, ReadArea(r)
       PROVE  SearchInv'
  BY <1>a, <1>8 DEF ReadArea, Found, Unmarked
<1>9. CASE EndRoots
  BY <1>a, <1>9 DEF EndRoots
<1>10. ASSUME NEW a \in Addr, ReadObject(a)
       PROVE  SearchInv'
  BY <1>a, <1>10 DEF ReadObject, Found, Unmarked, AddParent, KeepRoot
<1>11. CASE EndMark
  BY <1>a, <1>11 DEF EndMark
<1>12. CASE Sweep
  BY <1>a, <1>12 DEF Sweep, Survivors
<1>13. ASSUME NEW a \in Addr, Visiting(a)
       PROVE  SearchInv'
  <2>a. /\ search = "walk" /\ search' = "walk" /\ a \in interesting
        /\ UNCHANGED <<tracked, parents, request, answered>>
    BY <1>13 DEF Visiting
  <2>1. CASE a \notin tracked
    <3>1. /\ interesting' = interesting \ {a}
          /\ UNCHANGED <<response, visited>>
      BY <1>13, <2>1 DEF Visiting
    <3> QED
      BY <1>a, <2>a, <2>1, <3>1
  <2>2. CASE a \in tracked
    <3>1. PICK e : e.addr = a /\ response' = response \cup {e}
      BY <1>13, <2>2 DEF Visiting
    <3>2. /\ visited' = visited \cup parents[a]
          /\ interesting' = (interesting \ {a}) \cup (parents[a] \ visited)
      BY <1>13, <2>2 DEF Visiting, Visit, PushParents
    <3>3. Responded' = Responded \cup {a}
      BY <3>1
    <3>4. parents[a] \subseteq tracked
      BY <1>a, ParentsMarked
    <3> HIDE DEF Responded
    <3>5. visited' \subseteq Responded' \cup answered' \cup interesting'
      BY <1>a, <2>a, <3>2, <3>3
    <3>6. Responded' \subseteq tracked'
      BY <1>a, <2>a, <2>2, <3>3
    <3>7. \A b \in Responded' : parents'[b] \subseteq visited'
      BY <1>a, <2>a, <3>2, <3>3
    <3>8. (request \cap tracked)' \subseteq Responded' \cup interesting'
      BY <1>a, <2>a, <3>2, <3>3
    <3>9. ASSUME NEW T \in SUBSET Addr,
                 Closed(T, (request \cap tracked)', parents')
          PROVE  ((Responded \cup interesting) \cap tracked)' \subseteq T
      <4>1. (Responded \cup interesting) \cap tracked \subseteq T
        BY <1>a, <2>a, <3>9
      <4>2. a \in T /\ parents[a] \subseteq T
        BY <2>a, <2>2, <3>9, <4>1
      <4> QED
        BY <2>a, <3>2, <3>3, <4>1, <4>2
    <3> QED
      BY <2>a, <3>5, <3>6, <3>7, <3>8, <3>9
  <2> QED
    BY <2>1, <2>2
<1>14. CASE FindDone
  BY <1>a, <1>14 DEF FindDone
<1>15. CASE UNCHANGED vars
  BY <1>a, <1>15 DEF vars
<1> QED
  BY <1>1, <1>2, <1>3, <1>4, <1>5, <1>6, <1>7, <1>8, <1>9, <1>10, <1>11,
      <1>12, <1>13, <1>14, <1>15
  DEF Next, PassStep, WalkStep

-----------------------------------------------------------------------------
(* The invariant holds in every reachable state, for any number of objects *)
(* and root areas: what is marked is what was reached, parents mirror the  *)
(* references read, and a search accounts for everything it visits.        *)
THEOREM StateInvariant == Spec => []StateInv
<1>1. Init => StateInv
  <2> SUFFICES ASSUME Init PROVE StateInv
    OBVIOUS
  <2> USE DEF Init, NoRefs
  <2>1. TypeOK
    <3>1. /\ writes \in 0..MaxWrites /\ frame \in 0..MaxFrame /\ passAt \in -1..frame
          /\ gcFrame \in 0..frame /\ findFrame \in 0..frame /\ lastGcFrame \in 0..frame
      BY GcBoundsAssumption
    <3>2. parents \in [Addr -> SUBSET Addr] /\ seen \in [Addr -> SUBSET Addr]
      OBVIOUS
    <3> QED
      BY <3>1, <3>2 DEF TypeOK
  <2>2. MarkInv /\ ParentInv /\ ReachInv /\ QuietInv /\ FrameInv
    BY DEF MarkInv, ParentInv, ReachInv, QuietInv, FrameInv
  <2>3. SearchInv
    BY DEF SearchInv, Responded
  <2> QED
    BY <2>1, <2>2, <2>3 DEF StateInv
<1>2. StateInv /\ [Next]_vars => StateInv'
  BY TypeStep, MarkStep, ParentStep, ReachStep, QuietStep, FrameStep, SearchStep
  DEF StateInv
<1> QED
  BY <1>1, <1>2, PTL DEF Spec

(* Type correctness: flags only stand on objects in m_allocations, and a   *)
(* pass runs exactly for the thread that started it.                       *)
THEOREM TypeCorrect == Spec => []TypeOK
<1>1. StateInv => TypeOK
  BY DEF StateInv
<1> QED
  BY <1>1, StateInvariant, PTL

(* The parents of a tracked object are exactly the tracked objects in      *)
(* which the last pass found it, and never a forgotten one.                *)
THEOREM ParentsAreExact == Spec => []ParentsExact
<1>1. StateInv => ParentsExact
  BY DEF StateInv, TypeOK, MarkInv, ParentInv, ParentsExact
<1> QED
  BY <1>1, StateInvariant, PTL

(* IS_ROOT stands exactly on the objects the last pass found in root areas. *)
THEOREM RootsAreLabelled == Spec => []RootLabels
<1>1. StateInv => RootLabels
  BY DEF StateInv, MarkInv, RootLabels
<1> QED
  BY <1>1, StateInvariant, PTL

(* A finished search has described all that is requested and only what     *)
(* leads to it, whatever the object graph looks like.                      *)
THEOREM SearchIsComplete == Spec => []SearchComplete
<1>1. StateInv => SearchComplete
  <2> SUFFICES ASSUME StateInv, search = "walk", interesting = {}
               PROVE  /\ request \cap tracked \subseteq Responded
                      /\ \A a \in Responded : parents[a] \subseteq Responded \cup answered
                      /\ \A T \in SUBSET Addr :
                            Closed(T, request \cap tracked, parents) => Responded \subseteq T
    BY DEF SearchComplete
  <2>1. SearchInv
    BY DEF StateInv
  <2> QED
    BY <2>1 DEF SearchInv
<1> QED
  BY <1>1, StateInvariant, PTL

(* From frame 1 on a search walks the references of its own frame.         *)
THEOREM ReferencesAreCurrent == Spec => []ReferencesCurrent
<1>1. StateInv => ReferencesCurrent
  BY DEF StateInv, FrameInv, TypeOK, ReferencesCurrent
<1> QED
  BY <1>1, StateInvariant, PTL

(* The step that ends a pass by sweeping leaves what is marked.            *)
LEMMA SweepLeavesMarked ==
  StateInv /\ [Next]_vars /\ phase = "sweep" /\ phase' = "idle" => tracked' = marked
BY DEF Next, PassStep, WalkStep, vars, passv, Write, OnFrame, OnGc, GcReturn,
       FindGcReturn, FindLocked, RegisterRoot, UnregisterRoot, Track, BeginPass,
       FindReferences, ReadArea, EndRoots, ReadObject, EndMark, Sweep, Survivors,
       Visiting, FindDone, StateInv, TypeOK, MarkInv, Unlocked

(* Mark and sweep is exact for the references that the pass has read, even *)
(* if they never were in memory all at once.                               *)
THEOREM SweepIsExact == Spec => SweepKeepsReachable
<1>1. StateInv /\ [Next]_vars
      => [phase = "sweep" /\ phase' = "idle" => IsReach(tracked', rootSeen, seen)]_vars
  <2> SUFFICES ASSUME StateInv, [Next]_vars, phase = "sweep", phase' = "idle"
               PROVE  IsReach(tracked', rootSeen, seen)
    OBVIOUS
  <2>1. tracked' = marked
    BY SweepLeavesMarked
  <2>2. Closed(marked, rootSeen, seen)
    BY DEF StateInv, TypeOK, MarkInv, Closed
  <2> QED
    BY <2>1, <2>2 DEF StateInv, ReachInv, IsReach
<1> QED
  BY <1>1, StateInvariant, PTL DEF Spec, SweepKeepsReachable

(* A pass during which memory did not change forgets exactly the objects   *)
(* that the registered roots do not reach.                                 *)
THEOREM QuietSweepIsExact == Spec => QuietSweepExact
<1>1. StateInv /\ [Next]_vars
      => [phase = "sweep" /\ phase' = "idle" /\ quiet
          => IsReach(tracked', LiveRoots, LiveRefs)]_vars
  <2> SUFFICES ASSUME StateInv, [Next]_vars, phase = "sweep", phase' = "idle", quiet
               PROVE  IsReach(tracked', LiveRoots, LiveRefs)
    OBVIOUS
  <2>a. TypeOK /\ MarkInv /\ ReachInv /\ QuietInv
    BY DEF StateInv
  <2>1. tracked' = marked
    BY SweepLeavesMarked
  <2>2. rootSeen = LiveRoots
    <3>1. roots \ areasLeft = roots
      BY <2>a DEF MarkInv
    <3> QED
      BY <2>a, <3>1 DEF QuietInv, LiveRoots
  <2>3. \A a \in marked : seen[a] = LiveRefs[a]
    BY <2>a DEF QuietInv, LiveRefs, TypeOK, MarkInv
  <2>4. Closed(marked, LiveRoots, LiveRefs)
    BY <2>a, <2>2, <2>3 DEF TypeOK, MarkInv, Closed
  <2>5. ASSUME NEW T \in SUBSET Addr, Closed(T, LiveRoots, LiveRefs)
        PROVE  marked \subseteq T
    <3>1. \A a \in T : seen[a] \subseteq T
      BY <2>a, <2>3, <2>5 DEF Closed, MarkInv
    <3> QED
      BY <2>a, <2>2, <2>5, <3>1 DEF Closed, ReachInv
  <2> QED
    BY <2>1, <2>4, <2>5 DEF IsReach
<1> QED
  BY <1>1, StateInvariant, PTL DEF Spec, QuietSweepExact
=============================================================================
