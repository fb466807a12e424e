------------------------------ MODULE PseudoGC ------------------------------
(***************************************************************************)
(* The profiler's own garbage collection (worker_thread::do_gc_internal):  *)
(* mark what the registered roots reach through the tracked objects,       *)
(* remember who refers to whom, forget the rest.  And the reference search *)
(* that walks the remembered referrers (find_references_internal).         *)
(*                                                                         *)
(* Passes and searches run under m_gc_mutex and m_roots_mutex, so do_work  *)
(* and the root callbacks wait for them.  The application takes neither:   *)
(* it may write the memory a pass reads between any two of its steps.      *)
(* WorkerThread models the queue, the pause and the locks themselves, and  *)
(* there the outcome of marking is a free choice; here it is computed.     *)
(***************************************************************************)
EXTENDS Integers, FiniteSets

CONSTANTS
    Addr,       \* addresses of managed objects
    Areas,      \* root areas the runtime may register
    MaxFrame,   \* bound on m_frame_index
    MaxWrites   \* bound on the number of writes to memory

ASSUME GcBoundsAssumption == MaxFrame \in Nat /\ MaxWrites \in Nat

VARIABLES
    words,      \* memory: the addresses found in each object's bytes
    rootWords,  \* memory: the addresses found in each root area
    writes,     \* how many writes the application has made
    frame,      \* m_frame_index
    roots,      \* m_roots
    tracked,    \* the keys of m_allocations
    marked,     \* objects with TMP_ALLOCATED
    isRoot,     \* objects with IS_ROOT
    visited,    \* objects with TMP_VISITED
    parents,    \* alloc_info::parents, without repetitions
    phase,      \* where the running pass is, "idle" if none runs
    onlyParents,\* only_update_parents of the running pass
    areasLeft,  \* root areas the pass has not read yet
    stack,      \* m_stack
    gc,         \* where the thread in on_gc is
    gcFrame,    \* the frame on_gc has read
    lastGcFrame,\* m_last_gc_frame
    search,     \* where the thread in find_references is
    findFrame,  \* the frame find_references was called with
    request,    \* the addresses it was called with
    interesting,\* interesting_addresses
    response,   \* filtered_results
    rootSeen,   \* history: tracked objects the pass found in root areas
    seen,       \* history: tracked objects the pass found in each object
    quiet,      \* history: no write since the running pass began
    passAt,     \* history: m_frame_index when the last pass began, or -1
    answered    \* history: objects in responses since the flags were reset

memory  == <<words, rootWords, writes>>
flags   == <<marked, isRoot, visited, parents>>
passv   == <<phase, onlyParents, areasLeft, stack>>
gcv     == <<gc, gcFrame>>
searchv == <<search, findFrame, request>>
walkv   == <<interesting, response>>
history == <<rootSeen, seen, quiet, passAt, answered>>
vars == <<memory, frame, roots, tracked, flags, passv, gcv, lastGcFrame, searchv,
          walkv, history>>

NoRefs == [a \in Addr |-> {}]

(* m_gc_mutex and m_roots_mutex are free.                                  *)
Unlocked == phase = "idle" /\ search # "walk"

(* Memory may hold anything when the profiler attaches.                    *)
Init ==
    /\ words \in [Addr -> SUBSET Addr] /\ rootWords \in [Areas -> SUBSET Addr]
    /\ writes = 0 /\ frame = 0
    /\ roots = {} /\ tracked = {}
    /\ marked = {} /\ isRoot = {} /\ visited = {} /\ parents = NoRefs
    /\ phase = "idle" /\ onlyParents = FALSE /\ areasLeft = {} /\ stack = {}
    /\ gc = "none" /\ gcFrame = 0 /\ lastGcFrame = 0
    /\ search = "none" /\ findFrame = 0 /\ request = {}
    /\ interesting = {} /\ response = {}
    /\ rootSeen = {} /\ seen = NoRefs /\ quiet = TRUE /\ passAt = -1
    /\ answered = {}

-----------------------------------------------------------------------------
(* The application and the runtime.                                        *)

(* A store into a managed object or a root area, under no lock.            *)
Write ==
    /\ writes < MaxWrites
    /\ writes' = writes + 1
    /\ \E refs \in SUBSET Addr :
          \/ /\ \E a \in Addr : words' = [words EXCEPT ![a] = refs]
             /\ UNCHANGED rootWords
          \/ /\ \E r \in Areas : rootWords' = [rootWords EXCEPT ![r] = refs]
             /\ UNCHANGED words
    /\ quiet' = (phase = "idle")
    /\ UNCHANGED <<frame, roots, tracked, flags, passv, gcv, lastGcFrame, searchv,
                   walkv, rootSeen, seen, passAt, answered>>

OnFrame ==
    /\ frame < MaxFrame
    /\ frame' = frame + 1
    /\ UNCHANGED <<memory, roots, tracked, flags, passv, gcv, lastGcFrame, searchv,
                   walkv, history>>

RegisterRoot(r) ==
    /\ Unlocked
    /\ roots' = roots \cup {r}
    /\ UNCHANGED <<memory, frame, tracked, flags, passv, gcv, lastGcFrame, searchv,
                   walkv, history>>

(* Removes every entry that starts at the same address.                    *)
UnregisterRoot(r) ==
    /\ Unlocked
    /\ roots' = roots \ {r}
    /\ UNCHANGED <<memory, frame, tracked, flags, passv, gcv, lastGcFrame, searchv,
                   walkv, history>>

(* do_work inserts an object with no flags and no parents; an address that *)
(* is tracked already keeps what it has.                                   *)
Track(a) ==
    /\ Unlocked
    /\ a \notin tracked
    /\ tracked' = tracked \cup {a}
    /\ UNCHANGED <<memory, frame, roots, flags, passv, gcv, lastGcFrame, searchv,
                   walkv, history>>

-----------------------------------------------------------------------------
(* Seeded faults: variants of definitions below, each with a plausible     *)
(* slip in the code it stands for.  No action uses them; putting one in    *)
(* the place of its original must break the property it is kept for.       *)

(* The marks are reset at the start of a pass but the parents are not.     *)
ClearedParents_Kept == parents

(* What is found is marked but not pushed.                                 *)
Unmarked_NeverPushed(refs) == {}

(* TMP_ALLOCATED is not tested before an object is pushed.                 *)
Unmarked_PushedAgain(refs) == refs

(* The sweep tests the parents in place of the mark.                       *)
Survivors_WithParents == {a \in tracked : parents[a] # {}}

(* The parents of an object are pushed without marking them visited.       *)
Visit_NoMark(new) == visited

(* Only the first unvisited parent is pushed.                              *)
PushParents_OnlyOne(new) == IF new = {} THEN {} ELSE {CHOOSE b \in new : TRUE}

(* A pass of the previous frame is taken to be recent enough.              *)
NeedsPass_OffByOne == frame > lastGcFrame + 1

-----------------------------------------------------------------------------
(* Building blocks of passes and searches.                                 *)

(* reading a range of memory yields the addresses that are tracked         *)
Found(refs) == refs \cap tracked

(* alloc.parents.clear() on every object                                   *)
ClearedParents == NoRefs

(* what is found for the first time is marked and pushed                   *)
Unmarked(refs) == refs \ marked

(* a is added to the parents of every object found in it                   *)
AddParent(a, refs) ==
    [b \in Addr |-> IF b \in refs THEN parents[b] \cup {a} ELSE parents[b]]

(* IS_ROOT is reset on objects that are first found in another object      *)
KeepRoot(refs) == isRoot \ (refs \ marked)

(* what a sweep leaves in m_allocations                                    *)
Survivors == marked

(* TMP_VISITED is set on each parent that is pushed                        *)
Visit(new) == visited \cup new

(* each parent not visited yet is pushed                                   *)
PushParents(new) == new

(* references are recent if a pass ran in the current frame                *)
NeedsPass == frame > lastGcFrame

-----------------------------------------------------------------------------
(* do_gc_sync and do_gc_internal, called by on_gc and by find_references.  *)

(* A collection of the runtime has ended.                                  *)
OnGc ==
    /\ gc = "none"
    /\ gc' = "wait" /\ gcFrame' = frame
    /\ UNCHANGED <<memory, frame, roots, tracked, flags, passv, lastGcFrame, searchv,
                   walkv, history>>

(* Take the locks and clear all objects' marks.                            *)
BeginPass(only) ==
    /\ Unlocked
    /\ IF only THEN /\ search = "wait" /\ search' = "pass" /\ UNCHANGED gc
               ELSE /\ gc = "wait" /\ gc' = "pass" /\ UNCHANGED search
    /\ phase' = "roots" /\ onlyParents' = only
    /\ marked' = {} /\ isRoot' = {} /\ visited' = {} /\ parents' = ClearedParents
    /\ stack' = {} /\ areasLeft' = roots
    /\ rootSeen' = {} /\ seen' = NoRefs /\ quiet' = TRUE /\ passAt' = frame
    /\ answered' = {}
    /\ UNCHANGED <<memory, frame, roots, tracked, gcFrame, lastGcFrame, findFrame,
                   request, walkv>>

(* 1. Push roots onto stack: one root area.                                *)
ReadArea(r) ==
    /\ phase = "roots"
    /\ r \in areasLeft
    /\ LET refs == Found(rootWords[r])
       IN  /\ isRoot' = isRoot \cup Unmarked(refs)
           /\ marked' = marked \cup refs
           /\ stack' = stack \cup Unmarked(refs)
           /\ rootSeen' = rootSeen \cup refs
    /\ areasLeft' = areasLeft \ {r}
    /\ UNCHANGED <<memory, frame, roots, tracked, visited, parents, phase, onlyParents,
                   gcv, lastGcFrame, searchv, walkv, seen, quiet, passAt, answered>>

EndRoots ==
    /\ phase = "roots"
    /\ areasLeft = {}
    /\ phase' = "mark"
    /\ UNCHANGED <<memory, frame, roots, tracked, flags, stack, areasLeft, onlyParents,
                   gcv, lastGcFrame, searchv, walkv, history>>

(* 2. Process stack: one entry.  The order of the entries is left open.    *)
ReadObject(a) ==
    /\ phase = "mark"
    /\ a \in stack
    /\ LET refs == Found(words[a])
       IN  /\ parents' = AddParent(a, refs)
           /\ isRoot' = KeepRoot(refs)
           /\ marked' = marked \cup refs
           /\ stack' = (stack \ {a}) \cup Unmarked(refs)
           /\ seen' = [seen EXCEPT ![a] = refs]
    /\ UNCHANGED <<memory, frame, roots, tracked, visited, phase, areasLeft,
                   onlyParents, gcv, lastGcFrame, searchv, walkv, rootSeen, quiet,
                   passAt, answered>>

(* A pass that only updates the parents is over; another one goes on.      *)
EndMark ==
    /\ phase = "mark"
    /\ stack = {}
    /\ IF onlyParents
       THEN phase' = "idle" /\ search' = "set" /\ onlyParents' = FALSE /\ quiet' = TRUE
       ELSE phase' = "sweep" /\ UNCHANGED <<search, onlyParents, quiet>>
    /\ UNCHANGED <<memory, frame, roots, tracked, flags, stack, areasLeft, gcv,
                   lastGcFrame, findFrame, request, walkv, rootSeen, seen, passAt,
                   answered>>

(* 3. Forget all unmarked objects, with their flags and parents, and       *)
(* release the locks.                                                      *)
Sweep ==
    /\ phase = "sweep"
    /\ tracked' = Survivors
    /\ parents' = [a \in Addr |-> IF a \in Survivors THEN parents[a] ELSE {}]
    /\ phase' = "idle" /\ gc' = "set" /\ quiet' = TRUE
    /\ UNCHANGED <<memory, frame, roots, marked, isRoot, visited, stack, areasLeft,
                   onlyParents, gcFrame, lastGcFrame, searchv, walkv, rootSeen, seen,
                   passAt, answered>>

(* m_last_gc_frame = frame, after the locks are released.                  *)
GcReturn ==
    /\ gc = "set"
    /\ lastGcFrame' = gcFrame
    /\ gc' = "none" /\ gcFrame' = 0
    /\ UNCHANGED <<memory, frame, roots, tracked, flags, passv, searchv, walkv,
                   history>>

FindGcReturn ==
    /\ search = "set"
    /\ lastGcFrame' = findFrame
    /\ search' = "lock"
    /\ UNCHANGED <<memory, frame, roots, tracked, flags, passv, gcv, findFrame,
                   request, walkv, history>>

-----------------------------------------------------------------------------
(* find_references, called by the commands thread.                         *)
FindReferences(addresses) ==
    /\ search = "none"
    /\ search' = IF NeedsPass THEN "wait" ELSE "lock"
    /\ findFrame' = frame /\ request' = addresses
    /\ UNCHANGED <<memory, frame, roots, tracked, flags, passv, gcv, lastGcFrame,
                   walkv, history>>

FindLocked ==
    /\ search = "lock"
    /\ phase = "idle"
    /\ search' = "walk"
    /\ interesting' = request /\ response' = {}
    /\ UNCHANGED <<memory, frame, roots, tracked, flags, passv, gcv, lastGcFrame,
                   findFrame, request, history>>

(* One entry of interesting_addresses; one that is not tracked is skipped. *)
Visiting(a) ==
    /\ search = "walk"
    /\ a \in interesting
    /\ LET new == parents[a] \ visited
       IN  IF a \in tracked
           THEN /\ response' = response \cup
                      {[addr |-> a, parents |-> parents[a],
                        root |-> a \in isRoot, deleted |-> a \notin marked]}
                /\ visited' = Visit(new)
                /\ interesting' = (interesting \ {a}) \cup PushParents(new)
           ELSE /\ interesting' = interesting \ {a}
                /\ UNCHANGED <<response, visited>>
    /\ UNCHANGED <<memory, frame, roots, tracked, marked, isRoot, parents, passv, gcv,
                   lastGcFrame, searchv, history>>

(* report_references, and the locks are released.                          *)
FindDone ==
    /\ search = "walk"
    /\ interesting = {}
    /\ search' = "none"
    /\ findFrame' = 0 /\ request' = {} /\ response' = {}
    /\ answered' = answered \cup {e.addr : e \in response}
    /\ UNCHANGED <<memory, frame, roots, tracked, flags, passv, gcv, lastGcFrame,
                   interesting, rootSeen, seen, quiet, passAt>>

-----------------------------------------------------------------------------
PassStep ==
    \/ \E r \in Areas : ReadArea(r)
    \/ EndRoots
    \/ \E a \in Addr : ReadObject(a)
    \/ EndMark \/ Sweep

WalkStep == (\E a \in Addr : Visiting(a)) \/ FindDone

Next ==
    \/ Write \/ OnFrame \/ OnGc \/ GcReturn \/ FindGcReturn \/ FindLocked
    \/ \E r \in Areas : RegisterRoot(r) \/ UnregisterRoot(r)
    \/ \E a \in Addr : Track(a)
    \/ \E only \in BOOLEAN : BeginPass(only)
    \/ \E addresses \in SUBSET Addr : FindReferences(addresses)
    \/ PassStep \/ WalkStep

Spec == Init /\ [][Next]_vars

(* A thread inside a pass or a search keeps running, and one that waits    *)
(* for the locks gets them although others may take them again and again.  *)
Fairness ==
    /\ WF_vars(PassStep) /\ WF_vars(WalkStep)
    /\ WF_vars(GcReturn) /\ WF_vars(FindGcReturn)
    /\ SF_vars(FindLocked) /\ \A only \in BOOLEAN : SF_vars(BeginPass(only))

FairSpec == Spec /\ Fairness

-----------------------------------------------------------------------------
(* Properties.                                                             *)

(* S holds the start set and everything it reaches along refs.             *)
Closed(S, start, refs) == start \subseteq S /\ \A a \in S : refs[a] \subseteq S

(* S is exactly what the start set reaches along refs.                     *)
IsReach(S, start, refs) ==
    /\ Closed(S, start, refs)
    /\ \A T \in SUBSET Addr : Closed(T, start, refs) => S \subseteq T

(* What the roots refer to, and what objects refer to, in memory now.      *)
LiveRoots == tracked \cap UNION {rootWords[r] : r \in roots}
LiveRefs  == [a \in Addr |-> words[a] \cap tracked]

Entries == [addr: Addr, parents: SUBSET Addr, root: BOOLEAN, deleted: BOOLEAN]

(* Type invariant: the flags only stand on tracked objects, and the two    *)
(* threads' program points agree with the pass that is running.            *)
TypeOK ==
    /\ words \in [Addr -> SUBSET Addr] /\ rootWords \in [Areas -> SUBSET Addr]
    /\ writes \in 0..MaxWrites /\ frame \in 0..MaxFrame
    /\ roots \subseteq Areas /\ tracked \subseteq Addr
    /\ marked \subseteq tracked /\ isRoot \subseteq marked /\ visited \subseteq tracked
    /\ parents \in [Addr -> SUBSET Addr]
    /\ phase \in {"idle", "roots", "mark", "sweep"} /\ onlyParents \in BOOLEAN
    /\ areasLeft \subseteq roots /\ stack \subseteq marked
    /\ gc \in {"none", "wait", "pass", "set"} /\ gcFrame \in 0..frame
    /\ search \in {"none", "wait", "pass", "set", "lock", "walk"}
    /\ findFrame \in 0..frame /\ lastGcFrame \in 0..frame
    /\ request \subseteq Addr /\ interesting \subseteq Addr
    /\ response \subseteq Entries
    /\ rootSeen \subseteq tracked /\ seen \in [Addr -> SUBSET Addr]
    /\ quiet \in BOOLEAN /\ passAt \in -1..frame /\ answered \subseteq Addr
    /\ gc = "pass" <=> phase # "idle" /\ ~onlyParents
    /\ search = "pass" <=> phase # "idle" /\ onlyParents

(* A sweep forgets exactly what could not be reached through the           *)
(* references the pass read, whatever the application wrote meanwhile.     *)
SweepKeepsReachable ==
    [][phase = "sweep" /\ phase' = "idle" => IsReach(tracked', rootSeen, seen)]_vars

(* If nothing was written during the pass, a sweep forgets exactly the     *)
(* objects that no registered root reaches in memory.                      *)
QuietSweepExact ==
    [][phase = "sweep" /\ phase' = "idle" /\ quiet
       => IsReach(tracked', LiveRoots, LiveRefs)]_vars

(* The parents of a tracked object are the tracked objects in which the    *)
(* last pass found it; so find_references_internal, which uses the result  *)
(* of its look-up of a parent unchecked, never looks up a forgotten one.   *)
ParentsExact ==
    \A b \in tracked : parents[b] = {a \in tracked : b \in seen[a]}

(* An object is labelled a root iff the last pass found it in a root area, *)
(* also if it is found again in other objects.                             *)
RootLabels == isRoot = rootSeen

Responded == {e.addr : e \in response}

(* A finished search has described the requested objects, described only   *)
(* them and what refers to them directly or indirectly, and left out a     *)
(* parent only if an earlier response since the last pass described it.    *)
SearchComplete ==
    search = "walk" /\ interesting = {} =>
        /\ request \cap tracked \subseteq Responded
        /\ \A a \in Responded : parents[a] \subseteq Responded \cup answered
        /\ \A T \in SUBSET Addr :
              Closed(T, request \cap tracked, parents) => Responded \subseteq T

(* From frame 1 on a search walks references that a pass collected in the  *)
(* frame of the request or later.                                          *)
ReferencesCurrent == search = "walk" /\ findFrame > 0 => passAt >= findFrame

(* A pass ends, on any object graph.                                       *)
PassEnds == (phase # "idle") ~> (phase = "idle")

(* A reference search is answered, on any object graph.                    *)
SearchEnds == (search # "none") ~> (search = "none")

(* What the documentation and the comments say.                            *)

(* Every parent named in a response has an entry of its own in it.         *)
ResponseComplete ==
    search = "walk" /\ interesting = {} =>
        \A a \in Responded : parents[a] \subseteq Responded
=============================================================================
