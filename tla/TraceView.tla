----------------------------- MODULE TraceView -----------------------------
(***************************************************************************)
(* What the user interface shows of a session while it is recorded: the    *)
(* graphs of a range of frames (graphs_data over get_stats), the frames    *)
(* picked in them, and the objects alive over the frames picked            *)
(* (live_objects_data over get_live_objects).  Three threads share the     *)
(* database connection: the message thread inserts the events of a frame   *)
(* one by one, then its statistics; the user-interface thread queries      *)
(* statistics; a worker thread walks through the events, frame by frame.   *)
(* Events reach the client as bytes (Wire), frees also for frames that are *)
(* over.  get_stats is one step: that the message thread may write between *)
(* its two queries, or before it reads m_max_frame, is left out.  sqlite   *)
(* is external: on one connection it is open whether a running query sees  *)
(* a row inserted after it started; rows of one frame come in order.       *)
(***************************************************************************)
EXTENDS Wire, FiniteSets, FiniteSetsExt

CONSTANTS
    Addrs,       \* addresses of objects
    Lengths,     \* lengths of types' names, which stand for the types
    Stack,       \* length of the callstack of an allocation
    Frames,      \* frames the server reports
    Widths,      \* frames the graphs can show at a zoom
    Points,      \* frames the user points at, to scroll or to pick
    FlushLimit,  \* events that may wait for their frame to end (10000)
    U64,         \* scaled 2^64
    OldMax,      \* m_max_frame an earlier session has left, or 0
    MaxFrame,    \* the last frame there can be
    MaxEvents,   \* bound on the events
    MaxAsks      \* bound on what the user asks for

ASSUME TraceViewAssumption ==
    /\ Addrs \subseteq Nat /\ Lengths \subseteq Nat /\ Stack \in Nat
    /\ Frames \subseteq 0..MaxFrame
    /\ Widths \subseteq Nat /\ Points \subseteq Nat /\ FlushLimit \in Nat \ {0}
    /\ U64 \in Nat /\ OldMax \in 0..MaxFrame
    /\ MaxFrame \in Nat /\ MaxEvents \in Nat /\ MaxAsks \in Nat

(* Frames, addresses and the lengths of strings are numbers of 64 bits.    *)
ASSUME WidthAssumption ==
    /\ MaxFrame < Power[8] /\ Stack < Power[8]
    /\ \A x \in Addrs \cup Lengths : x < Power[8]

VARIABLES
    sent,      \* history: events the server has reported
    events,    \* events the client has processed
    pend,      \* the event that ends a frame, while the frame is saved
    saving,    \* save_frame_events is running
    saved,     \* events in ProfilerEvents: this many of the first
    stats,     \* FrameStats
    bounds,    \* m_min_frame and m_max_frame
    pos,       \* m_pos and the position of the scroll bar
    width,     \* frames the graphs show
    view,      \* graphs_data
    picked,    \* the frames picked with the mouse
    worker,    \* the thread that looks for live objects
    types,     \* live_objects_data::types
    asks       \* requests so far

recording == <<sent, events, pend, saving, saved, stats, bounds>>
graphs == <<pos, width, view>>
search == <<picked, worker, types>>
vars == <<recording, graphs, search, asks>>

NoEvent == [kind |-> "none"]

-----------------------------------------------------------------------------
(* Seeded faults: variants of definitions below, each with a plausible     *)
(* slip in the code it stands for.  No action uses them.                   *)

(* The gap before the first row is one frame short.                        *)
Gap_FromFirst(acc, f, from) == f - acc.prev - 1

(* The farther of two frames is taken.                                     *)
Nearer_Farther(x, f1, f2) == IF x - f1 > f2 - x THEN f1 ELSE f2

(* A free leaves the object in the map.                                    *)
Freed_Kept(m, a) == m

(* Whether the edge is visible is asked after update_boundaries.           *)
EdgeVisible_After(v, max) == v.to >= max

(* The graphs scroll whenever the edge is visible.                         *)
Scrolls_Always(edge, v, max) == edge

-----------------------------------------------------------------------------
(* get_stats.                                                              *)

Unsigned(n) == n % U64
Copies(n, x) == [i \in 1..n |-> x]

(* select_last_good_size                                                   *)
LastGoodSize(from) ==
    LET before == {f \in DOMAIN stats : f <= from}
    IN  IF before = {} THEN 0 ELSE Unsigned(stats[Max(before)].size)

(* Frames without events between the row of frame f and what there is.     *)
Gap(acc, f, from) == IF acc.first THEN f - from ELSE f - acc.prev - 1

(* One row of select_stats; without a row before it, the last known size   *)
(* fills the gap.                                                          *)
WithRow(acc, f, from) ==
    LET n == Gap(acc, f, from)
    IN  [first  |-> FALSE, prev |-> f,
         allocs |-> acc.allocs \o Copies(n, 0) \o <<stats[f].allocs>>,
         frees  |-> acc.frees \o Copies(n, 0) \o <<stats[f].frees>>,
         sizes  |-> acc.sizes \o Copies(n, IF acc.first THEN LastGoodSize(from) ELSE Last(acc.sizes))
                              \o <<Unsigned(stats[f].size)>>]

(* graphs_data::update_region over get_stats                               *)
UpdateRegion(from, to, max) ==
    LET rows == SetToSortSeq({f \in DOMAIN stats : from <= f /\ f <= to}, <)
        none == [first |-> TRUE, prev |-> from, allocs |-> << >>, frees |-> << >>, sizes |-> << >>]
        acc  == FoldLeft(LAMBDA a, f : WithRow(a, f, from), none, rows)
        tail == IF acc.sizes = << >> THEN 0 ELSE Max({0, Min({to, bounds.max}) - acc.prev})
    IN  [from   |-> from, to |-> to, max |-> max,
         allocs |-> acc.allocs \o Copies(tail, 0),
         frees  |-> acc.frees \o Copies(tail, 0),
         sizes  |-> IF tail = 0 THEN acc.sizes ELSE acc.sizes \o Copies(tail, Last(acc.sizes))]

Init ==
    /\ sent = << >> /\ events = << >> /\ pend = NoEvent /\ saving = FALSE /\ saved = 0
    /\ stats = << >>
    /\ bounds = [min |-> 0, max |-> OldMax]
    /\ pos = 0 /\ width \in Widths
    /\ view = [from |-> 0, to |-> width, max |-> bounds.max,
               allocs |-> << >>, frees |-> << >>, sizes |-> << >>]
    /\ picked = [from |-> 0, to |-> 0]
    /\ worker = [state |-> "none", at |-> 0, old |-> 0, map |-> << >>]
    /\ types = << >>
    /\ asks = 0

-----------------------------------------------------------------------------
(* The message thread.                                                     *)

PrevFrame == IF events = << >> THEN 0 ELSE Last(events).frame

(* What the client makes of a message; if it is of another frame the one   *)
(* before is saved.                                                        *)
Process(r) ==
    \/ /\ r.ok /\ (events = << >> \/ r.event.frame = PrevFrame)
       /\ events' = Append(events, r.event)
       /\ bounds' = IF events # << >> THEN bounds
                    ELSE [min |-> r.event.frame, max |-> Max({bounds.max, r.event.frame})]
       /\ saving' = (Len(events) + 1 - saved > FlushLimit)
       /\ UNCHANGED pend
    \/ /\ r.ok /\ events # << >> /\ r.event.frame # PrevFrame
       /\ bounds' = [bounds EXCEPT !.max = Max({@, r.event.frame})]
       /\ saving' = TRUE /\ pend' = r.event
       /\ UNCHANGED events
    \/ ~r.ok /\ UNCHANGED <<events, bounds, saving, pend>>

(* The server takes the frame of an allocation in order, that of a free    *)
(* may be over; an allocation of an earlier frame than the event before it *)
(* stops the client in the debugger.                                       *)
MayReport(kind, f) ==
    kind = "alloc" => /\ f >= PrevFrame
                      /\ \A i \in DOMAIN sent : sent[i].kind = "alloc" => f >= sent[i].frame

Receive(kind, a, n, f) ==
    LET e == [kind |-> kind, addr |-> a, size |-> 1, frame |-> f, name |-> n,
              stack |-> IF kind = "alloc" THEN Stack ELSE 0]
    IN  /\ ~saving /\ Len(sent) < MaxEvents /\ MayReport(kind, f)
        /\ sent' = Append(sent, e)
        /\ Process(Decode(kind, Encode(e)))
        /\ UNCHANGED <<saved, stats, graphs, search, asks>>

InsertEvent ==
    /\ saving /\ saved < Len(events)
    /\ saved' = saved + 1
    /\ UNCHANGED <<sent, events, pend, saving, stats, bounds, graphs, search, asks>>

(* m_frame_allocs and m_frame_frees count from the last change of frame;   *)
(* m_size_running_total                                                    *)
Of(kind, f) ==
    Cardinality({i \in DOMAIN events : /\ events[i].kind = kind
                                       /\ \A j \in i..Len(events) : events[j].frame = f})
Total ==
    MapThenSumSet(LAMBDA i : IF events[i].kind = "alloc" THEN events[i].size ELSE -events[i].size,
                  DOMAIN events)

(* INSERT OR REPLACE of the frame's row, and the event that was waiting.   *)
InsertStats ==
    /\ saving /\ saved = Len(events)
    /\ LET row == [allocs |-> Of("alloc", PrevFrame), frees |-> Of("free", PrevFrame),
                   size   |-> Total]
       IN  stats' = [f \in DOMAIN stats \cup {PrevFrame} |-> IF f = PrevFrame THEN row ELSE stats[f]]
    /\ events' = IF pend = NoEvent THEN events ELSE Append(events, pend)
    /\ saving' = FALSE /\ pend' = NoEvent
    /\ UNCHANGED <<sent, saved, bounds, graphs, search, asks>>

-----------------------------------------------------------------------------
(* The graphs.                                                             *)

Ask == asks < MaxAsks /\ asks' = asks + 1

(* setZoom, from the mouse wheel or a new size of the window               *)
SetZoom(w) ==
    /\ Ask
    /\ width' = w /\ view' = UpdateRegion(pos, pos + w, view.max)
    /\ UNCHANGED <<recording, pos, search>>

(* onAllocationsScrolled; the scroll bar keeps to the bounds it was given. *)
Scroll(p) ==
    /\ Ask
    /\ bounds.min <= p /\ p <= view.max
    /\ pos' = p /\ view' = UpdateRegion(p, p + width, view.max)
    /\ UNCHANGED <<recording, width, search>>

(* timerEvent asks before update_boundaries whether the last frame shows.  *)
EdgeVisible(v, max) == v.to >= v.max
Scrolls(edge, v, max) == edge /\ v.to < max

(* timerEvent: new bounds may push the scroll bar, which scrolls.  If the  *)
(* last frame was visible the graphs follow it.                            *)
Timer ==
    LET edge == EdgeVisible(view, bounds.max)
        bar  == Max({pos, bounds.min})
        v    == IF bar = pos THEN [view EXCEPT !.max = bounds.max]
                             ELSE UpdateRegion(bar, bar + width, bounds.max)
    IN  /\ \/ /\ Scrolls(edge, v, bounds.max)
              /\ pos' = bounds.max - width
              /\ view' = UpdateRegion(pos', bounds.max, bounds.max)
           \/ /\ ~Scrolls(edge, v, bounds.max)
              /\ pos' = bar
              /\ view' = IF v.to >= bounds.max \/ v.to = 0 THEN UpdateRegion(v.from, v.to, bounds.max)
                                                          ELSE v
        /\ UNCHANGED <<recording, width, search, asks>>

-----------------------------------------------------------------------------
(* Picking frames.                                                         *)

(* Of the frames f1 <= x <= f2 the nearer one, the first if they are as    *)
(* near as each other.                                                     *)
Nearer(x, f1, f2) == IF x - f1 > f2 - x THEN f2 ELSE f1

(* get_closest_gc_frame, where gcs are the frames whose entry in           *)
(* m_frees_count is not 0.                                                 *)
ClosestGcFrame(x, gcs) ==
    LET below == {f \in gcs : view.from < f /\ f <= x}
        above == {f \in gcs : x <= f /\ f < view.to}
    IN  IF x <= view.from \/ x >= view.to \/ below \cup above = {} THEN x
        ELSE IF above = {} THEN Max(below)
        ELSE IF below = {} THEN Min(above)
        ELSE Nearer(x, Max(below), Min(above))

(* Frames shown whose entry is there, and is not 0; frames without one.    *)
GcFrames == {f \in view.from..view.to :
                f - view.from < Len(view.frees) /\ view.frees[f - view.from + 1] > 0}
Missing == {f \in view.from..view.to : f - view.from >= Len(view.frees)}

-----------------------------------------------------------------------------
(* The worker: get_live_objects and live_objects_data::update.             *)

(* select_events: rows in order of frames, those of a frame as inserted.   *)
InRange(i) == picked.from <= events[i].frame /\ events[i].frame <= picked.to
Before(i, j) ==
    \/ events[i].frame < events[j].frame
    \/ events[i].frame = events[j].frame /\ i < j
Rows(at, to) == {i \in 1..to : InRange(i) /\ (at # 0 => Before(at, i))}

(* The query starts.                                                       *)
StartSearch ==
    /\ worker.state = "start"
    /\ worker' = [worker EXCEPT !.state = "rows", !.old = saved]
    /\ UNCHANGED <<recording, graphs, picked, types, asks>>

(* emplace keeps the object that is there; erase                           *)
Found(m, e) ==
    IF e.addr \in DOMAIN m THEN m
    ELSE [a \in DOMAIN m \cup {e.addr} |-> IF a = e.addr THEN e ELSE m[a]]
Freed(m, a) == [b \in DOMAIN m \ {a} |-> m[b]]

(* The next row; rows inserted since the query started may be missed, and  *)
(* are if they belong before the row it is at.                             *)
VisitRow(i) ==
    /\ worker.state = "rows"
    /\ i \in Rows(worker.at, saved)
    /\ \A j \in Rows(worker.at, worker.old) : ~Before(j, i)
    /\ worker' = [worker EXCEPT !.at = i,
                               !.map = IF events[i].kind = "alloc" THEN Found(@, events[i])
                                                                   ELSE Freed(@, events[i].addr)]
    /\ UNCHANGED <<recording, graphs, picked, types, asks>>

(* Objects by type, with their number, size and addresses                  *)
Grouped(m) ==
    [t \in {m[a].name : a \in DOMAIN m} |->
        LET of == {a \in DOMAIN m : m[a].name = t}
        IN  [count |-> Cardinality(of), size |-> MapThenSumSet(LAMBDA a : m[a].size, of),
             addresses |-> of]]

(* The frames a pick from x1 to x2 selects.  Where the vector is shorter   *)
(* than the range shown, the search reads past its end: any of those       *)
(* entries may be taken for a collection, and two decide the outcome.      *)
Selections ==
    LET shown == Points \cap view.from..view.to
        pairs == {x \in shown \X shown : x[1] < x[2]}
        gcs   == GcFrames
        past  == Missing \ {view.from, view.to}
        snapped(p) == [x \in shown |-> ClosestGcFrame(x, gcs \cup p)]
    IN  {[from |-> x[1], to |-> x[2] - 1] : x \in pairs} \cup
        UNION {{[from |-> s[x[1]], to |-> s[x[2]]] : x \in pairs} :
               s \in {snapped(p) : p \in {{}} \cup {{f, g} : f, g \in past}}}

(* onPickerChanged.  A worker that still runs is interrupted: at its next  *)
(* row it gives up and leaves no types, but it may be at its end already.  *)
Pick ==
    /\ Ask
    /\ picked' \in Selections
    /\ worker' = [state |-> "start", at |-> 0, old |-> 0, map |-> << >>]
    /\ \/ worker.state \in {"none", "done"} /\ UNCHANGED types
       \/ worker.state \in {"start", "rows"} /\ types' = << >>
       \/ /\ worker.state = "rows" /\ Rows(worker.at, worker.old) = {}
          /\ types' = Grouped(worker.map)
    /\ UNCHANGED <<recording, graphs>>

(* No rows are left: the list shows the types.                             *)
EndSearch ==
    /\ worker.state = "rows"
    /\ Rows(worker.at, worker.old) = {}
    /\ worker' = [worker EXCEPT !.state = "done"]
    /\ types' = Grouped(worker.map)
    /\ UNCHANGED <<recording, graphs, picked, asks>>

-----------------------------------------------------------------------------
Next ==
    \/ \E a \in Addrs, f \in Frames :
            (\E n \in Lengths : Receive("alloc", a, n, f)) \/ Receive("free", a, 0, f)
    \/ InsertEvent \/ InsertStats
    \/ \E w \in Widths : SetZoom(w)
    \/ \E p \in Points : Scroll(p)
    \/ Timer
    \/ Pick
    \/ StartSearch \/ EndSearch
    \/ \E i \in 1..MaxEvents : VisitRow(i)

Spec == Init /\ [][Next]_vars

-----------------------------------------------------------------------------
(* Properties.                                                             *)

(* Type invariant.                                                         *)
TypeOK ==
    /\ saved \in 0..Len(events) /\ saving \in BOOLEAN
    /\ \A f \in DOMAIN stats : f \in 0..MaxFrame /\ stats[f].allocs + stats[f].frees > 0
    /\ bounds \in [min : 0..MaxFrame, max : 0..MaxFrame]
    /\ pos \in 0..MaxFrame /\ width \in Widths /\ view.from = pos /\ view.to = pos + width
    /\ worker.state \in {"none", "start", "rows", "done"} /\ worker.at <= saved
    /\ DOMAIN worker.map \subseteq Addrs
    /\ asks \in 0..MaxAsks

(* The client processes the events the server reported, whatever lengths   *)
(* and numbers the bytes of the messages have to carry.                    *)
DecodedAsSent == sent = events \/ sent = Append(events, pend)

Shown == <<view.from, view.to, view.allocs, view.frees, view.sizes>>
Aligned ==
    LET some == \E f \in DOMAIN stats : view.from <= f /\ f <= view.to
        n    == IF some THEN Min({view.to, bounds.max}) - view.from + 1 ELSE 0
    IN  /\ Len(view.allocs) = n /\ Len(view.frees) = n /\ Len(view.sizes) = n
        /\ \A i \in 1..n :
             LET f == view.from + i - 1
             IN  /\ view.allocs[i] = IF f \in DOMAIN stats THEN stats[f].allocs ELSE 0
                 /\ view.frees[i] = IF f \in DOMAIN stats THEN stats[f].frees ELSE 0
                 /\ view.sizes[i] = LastGoodSize(f)

(* Graphs that are drawn anew line up with the frames they show: whatever  *)
(* gaps the rows leave, entry i is that of the i-th frame, its size the    *)
(* last one known by then, and up to the last frame there is an entry for  *)
(* every frame.  A range without rows has no entries.                      *)
StatsAligned == [][Shown' # Shown => Aligned']_vars

InnerGcs == GcFrames \ {view.from, view.to}
Distance(x, f) == IF x < f THEN f - x ELSE x - f
Closest(x, y) ==
    InnerGcs # {} => y \in InnerGcs /\ \A f \in InnerGcs : Distance(x, y) <= Distance(x, f)

(* Snapping goes to a frame with a collection if one is shown strictly     *)
(* between the edges, and to none that is farther than another, as long as *)
(* get_stats has filled the range shown.                                   *)
SnapsToClosestGc ==
    Missing \ {view.to} = {} =>
        \A x \in view.from + 1..view.to - 1 : Closest(x, ClosestGcFrame(x, GcFrames))

(* While the last frame is visible the graphs follow it, however many      *)
(* frames arrive between two ticks of the timer.                           *)
EdgeFollowed == [][view'.max # view.max /\ view.to >= view.max => view'.to >= view'.max]_vars

(* The events of an address in the frames picked; they have come in order  *)
(* of frames; the allocations not followed by a free.                      *)
Mine(a) == {i \in Rows(0, saved) : events[i].addr = a}
InOrder(rows) == \A i, j \in rows : i < j => events[i].frame <= events[j].frame
Live(rows) == {i \in rows : \A j \in rows : j >= i => events[j].kind = "alloc"}

(* The objects listed are those allocated and not freed in the frames      *)
(* picked, each under the type of its first allocation since it was freed, *)
(* for every address whose events came in order of frames and were saved   *)
(* when the search began, though more are inserted during the search.      *)
LiveObjectsExact ==
    worker.state = "done" =>
        \A a \in Addrs :
            (\A i \in Mine(a) : i <= worker.old) /\ InOrder(Mine(a)) =>
                {t \in DOMAIN types : a \in types[t].addresses} =
                    IF Live(Mine(a)) = {} THEN {} ELSE {events[Min(Live(Mine(a)))].name}
=============================================================================
