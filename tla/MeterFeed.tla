------------------------------- MODULE MeterFeed -------------------------------
(***************************************************************************)
(* The feed of the METER page: metering frames folded, a stride at a time,   *)
(* into events that each subscriber has a bounded queue for.  A page lays    *)
(* its bars out from a geometry event and draws every frame event on them.   *)
(*                                                                          *)
(* Frames come from one connection after another, in whatever geometry the   *)
(* source has, while pages come, stall and go.                               *)
(***************************************************************************)
EXTENDS Naturals, Sequences, FiniteSets

CONSTANTS
    Pages,      \* subscribers
    Geometries, \* frame layouts
    STRIDE,     \* per geometry, the frames one event covers
    QUEUE_DEPTH,
    Absent,
    MaxFrames, MaxConnections, MaxVisits \* bounds on the environment

ASSUME StrideAssumption == STRIDE \in [Geometries -> Nat \ {0}]
ASSUME DepthAssumption == QUEUE_DEPTH \in Nat \ {0}
ASSUME FeedBoundsAssumption == {MaxFrames, MaxConnections, MaxVisits} \subseteq Nat

VARIABLES
    arriving, \* the stream: the number of the next frame, of its connection, its layout
    feed,     \* MeterFeed: the geometry held, and the frames of the stride in hand
    queue,    \* per page, the events it has not taken; Absent while it is not subscribed
    page,     \* per page, the geometry it is laid out for, and the last frames it drew
    overran,  \* history: per page, whether its queue ever dropped an event
    visits    \* subscriptions against their bound

feedVars == <<arriving, feed, queue, page, overran, visits>>

Geometry(g) == [name |-> "geometry", of |-> g]
Frame(fs) == [name |-> "frame", of |-> fs]

\* What arrives, and what is queued for a page.
Frames == [n : Nat, connection : Nat, layout : Geometries]
Events == [name : {"geometry"}, of : Geometries] \cup [name : {"frame"}, of : SUBSET Frames]

ASSUME FeedNoneAssumption == Absent \notin Geometries \cup Seq(Events)

FeedInit ==
    /\ arriving \in [n : {1}, connection : {1}, layout : Geometries]
    /\ feed = [geo |-> Absent, stride |-> {}]
    /\ queue = [p \in Pages |-> Absent]
    /\ page = [p \in Pages |-> [laid |-> Absent, drew |-> {}]]
    /\ overran = [p \in Pages |-> FALSE] /\ visits = 0

Subscribers == {p \in Pages : queue[p] # Absent}

\* An event is queued, the oldest dropped where the queue is full.
Sent(q, e) == Append(IF Len(q) = QUEUE_DEPTH THEN Tail(q) ELSE q, e)

\* The same event, or events, to every subscriber.
SentAll(es) ==
    LET first == [p \in Subscribers |-> Sent(queue[p], es[1])]
    IN  [p \in Pages |-> IF p \notin Subscribers \/ es = <<>> THEN queue[p]
                         ELSE IF Len(es) = 1 THEN first[p] ELSE Sent(first[p], es[2])]
Overruns(es) == [p \in Pages |-> overran[p] \/ (p \in Subscribers /\ Len(queue[p]) + Len(es) > QUEUE_DEPTH)]

-----------------------------------------------------------------------------
\* Mutant: a new page waits for the next geometry.
SubscribeBare(p) ==
    /\ queue[p] = Absent /\ visits < MaxVisits /\ visits' = visits + 1
    /\ queue' = [queue EXCEPT ![p] = <<>>]
    /\ page' = [page EXCEPT ![p] = [laid |-> Absent, drew |-> {}]] /\ overran' = [overran EXCEPT ![p] = FALSE]
    /\ UNCHANGED <<arriving, feed>>

\* A page opens the event stream, new or as a browser takes up a stream it lost, and is
\* told the geometry held, where there is one.
Subscribe(p) ==
    /\ queue[p] = Absent /\ visits < MaxVisits /\ visits' = visits + 1
    /\ queue' = [queue EXCEPT ![p] = IF feed.geo = Absent THEN <<>> ELSE <<Geometry(feed.geo)>>]
    /\ \E bars \in {Absent, page[p].laid} : page' = [page EXCEPT ![p] = [laid |-> bars, drew |-> {}]]
    /\ overran' = [overran EXCEPT ![p] = FALSE]
    /\ UNCHANGED <<arriving, feed>>

\* Mutant: the partial stride waits for the next subscriber.
UnsubscribeKeepsStride(p) ==
    /\ queue[p] # Absent /\ queue' = [queue EXCEPT ![p] = Absent]
    /\ UNCHANGED <<arriving, feed, page, overran, visits>>

\* A page goes.  The last to go takes the partial stride along.
Unsubscribe(p) ==
    /\ queue[p] # Absent /\ queue' = [queue EXCEPT ![p] = Absent]
    /\ feed' = IF Subscribers = {p} THEN [feed EXCEPT !.stride = {}] ELSE feed
    /\ UNCHANGED <<arriving, page, overran, visits>>

\* A frame arrives.  A new layout drops the partial stride and is announced first;
\* a stride that is complete is sent, after the announcement.
Add ==
    /\ arriving.n <= MaxFrames /\ arriving' = [arriving EXCEPT !.n = @ + 1]
    /\ LET g == arriving.layout
           moved == feed.geo # g
           stride == (IF moved THEN {} ELSE feed.stride) \cup {arriving}
           full == Cardinality(stride) >= STRIDE[g]
           es == (IF moved THEN <<Geometry(g)>> ELSE <<>>) \o (IF full THEN <<Frame(stride)>> ELSE <<>>)
       IN  IF Subscribers = {} THEN UNCHANGED <<feed, queue, overran>>
           ELSE /\ feed' = [geo |-> g, stride |-> IF full THEN {} ELSE stride]
                /\ queue' = SentAll(es) /\ overran' = Overruns(es)
    /\ UNCHANGED <<page, visits>>

\* Mutant: the feed goes on where the connection before left it.
ResetNothing ==
    /\ arriving.connection < MaxConnections
    /\ arriving' \in {[arriving EXCEPT !.connection = @ + 1, !.layout = g] : g \in Geometries}
    /\ UNCHANGED <<feed, queue, page, overran, visits>>

\* The reader connects anew, after a pause or a broken stream: geometry and stride go.
Reset ==
    /\ arriving.connection < MaxConnections
    /\ arriving' \in {[arriving EXCEPT !.connection = @ + 1, !.layout = g] : g \in Geometries}
    /\ feed' = [geo |-> Absent, stride |-> {}]
    /\ UNCHANGED <<queue, page, overran, visits>>

\* The source changes its layout under the connection.
Relayout ==
    /\ arriving' \in {[arriving EXCEPT !.layout = g] : g \in Geometries \ {arriving.layout}}
    /\ UNCHANGED <<feed, queue, page, overran, visits>>

\* A page takes its next event: a geometry lays it out, a frame is drawn as it is.
Redraw(p) ==
    /\ queue[p] \notin {Absent, <<>>}
    /\ LET e == Head(queue[p])
       IN  page' = [page EXCEPT ![p] = IF e.name = "geometry" THEN [laid |-> e.of, drew |-> {}]
                                       ELSE [@ EXCEPT !.drew = e.of]]
    /\ queue' = [queue EXCEPT ![p] = Tail(@)]
    /\ UNCHANGED <<arriving, feed, overran, visits>>

FeedNext == (\E p \in Pages : Subscribe(p) \/ Unsubscribe(p) \/ Redraw(p)) \/ Add \/ Reset \/ Relayout
FeedSpec == FeedInit /\ [][FeedNext]_feedVars

-----------------------------------------------------------------------------
(* Properties.                                                              *)

\* A queue is bounded, and a stride in hand is never one that should have been sent.
FeedTypeOK ==
    /\ feed.geo \in Geometries \cup {Absent} /\ \A f \in feed.stride : f.layout = feed.geo
    /\ feed.geo # Absent => Cardinality(feed.stride) < STRIDE[feed.geo]
    /\ \A p \in Subscribers : Len(queue[p]) <= QUEUE_DEPTH

\* One frame event is one piece of one stream: consecutive frames of one connection
\* in one layout, however pages came and went and the reader paused in between.
OneStream ==
    \A p \in Pages : page[p].drew # {} =>
        /\ \A f, h \in page[p].drew : f.connection = h.connection /\ f.layout = h.layout
        /\ \A f, h \in page[p].drew : \A n \in f.n..h.n : \E k \in page[p].drew : k.n = n

\* A page that keeps up draws every frame on bars laid out for that frame's layout.  One
\* that stalls does not: a queue that is full drops its oldest event, the geometry too.
GeometryAhead == \A p \in Pages : overran[p] \/ \A f \in page[p].drew : f.layout = page[p].laid
=============================================================================
