----------------------------- MODULE ClusterManager -----------------------------
(***************************************************************************)
(* cluster() of "Task Clusters/src/visualiser/ClusterManager.java": the     *)
(* events of a user, in the order of their times, are grouped by the type   *)
(* of the element they touch into clusters that begin at most `window'      *)
(* apart.  Events are named by their places in the list.                    *)
(***************************************************************************)
EXTENDS Integers, Sequences, FiniteSets

CONSTANTS
    Types,      \* the types of elements
    Gaps,       \* bound: the times between two events
    MaxEvents   \* bound: the events in the list

(* The list is in the order of the times of its events.                     *)
ASSUME GapsAssumption == Gaps \subseteq Nat

window == 10

VARIABLES
    userEvents,     \* the events read so far
    map,            \* type -> the cluster still open
    clustersList,   \* the result
    returned        \* the types whose cluster the last loop has seen; cluster() is
                    \* over when it has seen all

clusterVars == <<userEvents, map, clustersList, returned>>

ClustersInit ==
    /\ userEvents = <<>>
    /\ map = [type \in {} |-> {}]
    /\ clustersList = <<>>
    /\ returned = {}

Now == IF userEvents = <<>> THEN 0 ELSE userEvents[Len(userEvents)].timestamp

Cluster(e, t) ==
    [userEvents |-> <<e>>, startTimestamp |-> t, endTimestamp |-> t + 9]

Put(type, cluster) ==
    [k \in DOMAIN map \cup {type} |-> IF k = type THEN cluster ELSE map[k]]

(* Mutated form: a further event moves the window along. *)
clusterSlides(type, t) ==
    LET e == Len(userEvents) + 1
        open == map[type]
    IN  /\ returned = {}
        /\ userEvents' = Append(userEvents, [type |-> type, timestamp |-> t])
        /\ IF type \in DOMAIN map /\ t <= open.endTimestamp - 9 + window
           THEN /\ map' = Put(type, [open EXCEPT !.endTimestamp = t + 9,
                                                 !.userEvents = Append(@, e)])
                /\ UNCHANGED clustersList
           ELSE /\ map' = Put(type, Cluster(e, t))
                /\ clustersList' = IF type \in DOMAIN map
                                   THEN Append(clustersList, open)
                                   ELSE clustersList
        /\ UNCHANGED returned

(* The loop over the events. *)
cluster(type, t) ==
    LET e == Len(userEvents) + 1
        open == map[type]
    IN  /\ returned = {}
        /\ userEvents' = Append(userEvents, [type |-> type, timestamp |-> t])
        /\ IF type \in DOMAIN map /\ t <= open.startTimestamp + window
           THEN /\ map' = Put(type, [open EXCEPT !.endTimestamp = t + 9,
                                                 !.userEvents = Append(@, e)])
                /\ UNCHANGED clustersList
           ELSE /\ map' = Put(type, Cluster(e, t))
                /\ clustersList' = IF type \in DOMAIN map
                                   THEN Append(clustersList, open)
                                   ELSE clustersList
        /\ UNCHANGED returned

(* Mutated form: every cluster left is listed, as the comment there says. *)
add_restAll(type) ==
    /\ type \in DOMAIN map \ returned
    /\ clustersList' = Append(clustersList, map[type])
    /\ returned' = returned \cup {type}
    /\ UNCHANGED <<userEvents, map>>

(* The loop over map.values(), in whatever order the hash map has. *)
add_rest(type) ==
    /\ type \in DOMAIN map \ returned
    /\ clustersList' = IF Len(map[type].userEvents) # 1
                       THEN Append(clustersList, map[type])
                       ELSE clustersList
    /\ returned' = returned \cup {type}
    /\ UNCHANGED <<userEvents, map>>

ClustersNext ==
    \/ \E type \in Types, gap \in Gaps : Len(userEvents) < MaxEvents /\ cluster(type, Now + gap)
    \/ \E type \in Types : add_rest(type)

-----------------------------------------------------------------------------
(* Property. *)

Finished == userEvents # <<>> /\ returned = DOMAIN map
Listed == {clustersList[i] : i \in DOMAIN clustersList}

Members(c) == {c.userEvents[i] : i \in DOMAIN c.userEvents}
TypeOf(e) == userEvents[e].type
TimeOf(e) == userEvents[e].timestamp

(* The events of one type from e on, as far as the window of e reaches.     *)
Run(e) == {d \in e .. Len(userEvents) : TypeOf(d) = TypeOf(e) /\ TimeOf(d) <= TimeOf(e) + window}

(* No event of its type follows, and each earlier one is in a cluster whose *)
(* window is over when this one comes.                                      *)
ComesAloneLast(e) ==
    /\ \A d \in e + 1 .. Len(userEvents) : TypeOf(d) # TypeOf(e)
    /\ \A d \in 1 .. e - 1 : TypeOf(d) = TypeOf(e) =>
        \E c \in Listed : d \in Members(c) /\ TimeOf(e) > c.startTimestamp + window

(* The result, in whatever order the events of several types and their      *)
(* clusters interleave: each cluster holds, in their order, all the events  *)
(* of one type within the window of its first event, and lasts till 9 after *)
(* its last; no event is in two clusters; and the events in none are just   *)
(* those that come alone as the last of their type.  (A lone event that     *)
(* another of its type follows is a cluster.)  This is what the code does:  *)
(* the comment before its last loop keeps every cluster that has an event.  *)
ClustersAreTheRuns ==
    Finished =>
        /\ \A c \in Listed :
            LET first == c.userEvents[1]
                last == c.userEvents[Len(c.userEvents)]
            IN  /\ Members(c) = Run(first)
                /\ \A i, j \in DOMAIN c.userEvents : i < j => c.userEvents[i] < c.userEvents[j]
                /\ c.startTimestamp = TimeOf(first)
                /\ c.endTimestamp = TimeOf(last) + 9
        /\ \A i, j \in DOMAIN clustersList :
            i # j => Members(clustersList[i]) \cap Members(clustersList[j]) = {}
        /\ \A e \in DOMAIN userEvents :
            (\E c \in Listed : e \in Members(c)) <=> ~ ComesAloneLast(e)
=============================================================================
