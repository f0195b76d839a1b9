----------------------------- MODULE StandaloneInv -----------------------------
(***************************************************************************)
(* What the properties of the game and of the task clusters rest on: one    *)
(* inductive invariant for each of the two programs.                        *)
(***************************************************************************)
EXTENDS TicTacToe, ClusterManager

-----------------------------------------------------------------------------
(* The game. *)

Cells == {0, O, X}
Statuses == {0, Active, O, X, Draw}
Open(status) == status \in {0, Active}

GameTypeOK ==
    /\ mBoard \in [Rows \X Rows -> Cells]
    /\ mMacroboard \in [Squares -> Statuses]
    /\ turn \in {0, 1}
    /\ moves \in Seq(Rows \X Rows)

(* MacroIsTrue, from the empty boards on.                                   *)
StatusesAreTrue ==
    \A b \in Squares :
        /\ Open(mMacroboard[b]) <=> b \in Undecided
        /\ \A player \in {O, X} : mMacroboard[b] = player <=> Won(player, b)

GameInvariant == GameTypeOK /\ StatusesAreTrue /\ SentWhereTheRulesSay

-----------------------------------------------------------------------------
(* The task clusters. *)

Event == [type : Types, timestamp : Nat]
Clusters == [userEvents : Seq(Nat \ {0}), startTimestamp : Nat, endTimestamp : Nat]
TypeIn(events, c) == events[c.userEvents[1]].type

RunIn(events, e) ==
    {d \in e .. Len(events) : /\ events[d].type = events[e].type
                              /\ events[d].timestamp <= events[e].timestamp + window}

(* What a cluster, open or listed, is among the events read so far.         *)
IsRun(events, c) ==
    /\ c \in Clusters
    /\ c.userEvents # <<>> /\ c.userEvents[1] \in DOMAIN events
    /\ Members(c) = RunIn(events, c.userEvents[1])
    /\ \A i, j \in DOMAIN c.userEvents : i < j => c.userEvents[i] < c.userEvents[j]
    /\ c.startTimestamp = events[c.userEvents[1]].timestamp
    /\ c.endTimestamp = events[c.userEvents[Len(c.userEvents)]].timestamp + 9

EventsTypeOK ==
    /\ userEvents \in Seq(Event)
    /\ DOMAIN map \subseteq Types
    /\ clustersList \in Seq(Clusters)
    /\ returned \subseteq DOMAIN map
    /\ \A d, e \in DOMAIN userEvents : d <= e => TimeOf(d) <= TimeOf(e)

(* The open cluster of a type has all its events from its first one on.     *)
OpenIsLast ==
    \A type \in DOMAIN map :
        /\ IsRun(userEvents, map[type])
        /\ TypeIn(userEvents, map[type]) = type
        /\ \A d \in DOMAIN userEvents :
            (TypeOf(d) = type /\ d >= map[type].userEvents[1]) => d \in Members(map[type])

(* A listed cluster is a window older than the open one of its type, unless *)
(* the last loop has just listed that one, which then has several events.   *)
ListedIsOlder ==
    \A i \in DOMAIN clustersList :
        LET c == clustersList[i]
            type == TypeIn(userEvents, c)
        IN  /\ IsRun(userEvents, c)
            /\ type \in DOMAIN map
            /\ \/ map[type].startTimestamp > c.startTimestamp + window
               \/ type \in returned /\ c = map[type] /\ Len(c.userEvents) # 1

(* Listed clusters of one type begin more than a window apart.              *)
ListedApart ==
    \A i, j \in DOMAIN clustersList :
        (i < j /\ TypeIn(userEvents, clustersList[i]) = TypeIn(userEvents, clustersList[j]))
            => clustersList[j].startTimestamp > clustersList[i].startTimestamp + window

NoneIsLost ==
    /\ \A e \in DOMAIN userEvents :
        /\ TypeOf(e) \in DOMAIN map
        /\ \/ e \in Members(map[TypeOf(e)])
           \/ \E c \in Listed : e \in Members(c)
    /\ \A type \in returned : Len(map[type].userEvents) = 1 \/ map[type] \in Listed

ClustersInvariant ==
    EventsTypeOK /\ OpenIsLast /\ ListedIsOlder /\ ListedApart /\ NoneIsLost
=============================================================================
