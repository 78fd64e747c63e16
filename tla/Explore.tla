------------------------------- MODULE Explore ------------------------------
(***************************************************************************)
(* The goal cycle of the frontier exploration node (explore.cpp): pick the *)
(* cheapest frontier that is not blacklisted, send it to Nav2, blacklist   *)
(* what was aborted or made no progress, finish when nothing is left.      *)
(*                                                                         *)
(* The node has one thread, so a callback is one step; but sending a goal, *)
(* cancelling all goals and receiving a result are messages to and from    *)
(* the action server, on three different services.  They are in flight in  *)
(* requests, cancels and results while callbacks go on.                    *)
(*                                                                         *)
(* The world is a line: the robot is at pos, frontier f at Pos[f].  Before *)
(* the first plan prev_goal_ is the point (0,0,0), here no goal: no first  *)
(* frontier lies within one centimetre of the map's origin (same_point).   *)
(***************************************************************************)
EXTENDS Integers, Sequences, FiniteSets, Bags

CONSTANTS
    Frontiers,        \* the frontiers the map can ever show
    Pos, Extent,      \* where a frontier is and how many cells it has
    Close,            \* Close[f]: frontiers within goalOnBlacklist's tolerance of f
    Home,             \* the initial pose
    PotentialScale, GainScale,
    return_to_init,   \* the parameter of that name
    MaxCommands,      \* bound: messages on explore/resume
    MaxChanges,       \* bound: changes of the map
    MaxInFlight,      \* bound: goal requests under way at once
    Nav2Faults        \* which of "abort", "reject" Nav2 may do unasked

ASSUME ExploreAssumption ==
    /\ Pos \in [Frontiers -> Int] /\ Extent \in [Frontiers -> Nat \ {0}]
    /\ Close \in [Frontiers -> SUBSET Frontiers] /\ \A f \in Frontiers : f \in Close[f]
    /\ "no goal" \notin Frontiers /\ "origin" \notin Frontiers
    /\ Home \in Int /\ PotentialScale \in Nat /\ GainScale \in Nat
    /\ return_to_init \in BOOLEAN
    /\ MaxCommands \in Nat /\ MaxChanges \in Nat /\ MaxInFlight \in Nat \ {0}
    /\ Nav2Faults \subseteq {"abort", "reject"}

VARIABLES
    timer,            \* exploring_timer_: "none" until the constructor ends
    blacklist,        \* frontier_blacklist_
    prev_goal,        \* prev_goal_
    prev_distance,    \* prev_distance_
    stale,            \* now() - last_progress_ > progress_timeout_
    resuming,         \* resuming_
    status,           \* the last message on explore/status, which is latched
    requests,         \* goals sent and not yet received by Nav2
    cancels,          \* async_cancel_all_goals() calls not yet received
    results,          \* bag of the results sent by Nav2 and not yet delivered
    nav,              \* what Nav2 executes
    pos, open,        \* the robot and the frontiers on the map
    changes,          \* changes of the map so far
    commands,         \* messages on explore/resume so far
    tried             \* history: frontiers that Nav2 has got as a goal

node == <<timer, blacklist, prev_goal, prev_distance, stale, resuming, status>>
wire == <<requests, cancels, results>>
world == <<pos, open, changes>>
vars == <<node, wire, nav, world, commands, tried>>

NoGoal == "no goal"
Origin == "origin"
Targets == Frontiers \cup {Origin}
Codes == {"succeeded", "aborted", "canceled"}
Idle == [target |-> NoGoal, state |-> "idle"]

TypeOK ==
    /\ timer \in {"none", "running", "canceled"}
    /\ blacklist \subseteq Frontiers
    /\ prev_goal \in Frontiers \cup {NoGoal}
    /\ prev_distance \in Nat
    /\ stale \in BOOLEAN /\ resuming \in BOOLEAN
    /\ status \in {"started", "in_progress", "paused", "complete", "returning", "returned"}
    /\ requests \in Seq(Targets) /\ Len(requests) <= MaxInFlight
    /\ cancels \in Nat
    /\ IsABag(results) /\ DOMAIN results \subseteq [target : Targets, code : Codes]
    /\ nav \in [target : Targets, state : {"active", "canceling"}] \cup {Idle}
    /\ pos \in Int
    /\ open \subseteq Frontiers /\ changes \in 0..MaxChanges
    /\ commands \in 0..MaxCommands
    /\ tried \subseteq Frontiers

(* The node is constructed on a map that shows some frontiers.             *)
Init ==
    /\ timer = "none" /\ blacklist = {} /\ prev_goal = NoGoal /\ prev_distance = 0
    /\ stale = FALSE /\ resuming = FALSE /\ status = "started"
    /\ requests = <<>> /\ cancels = 0 /\ results = EmptyBag
    /\ nav = Idle /\ pos = Home
    /\ open \in SUBSET Frontiers /\ changes = 0
    /\ commands = 0 /\ tried = {}

-----------------------------------------------------------------------------
(* Choosing a goal                                                         *)

Abs(n) == IF n < 0 THEN -n ELSE n
Distance(f) == Abs(pos - Pos[f])

frontierCost(f) == PotentialScale * Distance(f) - GainScale * Extent[f]

goalOnBlacklist(f, listed) == \E b \in listed : f \in Close[b]
Candidates(listed) == {f \in open : ~goalOnBlacklist(f, listed)}

(* The first candidate of the list sorted by cost; std::sort leaves the    *)
(* order of equal costs open.                                              *)
Best(listed) ==
    {f \in Candidates(listed) :
        \A g \in Candidates(listed) : frontierCost(f) <= frontierCost(g)}

(* stop(true): cancel everything, then go home with a goal of its own.     *)
Finish(listed, r) ==
    /\ blacklist' = listed /\ timer' = "canceled" /\ cancels' = cancels + 1
    /\ requests' = IF return_to_init THEN Append(requests, Origin) ELSE requests
    /\ status' = IF return_to_init THEN "returning" ELSE "complete"
    /\ resuming' = r
    /\ UNCHANGED <<prev_goal, prev_distance, stale>>

(* Frontier f becomes the previous goal; a new goal, or getting closer to  *)
(* the old one, is progress.                                               *)
Follow(f, listed, t, s) ==
    /\ blacklist' = listed /\ timer' = t /\ status' = s
    /\ prev_goal' = f
    /\ IF f # prev_goal \/ prev_distance > Distance(f)
       THEN stale' = FALSE /\ prev_distance' = Distance(f)
       ELSE UNCHANGED <<stale, prev_distance>>
    /\ UNCHANGED cancels

(* Variants: the goal is sent again although the node is pursuing it; the  *)
(* mark of a resumption is not cleared.                                    *)
PursueAgain(f, listed, t, s, r) ==
    /\ Follow(f, listed, t, s)
    /\ resuming' = FALSE /\ requests' = Append(requests, f)

PursueResuming(f, listed, t, s, r) ==
    /\ Follow(f, listed, t, s)
    /\ resuming' = r
    /\ requests' = IF f = prev_goal THEN requests ELSE Append(requests, f)

(* Follow frontier f: a goal is sent only if f is not the previous goal.   *)
Pursue(f, listed, t, s, r) ==
    /\ Follow(f, listed, t, s)
    /\ resuming' = FALSE
    /\ requests' = IF f = prev_goal THEN requests ELSE Append(requests, f)

NoProgress(f, r) ==
    /\ f = prev_goal /\ prev_distance <= Distance(f)
    /\ stale /\ ~r

(* makePlan() with resuming_ = r; t and s are the timer and the status it  *)
(* leaves unless it finishes.  A best frontier without progress is         *)
(* blacklisted and makePlan() called again: the next one is another        *)
(* frontier, so that the second call never times out.                      *)
makePlan(t, s, r) ==
    \/ Candidates(blacklist) = {} /\ Finish(blacklist, r)
    \/ \E f \in Best(blacklist) :
         \/ ~NoProgress(f, r) /\ Pursue(f, blacklist, t, s, r)
         \/ /\ NoProgress(f, r)
            /\ LET listed == blacklist \cup {f}
               IN \/ Candidates(listed) = {} /\ Finish(listed, r)
                  \/ \E g \in Best(listed) : Pursue(g, listed, t, s, r)

-----------------------------------------------------------------------------
(* The node's callbacks                                                    *)

Quiet == requests = <<>> /\ cancels = 0 /\ results = EmptyBag
Room == Len(requests) < MaxInFlight
Others == <<nav, world, tried>>

(* The constructor ends with a first plan, before any callback runs.       *)
Start ==
    /\ timer = "none" /\ makePlan("running", status, FALSE)
    /\ UNCHANGED <<results, Others, commands>>

exploring_timer ==
    /\ timer = "running" /\ Room /\ makePlan("running", status, resuming)
    /\ UNCHANGED <<results, Others, commands>>

(* stop() on explore/resume False.                                         *)
Stop ==
    /\ timer # "none" /\ commands < MaxCommands
    /\ commands' = commands + 1
    /\ status' = "paused" /\ timer' = "canceled" /\ cancels' = cancels + 1
    /\ UNCHANGED <<blacklist, prev_goal, prev_distance, stale, resuming, requests, results,
                   Others>>

(* resume() on explore/resume True.                                        *)
Resume ==
    /\ timer # "none" /\ commands < MaxCommands /\ Room
    /\ commands' = commands + 1
    /\ makePlan("running", "in_progress", TRUE)
    /\ UNCHANGED <<results, Others>>

(* A canceled goal changes nothing; any other one that is not aborted      *)
(* makes the node plan, with the planning timer as it is.                  *)
NotAborted(code) ==
    \/ code = "canceled" /\ UNCHANGED <<node, requests, cancels>>
    \/ code = "succeeded" /\ Room /\ makePlan(timer, status, resuming)

Aborted(f) ==
    /\ blacklist' = blacklist \cup {f}
    /\ UNCHANGED <<timer, prev_goal, prev_distance, stale, resuming, status, requests, cancels>>

(* Variant: an aborted goal blacklists the frontier now pursued.           *)
reachedGoalBlamesCurrent(f, code) ==
    \/ code = "aborted" /\ Aborted(prev_goal)
    \/ NotAborted(code)

(* The result callback of a frontier's goal.                               *)
reachedGoal(f, code) ==
    \/ code = "aborted" /\ Aborted(f)
    \/ NotAborted(code)

(* The result callback of the goal that returns to the initial pose.       *)
Returned(code) ==
    /\ status' = IF code = "succeeded" THEN "returned" ELSE status
    /\ UNCHANGED <<timer, blacklist, prev_goal, prev_distance, stale, resuming, requests, cancels>>

(* Results of different goals come from different requests: any order.     *)
DeliverOne(result) ==
    /\ BagIn(result, results)
    /\ results' = results (-) SetToBag({result})
    /\ IF result.target = Origin THEN Returned(result.code)
       ELSE reachedGoal(result.target, result.code)
    /\ UNCHANGED <<Others, commands>>

Deliver == \E result \in DOMAIN results : DeliverOne(result)

(* progress_timeout_ seconds without progress; messages are faster.        *)
TimePasses ==
    /\ timer = "running" /\ ~stale /\ Quiet
    /\ stale' = TRUE
    /\ UNCHANGED <<timer, blacklist, prev_goal, prev_distance, resuming, status, wire, nav, world,
                   commands, tried>>

-----------------------------------------------------------------------------
(* Nav2 and the map                                                        *)

Place(target) == IF target = Origin THEN Home ELSE Pos[target]

Answered(code) == results (+) SetToBag({[target |-> nav.target, code |-> code]})

(* A new goal aborts the one under way, unless it is rejected: then the    *)
(* node hears nothing, as it has no goal response callback.                *)
AcceptGoal ==
    /\ requests # <<>>
    /\ requests' = Tail(requests)
    /\ \/ /\ nav' = [target |-> Head(requests), state |-> "active"]
          /\ results' = IF nav = Idle THEN results ELSE Answered("aborted")
       \/ "reject" \in Nav2Faults /\ UNCHANGED <<nav, results>>
    /\ tried' = tried \cup ({Head(requests)} \cap Frontiers)
    /\ UNCHANGED <<node, cancels, world, commands>>

AcceptCancel ==
    /\ cancels > 0
    /\ cancels' = cancels - 1
    /\ nav' = IF nav = Idle THEN nav ELSE [nav EXCEPT !.state = "canceling"]
    /\ UNCHANGED <<node, requests, results, world, commands, tried>>

NavEnds ==
    /\ \E code \in Codes :
         /\ \/ code = "succeeded" /\ nav # Idle /\ pos = Place(nav.target)
            \/ code = "canceled" /\ nav.state = "canceling"
            \/ code = "aborted" /\ nav.state = "active" /\ "abort" \in Nav2Faults
         /\ results' = Answered(code)
    /\ nav' = Idle
    /\ UNCHANGED <<node, requests, cancels, world, commands, tried>>

(* Driving from one place to the next takes longer than a goal request.    *)
Drive ==
    /\ requests = <<>>
    /\ nav.state = "active" /\ pos # Place(nav.target)
    /\ pos' = IF pos < Place(nav.target) THEN pos + 1 ELSE pos - 1
    /\ UNCHANGED <<node, wire, nav, open, changes, commands, tried>>

(* The map closes a frontier or shows one.                                 *)
MapChanges ==
    /\ timer # "none" /\ changes < MaxChanges
    /\ changes' = changes + 1
    /\ \E f \in Frontiers : open' = (open \ {f}) \cup ({f} \ open)
    /\ UNCHANGED <<node, wire, nav, pos, commands, tried>>

Node == Start \/ exploring_timer \/ Stop \/ Resume \/ Deliver \/ TimePasses
Nav2 == AcceptGoal \/ AcceptCancel \/ NavEnds \/ Drive
Next == Node \/ Nav2 \/ MapChanges

Spec == Init /\ [][Next]_vars

(* The executor spins, no result waits for ever, time passes, Nav2 takes   *)
(* requests and ends what it executes.  Nobody has to stop or resume and   *)
(* no frontier has to appear or close.                                     *)
Fairness ==
    /\ WF_vars(Start) /\ WF_vars(exploring_timer) /\ WF_vars(TimePasses)
    /\ \A t \in Targets, c \in Codes : WF_vars(DeliverOne([target |-> t, code |-> c]))
    /\ WF_vars(AcceptGoal) /\ WF_vars(AcceptCancel) /\ WF_vars(NavEnds) /\ WF_vars(Drive)

FairSpec == Spec /\ Fairness

-----------------------------------------------------------------------------
(* A frontier is given up only after it had been put to Nav2 as a goal:    *)
(* neither a late abort nor the progress timeout (reachedGoal, makePlan)   *)
(* blacklists one that the robot was never sent to.                        *)
TriedBeforeGivenUp == blacklist \subseteq tried

(* Exploration comes to an end though frontiers may stay on the map, every *)
(* goal may be aborted or rejected: the planning timer does not tick for   *)
(* ever.                                                                   *)
ExplorationEnds == timer = "running" ~> timer = "canceled"

(* A node that has stopped planning and is not resumed leaves the robot at *)
(* rest for good in the end: the late results that make it plan again      *)
(* (reachedGoal) do not keep it sending goals for ever.                    *)
RestsForGood == <>[](timer = "canceled") => <>[](nav = Idle /\ requests = <<>>)

(* m-explore-ros2/README.md:64 of a False on explore/resume: "This will    *)
(* stop the exploration and the robot will stop moving".  A node that      *)
(* stays paused sends the robot nowhere.  The code does not keep this: a   *)
(* goal that succeeds as the pause is commanded makes reachedGoal plan,    *)
(* and makePlan does not ask whether the node is paused.                   *)
PausedSendsNoGoal ==
    [][status = "paused" /\ status' = "paused" => Len(requests') <= Len(requests)]_vars

=============================================================================
