---------------------------- MODULE ExploreProofs ---------------------------
(***************************************************************************)
(* What holds of the exploration for every map, cost and command: of its   *)
(* goal cycle (Explore) first, then of its copy of the map (CostmapClient),*)
(* then of the search for frontiers on that copy (FrontierSearch).         *)
(*                                                                         *)
(* A frontier is blacklisted for one of two reasons.  An aborted goal was  *)
(* received by Nav2 (Heard).  A goal without progress was sent when it     *)
(* became the previous goal (Sent), and by the time the progress timeout   *)
(* has passed it has arrived (Received).  No callback runs before the      *)
(* constructor's plan (Constructed).                                       *)
(***************************************************************************)
EXTENDS Explore, FrontierSearch, SequenceTheorems, FiniteSetTheorems, TLAPS

Elements(s) == {s[i] : i \in 1 .. Len(s)}

Heard ==
    /\ \A result \in DOMAIN results : result.target \in Frontiers => result.target \in tried
    /\ nav.target \in Frontiers => nav.target \in tried
Sent == prev_goal \in Frontiers => prev_goal \in tried \cup Elements(requests)
Received == stale /\ prev_goal \in Frontiers => prev_goal \in tried
Constructed ==
    timer = "none" => requests = <<>> /\ DOMAIN results = {} /\ nav = Idle

Inv == TypeOK /\ Heard /\ Sent /\ Received /\ Constructed /\ TriedBeforeGivenUp

-----------------------------------------------------------------------------
(***************************************************************************)
(* Sequences, bags and distances.                                          *)
(***************************************************************************)

LEMMA Bounds ==
    /\ MaxCommands \in Nat /\ MaxChanges \in Nat /\ MaxInFlight \in Nat /\ MaxInFlight # 0
    /\ Home \in Int /\ Pos \in [Frontiers -> Int]
    /\ NoGoal \notin Frontiers /\ Origin \notin Frontiers
BY ExploreAssumption DEF NoGoal, Origin

LEMMA Appended ==
    ASSUME NEW S, NEW s \in Seq(S), NEW x \in S
    PROVE  /\ Append(s, x) \in Seq(S) /\ Len(Append(s, x)) = Len(s) + 1
           /\ Elements(Append(s, x)) = Elements(s) \cup {x}
<1>1. Append(s, x) \in Seq(S) /\ Len(Append(s, x)) = Len(s) + 1 /\ Len(s) \in Nat
  OBVIOUS
<1>2. \A i \in 1 .. Len(s) : Append(s, x)[i] = s[i]
  OBVIOUS
<1>3. Append(s, x)[Len(s) + 1] = x
  OBVIOUS
<1>4. 1 .. Len(s) + 1 = (1 .. Len(s)) \cup {Len(s) + 1}
  BY <1>1
<1> QED
  BY <1>1, <1>2, <1>3, <1>4 DEF Elements

LEMMA HeadTail ==
    ASSUME NEW S, NEW s \in Seq(S), s # <<>>
    PROVE  /\ Head(s) \in S /\ Tail(s) \in Seq(S) /\ Len(Tail(s)) = Len(s) - 1
           /\ Elements(s) \subseteq Elements(Tail(s)) \cup {Head(s)}
<1>1. /\ Head(s) \in S /\ Tail(s) \in Seq(S) /\ Len(Tail(s)) = Len(s) - 1
      /\ Len(s) \in Nat \ {0} /\ Head(s) = s[1]
  OBVIOUS
<1>2. ASSUME NEW i \in 1 .. Len(s)
      PROVE  s[i] \in Elements(Tail(s)) \cup {Head(s)}
  <2>1. CASE i = 1
    BY <1>1, <2>1
  <2>2. CASE i # 1
    <3>1. i - 1 \in 1 .. Len(Tail(s)) /\ Tail(s)[i - 1] = s[i]
      BY <1>1, <2>2
    <3> QED
      BY <3>1 DEF Elements
  <2> QED
    BY <2>1, <2>2
<1> QED
  BY <1>1, <1>2 DEF Elements

LEMMA Added ==
    ASSUME NEW x, IsABag(results)
    PROVE  /\ IsABag(results (+) SetToBag({x}))
           /\ DOMAIN (results (+) SetToBag({x})) = DOMAIN results \cup {x}
BY DEF IsABag, (+), SetToBag

LEMMA Removed ==
    ASSUME NEW x, IsABag(results)
    PROVE  /\ IsABag(results (-) SetToBag({x}))
           /\ DOMAIN (results (-) SetToBag({x})) \subseteq DOMAIN results
<1> DEFINE B == [e \in DOMAIN results |->
                   IF e \in DOMAIN SetToBag({x}) THEN results[e] - SetToBag({x})[e] ELSE results[e]]
<1>1. DOMAIN SetToBag({x}) = {x} /\ SetToBag({x})[x] = 1
  BY DEF SetToBag
<1>2. \A e \in DOMAIN results : results[e] \in Nat
  BY DEF IsABag
<1>3. DOMAIN B = DOMAIN results
  OBVIOUS
<1>4. \A e \in DOMAIN B : B[e] \in Int
  BY <1>1, <1>2
<1>5. results (-) SetToBag({x}) = [e \in {d \in DOMAIN B : B[d] > 0} |-> B[e]]
  BY DEF (-)
<1> HIDE DEF B
<1> QED
  BY <1>3, <1>4, <1>5 DEF IsABag

LEMMA DistanceTyped == ASSUME TypeOK, NEW f \in Frontiers PROVE Distance(f) \in Nat
<1>1. pos \in Int /\ Pos[f] \in Int
  BY Bounds DEF TypeOK
<1> QED
  BY <1>1 DEF Distance, Abs

-----------------------------------------------------------------------------
(***************************************************************************)
(* Making a plan.                                                          *)
(***************************************************************************)

Timers == {"none", "running", "canceled"}
Statuses == {"started", "in_progress", "paused", "complete", "returning", "returned"}

(* What a plan does to the node and to the messages it sends.              *)
Planned ==
    /\ timer' \in Timers /\ status' \in Statuses
    /\ blacklist' \subseteq Frontiers /\ blacklist' \subseteq tried
    /\ prev_goal' \in Frontiers \cup {NoGoal} /\ prev_distance' \in Nat
    /\ stale' \in BOOLEAN /\ resuming' \in BOOLEAN
    /\ requests' \in Seq(Targets) /\ Len(requests') <= MaxInFlight
    /\ cancels' \in Nat
    /\ prev_goal' \in Frontiers => prev_goal' \in tried \cup Elements(requests')
    /\ stale' /\ prev_goal' \in Frontiers => prev_goal' \in tried

LEMMA FinishPlans ==
    ASSUME Inv, Room, NEW listed \in SUBSET Frontiers, listed \subseteq tried,
           NEW r \in BOOLEAN, Finish(listed, r)
    PROVE  Planned /\ timer' = "canceled"
<1>1. requests \in Seq(Targets) /\ Len(requests) \in Nat /\ Len(requests) + 1 <= MaxInFlight
  BY Bounds DEF Inv, TypeOK, Room
<1>2. Origin \in Targets
  BY DEF Targets
<1>3. /\ requests' \in Seq(Targets) /\ Len(requests') <= MaxInFlight
      /\ Elements(requests) \subseteq Elements(requests')
  <2>1. CASE return_to_init
    BY <1>1, <1>2, <2>1, Appended DEF Finish
  <2>2. CASE ~return_to_init
    BY <1>1, <2>2, Bounds DEF Finish
  <2> QED
    BY <2>1, <2>2
<1>4. timer' \in Timers /\ status' \in Statuses /\ cancels' \in Nat
  BY DEF Finish, Timers, Statuses, Inv, TypeOK
<1> QED
  BY <1>3, <1>4 DEF Planned, Finish, Inv, TypeOK, Sent, Received

LEMMA PursuePlans ==
    ASSUME Inv, Room, NEW listed \in SUBSET Frontiers, listed \subseteq tried,
           NEW f \in Frontiers, NEW t \in Timers, NEW s \in Statuses, NEW r \in BOOLEAN,
           Pursue(f, listed, t, s, r)
    PROVE  Planned /\ timer' = t
<1>1. requests \in Seq(Targets) /\ Len(requests) \in Nat /\ Len(requests) + 1 <= MaxInFlight
  BY Bounds DEF Inv, TypeOK, Room
<1>2. f \in Targets
  BY DEF Targets
<1>3. /\ requests' \in Seq(Targets) /\ Len(requests') <= MaxInFlight
      /\ f \in tried \cup Elements(requests')
  <2>1. CASE f = prev_goal
    <3>1. requests' = requests
      BY <2>1 DEF Pursue
    <3> QED
      BY <1>1, <2>1, <3>1, Bounds DEF Inv, Sent
  <2>2. CASE f # prev_goal
    BY <1>1, <1>2, <2>2, Appended DEF Pursue
  <2> QED
    BY <2>1, <2>2
<1>4. /\ prev_goal' = f /\ timer' = t /\ status' = s /\ blacklist' = listed
      /\ cancels' = cancels /\ resuming' = FALSE
  BY DEF Pursue, Follow
<1>5. /\ prev_distance' \in Nat
      /\ stale' \in BOOLEAN
      /\ stale' => f \in tried
  <2>1. CASE f # prev_goal \/ prev_distance > Distance(f)
    BY <2>1, DistanceTyped DEF Pursue, Follow, Inv
  <2>2. CASE ~(f # prev_goal \/ prev_distance > Distance(f))
    BY <2>2 DEF Pursue, Follow, Inv, TypeOK, Received
  <2> QED
    BY <2>1, <2>2
<1> QED
  BY <1>3, <1>4, <1>5 DEF Planned, Inv, TypeOK

LEMMA MakePlanPlans ==
    ASSUME Inv, Room, NEW t \in Timers, NEW s \in Statuses, NEW r \in BOOLEAN, makePlan(t, s, r)
    PROVE  Planned /\ timer' \in {t, "canceled"}
<1>1. blacklist \in SUBSET Frontiers /\ blacklist \subseteq tried
  BY DEF Inv, TypeOK, TriedBeforeGivenUp
<1>2. \A listed : Best(listed) \subseteq Frontiers
  BY DEF Best, Candidates, Inv, TypeOK
<1>3. CASE Finish(blacklist, r)
  BY <1>1, <1>3, FinishPlans
<1>4. CASE \E f \in Best(blacklist) : ~NoProgress(f, r) /\ Pursue(f, blacklist, t, s, r)
  BY <1>1, <1>2, <1>4, PursuePlans
<1>5. ASSUME NEW f \in Best(blacklist), NoProgress(f, r),
             \/ Finish(blacklist \cup {f}, r)
             \/ \E g \in Best(blacklist \cup {f}) : Pursue(g, blacklist \cup {f}, t, s, r)
      PROVE  Planned /\ timer' \in {t, "canceled"}
  <2>1. f \in Frontiers /\ f \in tried
    BY <1>2, <1>5 DEF NoProgress, Inv, Received
  <2>2. blacklist \cup {f} \in SUBSET Frontiers /\ blacklist \cup {f} \subseteq tried
    BY <1>1, <2>1
  <2> QED
    BY <1>2, <1>5, <2>2, FinishPlans, PursuePlans
<1> QED
  BY <1>3, <1>4, <1>5 DEF makePlan

-----------------------------------------------------------------------------
(***************************************************************************)
(* One lemma for each party's steps.                                       *)
(***************************************************************************)

LEMMA InitInv == Init => Inv
<1> SUFFICES ASSUME Init PROVE Inv
  OBVIOUS
<1>1. requests \in Seq(Targets) /\ Len(requests) = 0
  BY DEF Init
<1>2. IsABag(results) /\ DOMAIN results = {}
  BY DEF Init, EmptyBag, SetToBag, IsABag
<1>3. TypeOK
  <2>1. /\ pos \in Int /\ changes \in 0 .. MaxChanges /\ commands \in 0 .. MaxCommands
        /\ Len(requests) <= MaxInFlight /\ open \subseteq Frontiers
        /\ cancels \in Nat /\ prev_distance \in Nat
    BY <1>1, Bounds DEF Init
  <2>2. DOMAIN results \subseteq [target : Targets, code : Codes]
    BY <1>2
  <2> QED
    BY <1>1, <1>2, <2>1, <2>2 DEF Init, TypeOK
<1>4. Heard /\ Sent /\ Received /\ Constructed /\ TriedBeforeGivenUp
  BY <1>2, Bounds
     DEF Init, Heard, Sent, Received, Constructed, TriedBeforeGivenUp, Idle, NoGoal
<1> QED
  BY <1>3, <1>4 DEF Inv

(* A plan keeps the invariant, when Nav2 and the world stand still and no  *)
(* result is new.                                                          *)
LEMMA PlanKeeps ==
    ASSUME Inv, Planned, UNCHANGED Others, commands' \in 0 .. MaxCommands,
           IsABag(results'), DOMAIN results' \subseteq DOMAIN results, timer' # "none"
    PROVE  Inv'
<1>1. TypeOK'
  BY DEF Inv, TypeOK, Planned, Others, world, Timers, Statuses
<1>2. Heard' /\ Sent' /\ Received' /\ Constructed' /\ TriedBeforeGivenUp'
  BY DEF Inv, Heard, Sent, Received, Constructed, TriedBeforeGivenUp, Planned, Others, world
<1> QED
  BY <1>1, <1>2 DEF Inv

LEMMA DeliverKeeps == Inv /\ Deliver => Inv'
<1> SUFFICES ASSUME Inv, NEW result \in DOMAIN results, DeliverOne(result) PROVE Inv'
  BY DEF Deliver
<1>1. TypeOK /\ timer # "none" /\ timer \in Timers /\ status \in Statuses /\ resuming \in BOOLEAN
  BY DEF Inv, TypeOK, Constructed, Timers, Statuses
<1>2. /\ IsABag(results') /\ DOMAIN results' \subseteq DOMAIN results
      /\ UNCHANGED Others /\ commands' \in 0 .. MaxCommands
  BY <1>1, Removed DEF DeliverOne, TypeOK
<1>3. /\ result.target \in Targets /\ result.code \in Codes
      /\ result.target \in Frontiers => result.target \in tried
  BY <1>1 DEF TypeOK, Inv, Heard
<1>4. CASE Returned(result.code)
  BY <1>1, <1>2, <1>4, PlanKeeps
     DEF Returned, Planned, Timers, Statuses, Inv, TypeOK, Sent, Received, TriedBeforeGivenUp
<1>5. CASE result.target \in Frontiers /\ Aborted(result.target)
  BY <1>1, <1>2, <1>3, <1>5, PlanKeeps
     DEF Aborted, Planned, Timers, Statuses, Inv, TypeOK, Sent, Received, TriedBeforeGivenUp
<1>6. CASE UNCHANGED <<node, requests, cancels>>
  BY <1>1, <1>2, <1>6, PlanKeeps
     DEF node, Planned, Timers, Statuses, Inv, TypeOK, Sent, Received, TriedBeforeGivenUp
<1>7. CASE Room /\ makePlan(timer, status, resuming)
  BY <1>1, <1>2, <1>7, MakePlanPlans, PlanKeeps
<1> QED
  BY <1>3, <1>4, <1>5, <1>6, <1>7 DEF DeliverOne, reachedGoal, NotAborted, Targets

LEMMA NodeKeeps == Inv /\ Node => Inv'
<1> SUFFICES ASSUME Inv, Node PROVE Inv'
  OBVIOUS
<1>1. TypeOK /\ timer \in Timers /\ status \in Statuses /\ resuming \in BOOLEAN
      /\ IsABag(results) /\ commands \in 0 .. MaxCommands
  BY DEF Inv, TypeOK, Timers, Statuses
<1>2. "running" \in Timers /\ "in_progress" \in Statuses
  BY DEF Timers, Statuses
<1>3. CASE Start
  <2>1. Room
    BY <1>3, Bounds DEF Start, Room, Inv, Constructed
  <2> QED
    BY <1>1, <1>2, <1>3, <2>1, MakePlanPlans, PlanKeeps DEF Start
<1>4. CASE exploring_timer
  BY <1>1, <1>2, <1>4, MakePlanPlans, PlanKeeps DEF exploring_timer
<1>5. CASE Resume
  <2>1. commands' \in 0 .. MaxCommands
    BY <1>1, <1>5, Bounds DEF Resume
  <2> QED
    BY <1>1, <1>2, <1>5, <2>1, MakePlanPlans, PlanKeeps DEF Resume
<1>6. CASE Stop
  <2>1. commands' \in 0 .. MaxCommands /\ cancels' \in Nat
    BY <1>1, <1>6, Bounds DEF Stop, TypeOK
  <2> QED
    BY <1>1, <1>6, <2>1, PlanKeeps
       DEF Stop, Planned, Timers, Statuses, Inv, TypeOK, Sent, Received, TriedBeforeGivenUp
<1>7. CASE TimePasses
  <2>1. Elements(requests) = {}
    BY <1>7 DEF TimePasses, Quiet, Elements
  <2> QED
    BY <1>1, <1>7, <2>1, PlanKeeps
       DEF TimePasses, wire, world, Others, Planned, Timers, Statuses, Inv, TypeOK, Sent, Received,
           TriedBeforeGivenUp
<1> QED
  BY <1>3, <1>4, <1>5, <1>6, <1>7, DeliverKeeps DEF Node

LEMMA Nav2Keeps == Inv /\ Nav2 => Inv'
<1> SUFFICES ASSUME Inv, Nav2 PROVE Inv'
  OBVIOUS
<1>1. TypeOK
  BY DEF Inv
<1>2. CASE AcceptGoal
  <2>1. /\ Head(requests) \in Targets /\ requests' \in Seq(Targets)
        /\ Len(requests') <= MaxInFlight
        /\ Elements(requests) \subseteq Elements(requests') \cup {Head(requests)}
    BY <1>1, <1>2, HeadTail, Bounds DEF AcceptGoal, TypeOK
  <2>2. nav' = [target |-> Head(requests), state |-> "active"] \/ nav' = nav
    BY <1>2 DEF AcceptGoal
  <2>3. /\ IsABag(results')
        /\ \A result \in DOMAIN results' :
              \/ result \in DOMAIN results
              \/ nav # Idle /\ result = [target |-> nav.target, code |-> "aborted"]
    <3>1. IsABag(results)
      BY <1>1 DEF TypeOK
    <3>2. \/ results' = results
          \/ nav # Idle /\ results' = Answered("aborted")
      BY <1>2 DEF AcceptGoal
    <3>3. CASE nav # Idle /\ results' = Answered("aborted")
      <4>1. results' = results (+) SetToBag({[target |-> nav.target, code |-> "aborted"]})
        BY <3>3 DEF Answered
      <4>2. /\ IsABag(results')
            /\ DOMAIN results' = DOMAIN results \cup {[target |-> nav.target, code |-> "aborted"]}
        BY <3>1, <4>1, Added
      <4> QED
        BY <3>3, <4>2
    <3>4. CASE results' = results
      BY <3>1, <3>4
    <3> QED
      BY <3>2, <3>3, <3>4
  <2>4. nav # Idle => nav.target \in Targets
    BY <1>1 DEF TypeOK
  <2>5. TypeOK'
    <3>1. DOMAIN results' \subseteq [target : Targets, code : Codes]
      <4>1. "aborted" \in Codes /\ DOMAIN results \subseteq [target : Targets, code : Codes]
        BY <1>1 DEF TypeOK, Codes
      <4>2. nav # Idle => [target |-> nav.target, code |-> "aborted"] \in [target : Targets, code : Codes]
        BY <2>4, <4>1
      <4> QED
        BY <2>3, <4>1, <4>2
    <3>2. nav' \in [target : Targets, state : {"active", "canceling"}] \cup {Idle}
      BY <1>1, <2>1, <2>2 DEF TypeOK
    <3> QED
      BY <1>1, <1>2, <2>1, <2>3, <3>1, <3>2 DEF AcceptGoal, TypeOK, node, world
  <2>6. tried' = tried \cup ({Head(requests)} \cap Frontiers) /\ UNCHANGED node
    BY <1>2 DEF AcceptGoal
  <2>7. Heard'
    BY <2>2, <2>3, <2>6 DEF Inv, Heard
  <2>8. Sent' /\ Received' /\ TriedBeforeGivenUp'
    BY <2>1, <2>6 DEF Inv, Sent, Received, TriedBeforeGivenUp, node
  <2>9. Constructed'
    BY <1>2, <2>6 DEF Inv, Constructed, AcceptGoal, node
  <2> QED
    BY <2>5, <2>7, <2>8, <2>9 DEF Inv
<1>3. CASE AcceptCancel
  <2>1. cancels' \in Nat /\ nav' \in [target : Targets, state : {"active", "canceling"}] \cup {Idle}
        /\ nav'.target = nav.target /\ (nav = Idle => nav' = Idle)
    BY <1>1, <1>3 DEF AcceptCancel, TypeOK
  <2> QED
    BY <1>1, <1>3, <2>1
       DEF AcceptCancel, node, world, Inv, TypeOK, Heard, Sent, Received, Constructed,
           TriedBeforeGivenUp
<1>4. CASE NavEnds
  <2>1. PICK code \in Codes : /\ nav # Idle
                              /\ results' = results (+) SetToBag({[target |-> nav.target, code |-> code]})
    BY <1>4 DEF NavEnds, Answered, Idle
  <2>2. nav.target \in Targets
    BY <1>1, <2>1 DEF TypeOK
  <2>3. /\ IsABag(results')
        /\ DOMAIN results' = DOMAIN results \cup {[target |-> nav.target, code |-> code]}
    <3>1. IsABag(results)
      BY <1>1 DEF TypeOK
    <3> QED
      BY <2>1, <3>1, Added
  <2>4. DOMAIN results' \subseteq [target : Targets, code : Codes]
    BY <1>1, <2>2, <2>3 DEF TypeOK
  <2>5. TypeOK'
    BY <1>1, <1>4, <2>3, <2>4 DEF TypeOK, NavEnds, node, world
  <2>6. Heard'
    <3>1. tried' = tried /\ nav'.target \notin Frontiers
      BY <1>4, Bounds DEF NavEnds, Idle
    <3>2. \A result \in DOMAIN results' : result.target \in Frontiers => result.target \in tried
      BY <2>3 DEF Inv, Heard
    <3> QED
      BY <3>1, <3>2 DEF Heard
  <2>7. Sent' /\ Received' /\ Constructed' /\ TriedBeforeGivenUp'
    BY <1>4, <2>1 DEF Inv, NavEnds, node, Sent, Received, Constructed, TriedBeforeGivenUp
  <2> QED
    BY <2>5, <2>6, <2>7 DEF Inv
<1>5. CASE Drive
  <2>1. pos' \in Int
    BY <1>1, <1>5 DEF Drive, TypeOK
  <2> QED
    BY <1>1, <1>5, <2>1
       DEF Drive, node, wire, Inv, TypeOK, Heard, Sent, Received, Constructed, TriedBeforeGivenUp
<1> QED
  BY <1>2, <1>3, <1>4, <1>5 DEF Nav2

LEMMA Invariance == Spec => []Inv
<1>1. Inv /\ MapChanges => Inv'
  <2> SUFFICES ASSUME Inv, MapChanges PROVE Inv'
    OBVIOUS
  <2>1. open' \subseteq Frontiers /\ changes' \in 0 .. MaxChanges
    BY Bounds DEF MapChanges, Inv, TypeOK
  <2> QED
    BY <2>1 DEF MapChanges, node, wire, Inv, TypeOK, Heard, Sent, Received, Constructed,
                TriedBeforeGivenUp
<1>2. Inv /\ UNCHANGED vars => Inv'
  BY DEF vars, node, wire, world, Inv, TypeOK, Heard, Sent, Received, Constructed,
         TriedBeforeGivenUp
<1>3. Inv /\ [Next]_vars => Inv'
  BY <1>1, <1>2, NodeKeeps, Nav2Keeps DEF Next
<1> QED
  BY InitInv, <1>3, PTL DEF Spec

(* Every variable keeps its type (TypeOK), for any number of frontiers and *)
(* commands.                                                               *)
THEOREM ExplorationTyped == Spec => []TypeOK
BY Invariance, PTL DEF Inv

(* No frontier is given up that the robot was never sent to                *)
(* (TriedBeforeGivenUp), however results, goals and cancellations overtake *)
(* each other.                                                             *)
THEOREM OnlyTriedGivenUp == Spec => []TriedBeforeGivenUp
BY Invariance, PTL DEF Inv
-----------------------------------------------------------------------------
(***************************************************************************)
(* The copy of the map.                                                    *)
(*                                                                         *)
(* What will be in a cell when all messages have arrived is decided by the *)
(* last of them that covers it, or, when none does, by the copy as it is.  *)
(* That is the published value in every cell (Coming), because an update   *)
(* with no whole map behind it was cut from a map of the size the copy has *)
(* or is about to have (Fits, Sized).                                      *)
(***************************************************************************)
MapsOf(w, h) == [width : {w}, height : {h}, data : [0 .. w * h - 1 -> (-1) .. 100]]
MapsWide(w) == UNION {MapsOf(w, h) : h \in Nat}
Maps == UNION {MapsWide(w) : w \in Nat}
Messages == [full : {TRUE}, grid : Maps] \cup [full : {FALSE}, x : Nat, y : Nat, grid : Maps]

(* Message m, taken by a copy of width w, writes cell c, and writes this.  *)
Covers(w, m, c) ==
    \/ m.full
    \/ /\ c % w \in m.x .. m.x + m.grid.width - 1
       /\ c \div w \in m.y .. m.y + m.grid.height - 1
Written(w, m, c) ==
    m.grid.data[IF m.full THEN c
                ELSE (c \div w - m.y) * m.grid.width + ((c % w) - m.x)]

Fits(m, grid) ==
    IF m.full THEN m.grid.width = grid.width /\ m.grid.height = grid.height
    ELSE m.x + m.grid.width <= grid.width /\ m.y + m.grid.height <= grid.height

LastWhole(s, k) == \A j \in k + 1 .. Len(s) : ~s[j].full
LastOver(w, s, k, c) == \A j \in k + 1 .. Len(s) : ~Covers(w, s[j], c)

ClientTyped ==
    /\ subscribed \in BOOLEAN /\ missed \in BOOLEAN /\ edits \in Nat
    /\ published \in Maps /\ messages \in Seq(Messages)

Sized ==
    /\ \A k \in 1 .. Len(messages) : LastWhole(messages, k) => Fits(messages[k], published)
    /\ LastWhole(messages, 0) => costmap = [width |-> published.width, height |-> published.height,
                                  data |-> [c \in Cells(published) |-> costmap.data[c]]]

Coming ==
    \A c \in Cells(published) :
      /\ \A k \in 1 .. Len(messages) :
           Covers(published.width, messages[k], c) /\ LastOver(published.width, messages, k, c) =>
             Written(published.width, messages[k], c) = published.data[c]
      /\ LastOver(published.width, messages, 0, c) =>
           costmap.data[c] = cost_translation_table(published.data[c])

ClientInv == ClientTyped /\ (~missed => Sized /\ Coming)

-----------------------------------------------------------------------------
(***************************************************************************)
(* Rows and columns.                                                       *)
(***************************************************************************)
LEMMA DivMod ==
    ASSUME NEW n \in Nat, NEW w \in Nat \ {0}
    PROVE  n % w \in 0 .. w - 1 /\ n \div w \in Nat /\ n = (n \div w) * w + (n % w)
OBVIOUS

LEMMA RowsApart ==
    ASSUME NEW a \in Nat, NEW b \in Nat, NEW w \in Nat, a > b
    PROVE  a * w >= b * w + w
<1>1. PICK d \in Nat : a = b + 1 + d
  OBVIOUS
<1>2. a * w = b * w + w + d * w /\ d * w >= 0
  BY <1>1
<1> QED
  BY <1>2

(* The cell in row a and column b of a grid w wide is in that row and      *)
(* column, and is a cell.                                                  *)
LEMMA RowColumn ==
    ASSUME NEW a \in Nat, NEW w \in Nat \ {0}, NEW b \in 0 .. w - 1
    PROVE  /\ a * w + b \in Nat
           /\ (a * w + b) % w = b /\ (a * w + b) \div w = a
           /\ \A h \in Nat : a < h => a * w + b \in 0 .. w * h - 1
<1> DEFINE n == a * w + b
           q == n \div w
<1>1. a * w \in Nat /\ n \in Nat
  OBVIOUS
<1>2. n % w \in 0 .. w - 1 /\ q \in Nat /\ n = q * w + (n % w)
  BY <1>1, DivMod
<1>3. q * w \in Nat
  BY <1>2
<1>4. ~(a > q)
  <2>1. a > q => a * w >= q * w + w
    BY <1>2, RowsApart
  <2> QED
    BY <1>1, <1>2, <1>3, <2>1
<1>5. ~(q > a)
  <2>1. q > a => q * w >= a * w + w
    BY <1>2, RowsApart
  <2> QED
    BY <1>1, <1>2, <1>3, <2>1
<1>6. a = q
  BY <1>2, <1>4, <1>5
<1>7. ASSUME NEW h \in Nat, a < h PROVE n \in 0 .. w * h - 1
  <2>1. h * w >= a * w + w
    BY <1>7, RowsApart
  <2>2. h * w = w * h
    OBVIOUS
  <2> QED
    BY <1>1, <2>1, <2>2
<1> QED
  BY <1>1, <1>2, <1>6, <1>7

LEMMA RowOfCell ==
    ASSUME NEW w \in Nat, NEW h \in Nat, NEW n \in 0 .. w * h - 1
    PROVE  /\ w # 0 /\ n \in Nat /\ n % w \in 0 .. w - 1 /\ n \div w \in 0 .. h - 1
           /\ n = (n \div w) * w + (n % w)
<1>1. w # 0
  <2>1. w = 0 => w * h = 0
    OBVIOUS
  <2> QED
    BY <2>1
<1>2. n \in Nat /\ n % w \in 0 .. w - 1 /\ n \div w \in Nat /\ n = (n \div w) * w + (n % w)
  <2>1. n \in Nat /\ w \in Nat \ {0}
    BY <1>1
  <2> QED
    BY <2>1, DivMod, Zenon
<1>3. w * h = h * w
  OBVIOUS
<1>4. (n \div w) * w \in Nat
  BY <1>2
<1>5. n \div w < h
  <2>1. n \div w >= h => (n \div w) * w >= h * w
    <3>1. n \div w > h => (n \div w) * w >= h * w + w
      BY <1>2, RowsApart
    <3> QED
      BY <1>2, <3>1
  <2> QED
    BY <1>2, <1>3, <1>4, <2>1
<1> QED
  BY <1>1, <1>2, <1>5

LEMMA MapShape ==
    ASSUME NEW g \in Maps
    PROVE  /\ g = [width |-> g.width, height |-> g.height, data |-> g.data]
           /\ g.width \in Nat /\ g.height \in Nat
           /\ g.data \in [0 .. g.width * g.height - 1 -> (-1) .. 100]
<1>1. PICK w \in Nat : g \in MapsWide(w)
  BY DEF Maps
<1>2. PICK h \in Nat : g \in MapsOf(w, h)
  BY <1>1 DEF MapsWide
<1> QED
  BY <1>2 DEF MapsOf

LEMMA MapMade ==
    ASSUME NEW w \in Nat, NEW h \in Nat, NEW d \in [0 .. w * h - 1 -> (-1) .. 100]
    PROVE  [width |-> w, height |-> h, data |-> d] \in Maps
<1>1. [width |-> w, height |-> h, data |-> d] \in MapsOf(w, h)
  BY DEF MapsOf
<1>2. [width |-> w, height |-> h, data |-> d] \in MapsWide(w)
  BY <1>1 DEF MapsWide
<1> QED
  BY <1>2 DEF Maps

-----------------------------------------------------------------------------
(***************************************************************************)
(* The publisher's maps and rectangles are maps.                           *)
(***************************************************************************)
LEMMA Published ==
    ASSUME NEW g, IsMap(g)
    PROVE  g \in Maps
<1>1. /\ g = [width |-> g.width, height |-> g.height, data |-> g.data]
      /\ g.width \in Nat /\ g.height \in Nat
      /\ g.data \in [0 .. g.width * g.height - 1 -> (-1) .. 100]
  BY DEF IsMap, Cells
<1> QED
  BY <1>1, MapMade

(* Cell i of a rectangle of the map is a cell of the map.                  *)
LEMMA CellOfWindow ==
    ASSUME NEW W \in Nat, NEW H \in Nat, NEW x \in Nat, NEW y \in Nat, NEW w \in Nat, NEW h \in Nat,
           x + w <= W, y + h <= H, NEW i \in 0 .. w * h - 1
    PROVE  (y + i \div w) * W + (x + (i % w)) \in 0 .. W * H - 1
<1>1. w # 0 /\ i % w \in 0 .. w - 1 /\ i \div w \in 0 .. h - 1
  BY RowOfCell
<1>2. W # 0 /\ x + (i % w) \in 0 .. W - 1 /\ y + (i \div w) \in Nat /\ y + (i \div w) < H
  BY <1>1
<1> QED
  BY <1>2, RowColumn

LEMMA WindowIsMap ==
    ASSUME published' \in Maps, NEW x \in Nat, NEW y \in Nat, NEW w \in Nat, NEW h \in Nat,
           x + w <= published'.width, y + h <= published'.height
    PROVE  Window(x, y, w, h)' \in Maps
<1>1. /\ published'.width \in Nat /\ published'.height \in Nat
      /\ published'.data \in [0 .. published'.width * published'.height - 1 -> (-1) .. 100]
  BY MapShape
<1>2. ASSUME NEW i \in 0 .. w * h - 1
      PROVE  published'.data[getIndex(published', x + (i % w), y + (i \div w))] \in (-1) .. 100
  <2>1. (y + i \div w) * published'.width + (x + (i % w))
          \in 0 .. published'.width * published'.height - 1
    BY <1>1, CellOfWindow
  <2> QED
    BY <1>1, <2>1 DEF getIndex
<1>3. [i \in 0 .. w * h - 1 |->
          published'.data[getIndex(published', x + (i % w), y + (i \div w))]]
        \in [0 .. w * h - 1 -> (-1) .. 100]
  BY <1>2
<1> QED
  BY <1>3, MapMade DEF Window

-----------------------------------------------------------------------------
(***************************************************************************)
(* Messages come and go.                                                   *)
(***************************************************************************)
LEMMA Queued ==
    ASSUME NEW S, NEW s \in Seq(S), NEW x \in S
    PROVE  /\ Append(s, x) \in Seq(S) /\ Len(s) \in Nat /\ Len(Append(s, x)) = Len(s) + 1
           /\ \A k \in 1 .. Len(s) : Append(s, x)[k] = s[k] /\ s[k] \in S
           /\ Append(s, x)[Len(s) + 1] = x
OBVIOUS

LEMMA FirstTaken ==
    ASSUME NEW S, NEW s \in Seq(S), s # <<>>
    PROVE  /\ RemoveAt(s, 1) \in Seq(S) /\ Len(s) \in Nat \ {0} /\ s[1] \in S
           /\ Len(RemoveAt(s, 1)) = Len(s) - 1
           /\ \A k \in 1 .. Len(s) - 1 : RemoveAt(s, 1)[k] = s[k + 1] /\ s[k + 1] \in S
<1>1. Len(s) \in Nat \ {0} /\ \A k \in 1 .. Len(s) : s[k] \in S
  OBVIOUS
<1>2. SubSeq(s, 1, 0) = <<>>
  BY SubSeqEmpty
<1>3. RemoveAt(s, 1) = <<>> \o SubSeq(s, 2, Len(s))
  BY <1>2 DEF RemoveAt
<1>4. Tail(s) = SubSeq(s, 2, Len(s)) /\ Tail(s) \in Seq(S)
  BY TailIsSubSeq, HeadTailProperties
<1>5. RemoveAt(s, 1) = Tail(s)
  BY <1>3, <1>4, ConcatEmptySeq, Zenon
<1> QED
  BY <1>1, <1>4, <1>5

-----------------------------------------------------------------------------
LEMMA ClientInvInit == ClientInit => ClientInv
<1> SUFFICES ASSUME ClientInit PROVE ClientInv
  OBVIOUS
<1>1. IsMap(published) /\ edits \in Nat
  BY GridAssumption DEF ClientInit
<1>2. published \in Maps
  BY <1>1, Published
<1> DEFINE m == [full |-> TRUE, grid |-> published]
<1>3. m \in Messages /\ m.full /\ m.grid = published
  BY <1>2 DEF Messages
<1> HIDE DEF m
<1>4. messages = <<m>>
  BY DEF ClientInit, m
<1>5. messages \in Seq(Messages) /\ Len(messages) = 1 /\ messages[1] = m
  BY <1>3, <1>4
<1>6. ClientTyped
  BY <1>1, <1>2, <1>5 DEF ClientInit, ClientTyped
<1>7. Sized
  BY <1>3, <1>5 DEF Sized, Fits, LastWhole
<1>8. Coming
  BY <1>3, <1>5 DEF Coming, Covers, Written, LastOver
<1> QED
  BY <1>6, <1>7, <1>8 DEF ClientInv

(* A whole map covers every cell.                                          *)
LEMMA WholeSent ==
    ASSUME ClientTyped, published' \in Maps, NEW m, m = [full |-> TRUE, grid |-> published'],
           messages' = Append(messages, m)
    PROVE  messages' \in Seq(Messages) /\ Sized' /\ Coming'
<1>1. m \in Messages /\ m.full /\ m.grid = published'
  BY DEF Messages
<1>2. /\ messages' \in Seq(Messages) /\ Len(messages) \in Nat
      /\ Len(messages') = Len(messages) + 1 /\ messages'[Len(messages) + 1] = m
  BY <1>1, Queued DEF ClientTyped
<1>3. ~LastWhole(messages', 0)
  BY <1>1, <1>2 DEF LastWhole
<1>4. ASSUME NEW k \in 1 .. Len(messages'), LastWhole(messages', k)
      PROVE  k = Len(messages) + 1
  BY <1>1, <1>2, <1>4 DEF LastWhole
<1>5. Sized'
  BY <1>1, <1>2, <1>3, <1>4 DEF Sized, Fits
<1>6. ASSUME NEW c \in Cells(published')
      PROVE  /\ ~LastOver(published'.width, messages', 0, c)
             /\ \A k \in 1 .. Len(messages') :
                  LastOver(published'.width, messages', k, c) => k = Len(messages) + 1
  BY <1>1, <1>2 DEF LastOver, Covers
<1>7. \A c \in Cells(published') : Written(published.width, m, c)' = published'.data[c]
  BY <1>1 DEF Written
<1>8. Coming'
  BY <1>2, <1>6, <1>7 DEF Coming
<1> QED
  BY <1>2, <1>5, <1>8

(* A column more makes a map of a map.                                     *)
LEMMA WholeMade ==
    ASSUME ClientTyped, PublishFull
    PROVE  /\ published' \in Maps /\ ClientTyped'
           /\ messages' = Append(messages, [full |-> TRUE, grid |-> published'])
           /\ UNCHANGED <<subscribed, missed, costmap>>
<1> DEFINE w == published.width + 1
           W == published.width
           H == published.height
           d == [i \in 0 .. w * H - 1 |-> IF i % w = w - 1 THEN -1
                                          ELSE published.data[(i \div w) * (w - 1) + (i % w)]]
<1>1. /\ published = [width |-> W, height |-> H, data |-> published.data]
      /\ W \in Nat /\ H \in Nat /\ published.data \in [0 .. W * H - 1 -> (-1) .. 100]
  BY MapShape DEF ClientTyped
<1>2. published' = [published EXCEPT !.width = w, !.data = d]
  BY DEF PublishFull
<1>3. ASSUME NEW i \in 0 .. w * H - 1 PROVE d[i] \in (-1) .. 100
  <2>1. w \in Nat /\ w # 0
    BY <1>1
  <2>2. i % w \in 0 .. w - 1 /\ i \div w \in 0 .. H - 1
    BY <1>1, <2>1, RowOfCell
  <2>3. CASE i % w = w - 1
    BY <2>3
  <2>4. CASE i % w # w - 1
    <3>1. i % w \in 0 .. W - 1 /\ W \in Nat \ {0} /\ i \div w \in Nat /\ i \div w < H /\ w - 1 = W
      BY <1>1, <2>2, <2>4
    <3>2. (i \div w) * W + (i % w) \in 0 .. W * H - 1
      BY <1>1, <3>1, RowColumn
    <3>3. published.data[(i \div w) * (w - 1) + (i % w)] \in (-1) .. 100
      BY <1>1, <3>1, <3>2
    <3> QED
      BY <2>4, <3>3
  <2> QED
    BY <2>3, <2>4
<1>4. d \in [0 .. w * H - 1 -> (-1) .. 100]
  BY <1>3
<1>5. published' = [width |-> w, height |-> H, data |-> d] /\ w \in Nat
  <2> HIDE DEF d
  <2>1. PICK a, b, e : published = [width |-> a, height |-> b, data |-> e]
    BY <1>1
  <2>2. published' = [width |-> w, height |-> b, data |-> d] /\ b = H
    BY <1>2, <2>1
  <2> QED
    BY <1>1, <2>2
<1>6. published' \in Maps
  <2> HIDE DEF d
  <2> QED
    BY <1>1, <1>4, <1>5, MapMade
<1>7. messages' = Append(messages, [full |-> TRUE, grid |-> published'])
  BY DEF PublishFull
<1>8. messages' \in Seq(Messages)
  BY <1>6, <1>7, WholeSent
<1> QED
  BY <1>6, <1>7, <1>8 DEF ClientTyped, PublishFull

LEMMA WholeStep == ClientTyped /\ PublishFull => ClientInv'
<1> SUFFICES ASSUME ClientTyped, PublishFull PROVE ClientInv'
  OBVIOUS
<1>1. /\ published' \in Maps /\ ClientTyped'
      /\ messages' = Append(messages, [full |-> TRUE, grid |-> published'])
  BY WholeMade
<1>2. Sized' /\ Coming'
  BY <1>1, WholeSent
<1> QED
  BY <1>1, <1>2 DEF ClientInv

(* A rectangle of the map holds for each cell it covers what the map does. *)
LEMMA WindowWrites ==
    ASSUME published' \in Maps, NEW x \in Nat, NEW y \in Nat, NEW w \in Nat, NEW h \in Nat,
           NEW c \in Cells(published'),
           c % published'.width \in x .. x + w - 1, c \div published'.width \in y .. y + h - 1
    PROVE  Window(x, y, w, h)'.data[(c \div published'.width - y) * w + ((c % published'.width) - x)]
             = published'.data[c]
<1> DEFINE W == published'.width
           H == published'.height
           a == c \div W - y
           b == (c % W) - x
           i == a * w + b
<1>1. W \in Nat /\ H \in Nat
  BY MapShape
<1>2. c \in 0 .. W * H - 1
  BY DEF Cells
<1>3. c \in Nat /\ c = (c \div W) * W + (c % W) /\ c % W \in Nat /\ c \div W \in Nat
  <2> HIDE DEF W, H
  <2>1. /\ W # 0 /\ c \in Nat /\ c % W \in 0 .. W - 1 /\ c \div W \in 0 .. H - 1
        /\ c = (c \div W) * W + (c % W)
    BY <1>1, <1>2, RowOfCell, Zenon
  <2> QED
    BY <1>1, <2>1
<1>4. w \in Nat \ {0} /\ a \in Nat /\ b \in 0 .. w - 1 /\ a < h
  BY <1>3
<1> HIDE DEF a, b
<1>5. i % w = b /\ i \div w = a /\ i \in 0 .. w * h - 1
  BY <1>4, RowColumn
<1> HIDE DEF i
<1>6. Window(x, y, w, h)'.data[i]
        = published'.data[getIndex(published', x + (i % w), y + (i \div w))]
  BY <1>5 DEF Window
<1>7. x + b = c % W /\ y + a = c \div W
  BY <1>3 DEF a, b
<1>8. getIndex(published', x + (i % w), y + (i \div w)) = (c \div W) * W + (c % W)
  BY <1>5, <1>7 DEF getIndex
<1>9. Window(x, y, w, h)'.data[i] = published'.data[c]
  BY <1>3, <1>6, <1>8
<1> QED
  BY <1>9 DEF i, a, b

(* Cell becomes v and the rectangle at x, y around it is sent as m.        *)
Sends(cell, v, x, y, w, h, m) ==
    /\ cell \in Cells(published) /\ v \in (-1) .. 100
    /\ published' = [published EXCEPT !.data[cell] = v] /\ published' \in Maps
    /\ x \in Nat /\ y \in Nat /\ w \in Nat /\ h \in Nat
    /\ x + w <= published.width /\ y + h <= published.height
    /\ cell % published.width \in x .. x + w - 1
    /\ cell \div published.width \in y .. y + h - 1
    /\ m = [full |-> FALSE, x |-> x, y |-> y, grid |-> Window(x, y, w, h)'] /\ m \in Messages
    /\ messages' = Append(messages, m) /\ costmap' = costmap

(* A rectangle covers the cell that changed, and where it does not the map *)
(* is what it was.                                                         *)
LEMMA UpdateSent ==
    ASSUME ClientTyped, Sized, Coming, NEW cell, NEW v, NEW x, NEW y, NEW w, NEW h, NEW m,
           Sends(cell, v, x, y, w, h, m)
    PROVE  Sized' /\ Coming'
<1> DEFINE n == Len(messages)
<1> PICK W : W = published.width
  OBVIOUS
<1>1. /\ published'.width = W /\ published'.height = published.height
      /\ W \in Nat /\ published.height \in Nat
      /\ \A c \in Cells(published) : c # cell => published'.data[c] = published.data[c]
  <2>1. /\ published = [width |-> published.width, height |-> published.height,
                        data |-> published.data]
        /\ W \in Nat /\ published.height \in Nat
        /\ published.data \in [Cells(published) -> (-1) .. 100]
    BY MapShape DEF ClientTyped, Cells
  <2> QED
    BY <2>1 DEF Sends
<1>2. Cells(published') = Cells(published) /\ costmap' = costmap
  BY <1>1 DEF Cells, Sends
<1>3. /\ n \in Nat /\ Len(messages') = n + 1 /\ messages'[n + 1] = m
      /\ \A k \in 1 .. n : messages'[k] = messages[k]
  BY Queued DEF ClientTyped, Sends
<1>4. /\ ~m.full /\ m.x = x /\ m.y = y /\ m.grid.width = w /\ m.grid.height = h
      /\ m.grid.data = Window(x, y, w, h)'.data
  BY DEF Window, Sends
<1>5. Fits(m, published')
  BY <1>1, <1>4 DEF Fits, Sends
<1> HIDE DEF n
<1>6. ASSUME NEW k \in 0 .. n, LastWhole(messages', k) PROVE LastWhole(messages, k)
  <2>1. \A j \in k + 1 .. n : j \in k + 1 .. n + 1 /\ messages'[j] = messages[j]
    BY <1>3
  <2> QED
    BY <1>3, <1>6, <2>1 DEF LastWhole, n
<1>7. ASSUME NEW k \in 1 .. n + 1, LastWhole(messages', k) PROVE Fits(messages'[k], published')
  <2>1. CASE k = n + 1
    BY <1>3, <1>5, <2>1
  <2>2. CASE k \in 1 .. n
    <3>1. Fits(messages[k], published)
      BY <1>3, <1>6, <1>7, <2>2 DEF Sized, n
    <3> QED
      BY <1>1, <1>3, <2>2, <3>1 DEF Fits
  <2> QED
    BY <1>3, <2>1, <2>2
<1>8. Sized'
  <2>1. LastWhole(messages', 0) =>
          costmap = [width |-> published.width, height |-> published.height,
                     data |-> [c \in Cells(published) |-> costmap.data[c]]]
    BY <1>3, <1>6 DEF Sized
  <2> QED
    BY <1>1, <1>2, <1>3, <1>7, <2>1 DEF Sized, n
<1>9. ASSUME NEW c \in Cells(published), NEW k \in 0 .. n, LastOver(W, messages', k, c)
      PROVE  LastOver(W, messages, k, c) /\ ~Covers(W, m, c)
  <2>1. \A j \in k + 1 .. n : j \in k + 1 .. n + 1 /\ messages'[j] = messages[j]
    BY <1>3
  <2>2. n + 1 \in k + 1 .. n + 1
    BY <1>3
  <2> QED
    BY <1>3, <1>9, <2>1, <2>2 DEF LastOver, n
<1>10. ASSUME NEW c \in Cells(published), ~Covers(W, m, c) PROVE published'.data[c] = published.data[c]
  BY <1>1, <1>4, <1>10 DEF Covers, Sends
<1>11. ASSUME NEW c \in Cells(published), Covers(W, m, c) PROVE Written(W, m, c) = published'.data[c]
  <2>1. c % W \in x .. x + w - 1 /\ c \div W \in y .. y + h - 1
    BY <1>4, <1>11 DEF Covers
  <2>2. c \in Cells(published')
    BY <1>2
  <2>3. Window(x, y, w, h)'.data[(c \div W - y) * w + ((c % W) - x)] = published'.data[c]
    <3>1. published' \in Maps /\ x \in Nat /\ y \in Nat /\ w \in Nat /\ h \in Nat
      BY DEF Sends
    <3>2. /\ c % published'.width \in x .. x + w - 1
          /\ c \div published'.width \in y .. y + h - 1
      BY <1>1, <2>1
    <3>3. Window(x, y, w, h)'.data[(c \div published'.width - y) * w + ((c % published'.width) - x)]
            = published'.data[c]
      BY <2>2, <3>1, <3>2, WindowWrites
    <3> QED
      BY <1>1, <3>3
  <2> QED
    BY <1>4, <2>3 DEF Written
<1>12. ASSUME NEW c \in Cells(published), NEW k \in 1 .. n + 1,
              Covers(W, messages'[k], c), LastOver(W, messages', k, c)
       PROVE  Written(W, messages'[k], c) = published'.data[c]
  <2>1. CASE k = n + 1
    BY <1>3, <1>11, <1>12, <2>1
  <2>2. CASE k \in 1 .. n
    <3>1. Written(W, messages[k], c) = published.data[c]
      BY <1>3, <1>9, <1>12, <2>2 DEF Coming, n
    <3>2. ~Covers(W, m, c)
      BY <1>9, <1>12, <2>2
    <3> QED
      BY <1>3, <1>10, <2>2, <3>1, <3>2
  <2> QED
    BY <1>3, <2>1, <2>2
<1>13. ASSUME NEW c \in Cells(published), LastOver(W, messages', 0, c)
       PROVE  costmap.data[c] = cost_translation_table(published'.data[c])
  <2>1. LastOver(W, messages, 0, c) /\ ~Covers(W, m, c)
    BY <1>3, <1>9, <1>13
  <2>2. costmap.data[c] = cost_translation_table(published.data[c])
    BY <2>1 DEF Coming
  <2> QED
    BY <1>10, <2>1, <2>2
<1>14. Coming'
  BY <1>1, <1>2, <1>3, <1>12, <1>13 DEF Coming
<1> QED
  BY <1>8, <1>14

(* Whatever cell changes and whatever rectangle is chosen, the map stays a *)
(* map and what is sent, if anything, is a message.                        *)
LEMMA UpdateMade ==
    ASSUME ClientTyped, PublishUpdate
    PROVE  /\ ClientTyped' /\ missed' = (missed \/ ~subscribed)
           /\ UNCHANGED <<subscribed, costmap>>
           /\ IF subscribed THEN \E cell, v, x, y, w, h, m : Sends(cell, v, x, y, w, h, m)
              ELSE messages' = messages
<1>1. edits \in Nat /\ published \in Maps /\ messages \in Seq(Messages)
  BY DEF ClientTyped
<1>2. PICK cell \in Cells(published), v \in {-1, 0, 100} :
        /\ v # published.data[cell]
        /\ published' = [published EXCEPT !.data[cell] = v]
        /\ \E x \in 0 .. XOf(published, cell), y \in 0 .. YOf(published, cell) :
             \E w \in 1 .. (published.width - x), h \in 1 .. (published.height - y) :
               /\ XOf(published, cell) < x + w /\ YOf(published, cell) < y + h
               /\ messages' = IF subscribed
                                THEN Append(messages, [full |-> FALSE, x |-> x, y |-> y,
                                                       grid |-> Window(x, y, w, h)'])
                                ELSE messages
  BY Zenon DEF PublishUpdate
<1>3. PICK x \in 0 .. XOf(published, cell), y \in 0 .. YOf(published, cell) :
        \E w \in 1 .. (published.width - x), h \in 1 .. (published.height - y) :
          /\ XOf(published, cell) < x + w /\ YOf(published, cell) < y + h
          /\ messages' = IF subscribed
                           THEN Append(messages, [full |-> FALSE, x |-> x, y |-> y,
                                                  grid |-> Window(x, y, w, h)'])
                           ELSE messages
  BY <1>2
<1>4. PICK w \in 1 .. (published.width - x), h \in 1 .. (published.height - y) :
        /\ XOf(published, cell) < x + w /\ YOf(published, cell) < y + h
        /\ messages' = IF subscribed
                         THEN Append(messages, [full |-> FALSE, x |-> x, y |-> y,
                                                grid |-> Window(x, y, w, h)'])
                         ELSE messages
  BY <1>3
<1>5. /\ published = [width |-> published.width, height |-> published.height,
                      data |-> published.data]
      /\ published.width \in Nat /\ published.height \in Nat
      /\ published.data \in [0 .. published.width * published.height - 1 -> (-1) .. 100]
  BY <1>1, MapShape
<1>6. cell % published.width \in 0 .. published.width - 1
      /\ cell \div published.width \in 0 .. published.height - 1
  BY <1>5, RowOfCell DEF Cells
<1>7. /\ published'.width = published.width /\ published'.height = published.height
      /\ published' \in Maps
  <2>1. [published.data EXCEPT ![cell] = v]
          \in [0 .. published.width * published.height - 1 -> (-1) .. 100]
    <3>1. v \in (-1) .. 100
      BY <1>2
    <3> QED
      BY <1>5, <3>1, Zenon
  <2>2. published' = [width |-> published.width, height |-> published.height,
                      data |-> [published.data EXCEPT ![cell] = v]]
    BY <1>2, <1>5
  <2> QED
    BY <1>5, <2>1, <2>2, MapMade
<1>8. /\ x \in Nat /\ y \in Nat /\ w \in Nat /\ h \in Nat
      /\ x + w <= published.width /\ y + h <= published.height
      /\ cell % published.width \in x .. x + w - 1
      /\ cell \div published.width \in y .. y + h - 1
  <2> DEFINE a == cell % published.width
             b == cell \div published.width
  <2>1. x \in 0 .. a /\ y \in 0 .. b /\ a < x + w /\ b < y + h
    BY <1>3, <1>4 DEF XOf, YOf
  <2>2. a \in Nat /\ b \in Nat /\ published.width \in Nat /\ published.height \in Nat
    BY <1>5, <1>6
  <2> HIDE DEF a, b
  <2>3. /\ x \in Nat /\ y \in Nat /\ w \in Nat /\ h \in Nat
        /\ x + w <= published.width /\ y + h <= published.height
        /\ a \in x .. x + w - 1 /\ b \in y .. y + h - 1
    BY <2>1, <2>2
  <2> QED
    BY <2>3 DEF a, b
<1>9. Window(x, y, w, h)' \in Maps
  BY <1>7, <1>8, WindowIsMap
<1> DEFINE m == [full |-> FALSE, x |-> x, y |-> y, grid |-> Window(x, y, w, h)']
<1>10. m \in Messages
  BY <1>8, <1>9 DEF Messages
<1>11. missed' = (missed \/ ~subscribed) /\ edits' \in Nat /\ UNCHANGED <<subscribed, costmap>>
  BY <1>1 DEF PublishUpdate
<1>12. ClientTyped'
  <2>1. messages' \in Seq(Messages)
    BY <1>1, <1>4, <1>10
  <2> QED
    BY <1>1, <1>7, <1>11, <2>1 DEF ClientTyped
<1>13. ASSUME subscribed PROVE \E cc, vv, xx, yy, ww, hh, mm : Sends(cc, vv, xx, yy, ww, hh, mm)
  <2>1. cell \in Cells(published) /\ v \in (-1) .. 100 /\ costmap' = costmap
    BY <1>2, <1>11
  <2>2. messages' = Append(messages, m)
    BY <1>4, <1>13
  <2> PICK msg : msg = m
    OBVIOUS
  <2>3. Sends(cell, v, x, y, w, h, msg)
    BY <1>2, <1>7, <1>8, <1>10, <2>1, <2>2 DEF Sends
  <2> HIDE DEF m
  <2> QED
    BY <2>3
<1>14. ~subscribed => messages' = messages
  BY <1>4
<1> QED
  BY <1>11, <1>12, <1>13, <1>14

LEMMA UpdateStep == ClientInv /\ PublishUpdate => ClientInv'
<1> SUFFICES ASSUME ClientInv, PublishUpdate PROVE ClientInv'
  OBVIOUS
<1>1. ClientTyped
  BY DEF ClientInv
<1>2. /\ ClientTyped' /\ missed' = (missed \/ ~subscribed)
      /\ subscribed => \E cell, v, x, y, w, h, m : Sends(cell, v, x, y, w, h, m)
  BY <1>1, UpdateMade
<1>3. ASSUME ~missed' PROVE Sized' /\ Coming'
  <2>1. subscribed /\ Sized /\ Coming
    BY <1>2, <1>3 DEF ClientInv
  <2>2. PICK cell, v, x, y, w, h, m : Sends(cell, v, x, y, w, h, m)
    BY <1>2, <2>1
  <2> QED
    BY <1>1, <2>1, <2>2, UpdateSent
<1> QED
  BY <1>2, <1>3 DEF ClientInv

(* The client takes the oldest message m.                                  *)
Takes(m) ==
    /\ m = messages[1] /\ messages # <<>> /\ messages' = RemoveAt(messages, 1)
    /\ IF m.full THEN updateFullMap(m) ELSE updatePartialMap(m)
    /\ UNCHANGED published

(* A whole map that nothing behind it replaces is of the published size,   *)
(* and so becomes the copy.                                                *)
LEMMA WholeTaken ==
    ASSUME ClientTyped, NEW m, Takes(m), m.full, Fits(m, published), m \in Messages
    PROVE  costmap' = [width |-> published.width, height |-> published.height,
                       data |-> [c \in Cells(published) |->
                                   cost_translation_table(m.grid.data[c])]]
<1>1. /\ m.grid = [width |-> m.grid.width, height |-> m.grid.height, data |-> m.grid.data]
      /\ m.grid.width = published.width /\ m.grid.height = published.height
  <2>1. m.grid \in Maps
    BY DEF Messages
  <2> QED
    BY <2>1, MapShape DEF Fits
<1>2. Cells(m.grid) = Cells(published)
  BY <1>1 DEF Cells
<1>3. costmap' = [m.grid EXCEPT !.data = [i \in Cells(m.grid) |-> cost_translation_table(@[i])]]
  BY DEF Takes, updateFullMap, Translated
<1> QED
  BY <1>1, <1>2, <1>3

(* An update taken by a copy of the size it was cut from is written where  *)
(* it came from.                                                           *)
LEMMA UpdateTaken ==
    ASSUME ClientTyped, NEW m, Takes(m), ~m.full, Fits(m, published), m \in Messages,
           costmap = [width |-> published.width, height |-> published.height,
                      data |-> [c \in Cells(published) |-> costmap.data[c]]]
    PROVE  costmap' = [width |-> published.width, height |-> published.height,
                       data |-> [c \in Cells(published) |->
                                   IF Covers(published.width, m, c)
                                     THEN cost_translation_table(Written(published.width, m, c))
                                     ELSE costmap.data[c]]]
<1>1. /\ m.x \in Nat /\ m.y \in Nat /\ m.grid.width \in Nat /\ m.grid.height \in Nat
      /\ published.width \in Nat /\ m.x + m.grid.width <= published.width
  BY MapShape DEF Messages, Fits, ClientTyped
<1>2. Cells(costmap) = Cells(published) /\ costmap.width = published.width
  BY DEF Cells
<1>3. ASSUME NEW c \in Cells(published)
      PROVE  /\ Copies(m, c) <=> Covers(published.width, m, c)
             /\ m.grid.data[Taken(m, c)] = Written(published.width, m, c)
  <2>1. Copies(m, c) <=> Covers(published.width, m, c)
    BY <1>2 DEF Copies, Covers, XOf, YOf
  <2>2. (IF m.x + m.grid.width < costmap.width THEN m.x + m.grid.width ELSE costmap.width) - m.x
          = m.grid.width
    BY <1>1, <1>2
  <2>3. Taken(m, c) = (c \div published.width - m.y) * m.grid.width + ((c % published.width) - m.x)
    BY <1>2, <2>2, Zenon DEF Taken, XOf, YOf
  <2> QED
    BY <2>1, <2>3 DEF Written
<1>4. costmap' = [costmap EXCEPT !.data =
                    [c \in Cells(costmap) |->
                       IF Copies(m, c) THEN cost_translation_table(m.grid.data[Taken(m, c)])
                       ELSE @[c]]]
  BY DEF Takes, updatePartialMap
<1>5. [c \in Cells(costmap) |->
         IF Copies(m, c) THEN cost_translation_table(m.grid.data[Taken(m, c)])
         ELSE costmap.data[c]]
      = [c \in Cells(published) |->
           IF Covers(published.width, m, c)
             THEN cost_translation_table(Written(published.width, m, c))
             ELSE costmap.data[c]]
  BY <1>2, <1>3
<1>6. costmap' = [width |-> published.width, height |-> published.height,
                  data |-> [c \in Cells(costmap) |->
                              IF Copies(m, c) THEN cost_translation_table(m.grid.data[Taken(m, c)])
                              ELSE costmap.data[c]]]
  BY <1>4
<1> QED
  BY <1>5, <1>6

LEMMA MessageTaken ==
    ASSUME ClientTyped, Sized, Coming, NEW m, Takes(m)
    PROVE  Sized' /\ Coming'
<1> DEFINE n == Len(messages)
<1> PICK W : W = published.width
  OBVIOUS
<1>1. /\ n \in Nat \ {0} /\ Len(messages') = n - 1 /\ m = messages[1] /\ m \in Messages
      /\ \A k \in 1 .. n - 1 : messages'[k] = messages[k + 1]
  BY FirstTaken DEF ClientTyped, Takes
<1>2. published' = published
  BY DEF Takes
<1> HIDE DEF n
<1>3. ASSUME NEW k \in 0 .. n - 1, LastWhole(messages', k) PROVE LastWhole(messages, k + 1)
  <2> SUFFICES ASSUME NEW j \in k + 1 + 1 .. n PROVE ~messages[j].full
    BY DEF LastWhole, n
  <2>1. j - 1 \in k + 1 .. n - 1 /\ j - 1 \in 1 .. n - 1 /\ (j - 1) + 1 = j
    BY <1>1
  <2>2. ~messages'[j - 1].full
    BY <1>1, <1>3, <2>1 DEF LastWhole
  <2> QED
    BY <1>1, <2>1, <2>2
<1>4. ASSUME NEW c, NEW k \in 0 .. n - 1, LastOver(W, messages', k, c)
      PROVE  LastOver(W, messages, k + 1, c)
  <2> SUFFICES ASSUME NEW j \in k + 1 + 1 .. n PROVE ~Covers(W, messages[j], c)
    BY DEF LastOver, n
  <2>1. j - 1 \in k + 1 .. n - 1 /\ j - 1 \in 1 .. n - 1 /\ (j - 1) + 1 = j
    BY <1>1
  <2>2. ~Covers(W, messages'[j - 1], c)
    BY <1>1, <1>4, <2>1 DEF LastOver
  <2> QED
    BY <1>1, <2>1, <2>2
<1>5. ASSUME NEW k \in 1 .. n - 1, LastWhole(messages', k) PROVE Fits(messages'[k], published)
  <2>1. k + 1 \in 1 .. n /\ k \in 0 .. n - 1
    BY <1>1
  <2>2. LastWhole(messages, k + 1)
    BY <1>3, <1>5, <2>1
  <2> QED
    BY <1>1, <2>1, <2>2 DEF Sized, n
<1>6. ASSUME NEW c \in Cells(published), NEW k \in 1 .. n - 1,
             Covers(W, messages'[k], c), LastOver(W, messages', k, c)
      PROVE  Written(W, messages'[k], c) = published.data[c]
  <2>1. k + 1 \in 1 .. n /\ k \in 0 .. n - 1 /\ messages'[k] = messages[k + 1]
    BY <1>1
  <2>2. LastOver(W, messages, k + 1, c)
    BY <1>4, <1>6, <2>1
  <2> QED
    BY <1>6, <2>1, <2>2 DEF Coming, n
<1>7. LastWhole(messages', 0) => Fits(m, published)
  <2>1. LastWhole(messages', 0) => LastWhole(messages, 1)
    BY <1>1, <1>3
  <2> QED
    BY <1>1, <2>1 DEF Sized, n
<1>8. ASSUME NEW c, LastOver(W, messages', 0, c) PROVE LastWhole(messages', 0)
  BY <1>8 DEF LastOver, LastWhole, Covers
<1>9. ASSUME NEW c \in Cells(published), LastOver(W, messages', 0, c), Covers(W, m, c)
      PROVE  Written(W, m, c) = published.data[c]
  <2>1. LastOver(W, messages, 1, c)
    BY <1>1, <1>4, <1>9
  <2> QED
    BY <1>1, <1>9, <2>1 DEF Coming, n
<1>10. CASE m.full
  <2>1. ASSUME LastWhole(messages', 0)
        PROVE  costmap' = [width |-> published.width, height |-> published.height,
                           data |-> [c \in Cells(published) |->
                                       cost_translation_table(m.grid.data[c])]]
    BY <1>1, <1>7, <1>10, <2>1, WholeTaken
  <2>2. Sized'
    BY <1>1, <1>2, <1>5, <2>1 DEF Sized
  <2>3. ASSUME NEW c \in Cells(published), LastOver(W, messages', 0, c)
        PROVE  costmap'.data[c] = cost_translation_table(published.data[c])
    <3>1. m.grid.data[c] = published.data[c]
      BY <1>9, <1>10, <2>3 DEF Covers, Written
    <3>2. costmap'.data[c] = cost_translation_table(m.grid.data[c])
      BY <1>8, <2>1, <2>3
    <3> QED
      BY <3>1, <3>2
  <2>4. Coming'
    BY <1>1, <1>2, <1>6, <2>3 DEF Coming
  <2> QED
    BY <2>2, <2>4
<1>11. CASE ~m.full
  <2>1. ASSUME LastWhole(messages', 0)
        PROVE  costmap' = [width |-> published.width, height |-> published.height,
                           data |-> [c \in Cells(published) |->
                                       IF Covers(published.width, m, c)
                                         THEN cost_translation_table(Written(published.width, m, c))
                                         ELSE costmap.data[c]]]
    <3>1. LastWhole(messages, 1)
      BY <1>1, <1>3, <2>1
    <3>2. LastWhole(messages, 0)
      <4> SUFFICES ASSUME NEW j \in 1 .. n PROVE ~messages[j].full
        BY DEF LastWhole, n
      <4>1. j = 1 \/ j \in 2 .. n
        BY <1>1
      <4> QED
        BY <1>1, <1>11, <3>1, <4>1 DEF LastWhole, n
    <3>3. costmap = [width |-> published.width, height |-> published.height,
                     data |-> [c \in Cells(published) |-> costmap.data[c]]]
      BY <3>2 DEF Sized
    <3> QED
      BY <1>1, <1>7, <1>11, <2>1, <3>3, UpdateTaken
  <2>2. Sized'
    <3>1. LastWhole(messages', 0) =>
            costmap' = [width |-> published.width, height |-> published.height,
                        data |-> [c \in Cells(published) |-> costmap'.data[c]]]
      BY <2>1
    <3> QED
      BY <1>1, <1>2, <1>5, <3>1 DEF Sized
  <2>3. ASSUME NEW c \in Cells(published), LastOver(W, messages', 0, c)
        PROVE  costmap'.data[c] = cost_translation_table(published.data[c])
    <3>1. costmap'.data[c] = IF Covers(W, m, c) THEN cost_translation_table(Written(W, m, c))
                             ELSE costmap.data[c]
      BY <1>8, <2>1, <2>3
    <3>2. CASE Covers(W, m, c)
      BY <1>9, <2>3, <3>1, <3>2
    <3>3. CASE ~Covers(W, m, c)
      <4>1. LastOver(W, messages, 1, c)
        BY <1>1, <1>4, <2>3
      <4>2. LastOver(W, messages, 0, c)
        <5> SUFFICES ASSUME NEW j \in 1 .. n PROVE ~Covers(W, messages[j], c)
          BY DEF LastOver, n
        <5>1. j = 1 \/ j \in 2 .. n
          BY <1>1
        <5> QED
          BY <1>1, <3>3, <4>1, <5>1 DEF LastOver, n
      <4>3. costmap.data[c] = cost_translation_table(published.data[c])
        BY <4>2 DEF Coming
      <4> QED
        BY <3>1, <3>3, <4>3
    <3> QED
      BY <3>2, <3>3
  <2>4. Coming'
    BY <1>1, <1>2, <1>6, <2>3 DEF Coming
  <2> QED
    BY <2>2, <2>4
<1> QED
  BY <1>10, <1>11

LEMMA ReceiveStep == Ordered /\ ClientInv /\ Receive => ClientInv'
<1> SUFFICES ASSUME Ordered, ClientInv, Receive PROVE ClientInv'
  OBVIOUS
<1>1. messages \in Seq(Messages) /\ UNCHANGED <<subscribed, missed, published, edits>>
  BY DEF Receive, ClientInv, ClientTyped
<1>2. PICK k \in DOMAIN messages :
        /\ Deliverable(k)
        /\ IF messages[k].full THEN updateFullMap(messages[k]) ELSE updatePartialMap(messages[k])
        /\ messages' = RemoveAt(messages, k)
  BY DEF Receive
<1>3. k = 1
  <2>1. k \in 1 .. Len(messages) /\ Len(messages) \in Nat
    BY <1>1
  <2>2. k > 1 => 1 \in 1 .. k - 1
    BY <2>1
  <2> QED
    BY <1>2, <2>1, <2>2 DEF Deliverable
<1>4. messages # <<>>
  BY <1>1, <1>2
<1>5. Takes(messages[1])
  BY <1>1, <1>2, <1>3, <1>4 DEF Takes
<1>6. messages' \in Seq(Messages)
  BY <1>1, <1>2, <1>3, <1>4, FirstTaken
<1>7. ClientTyped'
  BY <1>1, <1>6 DEF ClientInv, ClientTyped
<1>8. ~missed' => Sized' /\ Coming'
  BY <1>1, <1>5, MessageTaken DEF ClientInv
<1> QED
  BY <1>7, <1>8 DEF ClientInv

LEMMA ClientInvStep == Ordered /\ ClientInv /\ [ClientNext]_client => ClientInv'
<1> SUFFICES ASSUME Ordered, ClientInv, [ClientNext]_client PROVE ClientInv'
  OBVIOUS
<1>1. CASE PublishUpdate
  BY <1>1, UpdateStep
<1>2. CASE PublishFull
  BY <1>2, WholeStep DEF ClientInv
<1>3. CASE Receive
  BY <1>3, ReceiveStep
<1>4. CASE Subscribe \/ UNCHANGED client
  <2>1. UNCHANGED <<missed, published, edits, messages, costmap>> /\ subscribed' \in BOOLEAN
    BY <1>4 DEF Subscribe, client, ClientInv, ClientTyped
  <2> QED
    BY <2>1 DEF ClientInv, ClientTyped, Sized, Coming, Fits, LastWhole, LastOver, Covers, Written,
                Cells
<1> QED
  BY <1>1, <1>2, <1>3, <1>4 DEF ClientNext

(* updateFullMap() and updatePartialMap() keep the exploration node's copy *)
(* true: for maps of any size and content, any changes and any rectangles  *)
(* sent around them, once everything published has arrived the copy is the *)
(* publisher's map cell by cell, provided the two topics deliver in the    *)
(* order of publication and no update was published before the             *)
(* subscription to updates existed.                                        *)
THEOREM CopyFollowsMap == Ordered => (ClientSpec => []CopyIsCurrent)
<1> SUFFICES ASSUME Ordered PROVE ClientSpec => []CopyIsCurrent
  OBVIOUS
<1>1. ClientInv /\ [ClientNext]_client => ClientInv'
  BY ClientInvStep
<1>2. ClientInv => CopyIsCurrent
  <2> SUFFICES ASSUME ClientInv, messages = <<>>, ~missed PROVE costmap = Translated(published)
    BY DEF CopyIsCurrent
  <2>1. ClientTyped /\ Sized /\ Coming
    BY DEF ClientInv
  <2>2. LastWhole(messages, 0) /\ \A c : LastOver(published.width, messages, 0, c)
    <3>1. Len(messages) = 0
      OBVIOUS
    <3> QED
      BY <3>1 DEF LastWhole, LastOver
  <2>3. costmap = [width |-> published.width, height |-> published.height,
                   data |-> [c \in Cells(published) |-> costmap.data[c]]]
    BY <2>1, <2>2 DEF Sized
  <2>4. \A c \in Cells(published) : costmap.data[c] = cost_translation_table(published.data[c])
    BY <2>1, <2>2 DEF Coming
  <2>5. published = [width |-> published.width, height |-> published.height,
                     data |-> published.data]
    BY <2>1, MapShape DEF ClientTyped
  <2>6. Translated(published)
          = [width |-> published.width, height |-> published.height,
             data |-> [c \in Cells(published) |-> cost_translation_table(published.data[c])]]
    BY <2>5 DEF Translated
  <2>7. [c \in Cells(published) |-> costmap.data[c]]
          = [c \in Cells(published) |-> cost_translation_table(published.data[c])]
    BY <2>4
  <2> QED
    BY <2>3, <2>6, <2>7
<1> QED
  BY <1>1, <1>2, ClientInvInit, PTL DEF ClientSpec

-----------------------------------------------------------------------------
(***************************************************************************)
(* The frontier search.                                                    *)
(*                                                                         *)
(* nearestCell() is a wave from the robot: every cell nearer than the one  *)
(* it takes off the queue has been seen, and holds no free space (Wave).   *)
(* The flood that then starts covers only free space around its start, and *)
(* a neighbour of a flooded cell is flooded or flagged unless it is still  *)
(* to be looked at (Flood).  The flags, apart from those of the frontier   *)
(* being built, are whole frontiers beside the flood, and the large ones   *)
(* make the list (Found).  The frontier being built is part of one, and    *)
(* what it lacks is around a cell still to be looked at (Building).        *)
(*                                                                         *)
(* First, cells reached step by step.                                      *)
(***************************************************************************)
Closed(S, allowed, near) == \A d \in S : near[d] \cap allowed \subseteq S

(* What is reached is closed under steps, and is the least such set.       *)
LEMMA ReachBase ==
    ASSUME NEW A, NEW near, NEW a \in A
    PROVE  /\ a \in ReachedFrom(a, A, near) /\ ReachedFrom(a, A, near) \subseteq A
           /\ Closed(ReachedFrom(a, A, near), A, near)
<1>1. a \in ReachedFrom(a, A, near) /\ ReachedFrom(a, A, near) \subseteq A
  BY DEF ReachedFrom
<1>2. ASSUME NEW d \in ReachedFrom(a, A, near), NEW e \in near[d] \cap A
      PROVE  e \in ReachedFrom(a, A, near)
  <2> SUFFICES ASSUME NEW S \in SUBSET A, a \in S, \A x \in S : near[x] \cap A \subseteq S
               PROVE  e \in S
    BY <1>2 DEF ReachedFrom
  <2>1. d \in S
    BY <1>2 DEF ReachedFrom
  <2> QED
    BY <1>2, <2>1
<1> QED
  BY <1>1, <1>2 DEF Closed

LEMMA ReachLeast ==
    ASSUME NEW A, NEW near, NEW a, NEW S \in SUBSET A, a \in S, Closed(S, A, near)
    PROVE  ReachedFrom(a, A, near) \subseteq S
BY DEF ReachedFrom, Closed

(* When steps can be taken back, cells reached from one another reach the  *)
(* same.                                                                   *)
LEMMA ReachSame ==
    ASSUME NEW A, NEW near, NEW a \in A, NEW c \in ReachedFrom(a, A, near),
           \A x, y \in A : y \in near[x] => x \in near[y]
    PROVE  ReachedFrom(c, A, near) = ReachedFrom(a, A, near)
<1> DEFINE Ra == ReachedFrom(a, A, near)
           Rc == ReachedFrom(c, A, near)
<1>1. /\ a \in Ra /\ Ra \subseteq A /\ Closed(Ra, A, near)
  BY ReachBase
<1>2. c \in Rc /\ Rc \subseteq A /\ Closed(Rc, A, near)
  BY <1>1, ReachBase
<1>3. Rc \subseteq Ra
  BY <1>1, ReachLeast
<1>4. a \in Rc
  <2> SUFFICES ASSUME a \notin Rc PROVE FALSE
    OBVIOUS
  <2>1. Closed(Ra \ Rc, A, near)
    <3> SUFFICES ASSUME NEW d \in Ra \ Rc, NEW e \in near[d] \cap A PROVE e \in Ra \ Rc
      BY DEF Closed
    <3>1. e \in Ra
      BY <1>1 DEF Closed
    <3>2. e \in Rc => d \in Rc
      BY <1>1, <1>2 DEF Closed
    <3> QED
      BY <3>1, <3>2
  <2>2. Ra \subseteq Ra \ Rc
    <3>1. Ra \ Rc \in SUBSET A /\ a \in Ra \ Rc
      BY <1>1
    <3> HIDE DEF Ra, Rc
    <3>2. ReachedFrom(a, A, near) \subseteq Ra \ Rc
      BY <2>1, <3>1, ReachLeast
    <3> QED
      BY <3>2 DEF Ra
  <2> QED
    BY <1>2, <2>2
<1>5. Ra \subseteq Rc
  BY <1>2, <1>4, ReachLeast
<1> QED
  BY <1>3, <1>5

(* What the queues of the search hold.                                     *)
LEMMA InHeadTail ==
    ASSUME NEW S, NEW s \in Seq(S)
    PROVE  /\ Range(s) \subseteq S /\ (Range(s) = {} <=> s = <<>>)
           /\ s # <<>> => Head(s) \in Range(s) /\ Tail(s) \in Seq(S)
                          /\ Range(s) = {Head(s)} \cup Range(Tail(s))
<1>0. Len(s) \in Nat /\ DOMAIN s = 1 .. Len(s)
  OBVIOUS
<1>1. Range(s) \subseteq S
  BY DEF Range
<1>2. Range(s) = {} <=> s = <<>>
  BY DEF Range
<1>3. ASSUME s # <<>> PROVE Head(s) \in Range(s) /\ Tail(s) \in Seq(S) /\ Range(s) = {Head(s)} \cup Range(Tail(s))
  <2>1. Head(s) = s[1] /\ 1 \in 1 .. Len(s)
    BY <1>3
  <2>2. Tail(s) \in Seq(S) /\ Len(Tail(s)) = Len(s) - 1 /\ \A i \in 1 .. Len(Tail(s)) : Tail(s)[i] = s[i+1]
    BY <1>3, HeadTailProperties
  <2>3. \A i \in 1 .. Len(s) : i = 1 \/ (i-1 \in 1 .. Len(Tail(s)) /\ s[i] = Tail(s)[i-1])
    BY <1>0, <2>2
  <2>4. DOMAIN Tail(s) = 1 .. Len(Tail(s))
    BY <2>2
  <2>5. \A i \in 1 .. Len(Tail(s)) : i+1 \in 1 .. Len(s)
    BY <1>0, <2>2
  <2>6. \A i \in 1 .. Len(s) : s[i] \in {Head(s)} \cup Range(Tail(s))
    BY <2>1, <2>3, <2>4 DEF Range
  <2>7. \A i \in 1 .. Len(Tail(s)) : Tail(s)[i] \in Range(s)
    BY <1>0, <2>2, <2>5 DEF Range
  <2>8. Head(s) \in Range(s)
    BY <1>0, <2>1 DEF Range
  <2>9. Range(s) \subseteq {Head(s)} \cup Range(Tail(s)) /\ Range(Tail(s)) \subseteq Range(s)
    BY <1>0, <2>4, <2>6, <2>7 DEF Range
  <2> QED
    BY <2>2, <2>8, <2>9
<1> QED
  BY <1>1, <1>2, <1>3

LEMMA InAppend ==
    ASSUME NEW S, NEW s \in Seq(S), NEW e \in S
    PROVE  Append(s, e) \in Seq(S) /\ Range(Append(s, e)) = Range(s) \cup {e}
<1>0. Len(s) \in Nat /\ DOMAIN s = 1 .. Len(s)
  OBVIOUS
<1>1. /\ Append(s, e) \in Seq(S) /\ Len(Append(s, e)) = Len(s) + 1
      /\ \A i \in 1 .. Len(s) : Append(s, e)[i] = s[i]
      /\ Append(s, e)[Len(s) + 1] = e
  OBVIOUS
<1>2. DOMAIN Append(s, e) = 1 .. Len(s) + 1
  BY <1>1
<1>3. 1 .. Len(s) + 1 = (1 .. Len(s)) \cup {Len(s) + 1}
  BY <1>0
<1> QED
  BY <1>0, <1>1, <1>2, <1>3 DEF Range

LEMMA InConcat ==
    ASSUME NEW S, NEW s \in Seq(S), NEW t \in Seq(S)
    PROVE  s \o t \in Seq(S) /\ Range(s \o t) = Range(s) \cup Range(t)
<1>0. Len(s) \in Nat /\ DOMAIN s = 1 .. Len(s) /\ Len(t) \in Nat /\ DOMAIN t = 1 .. Len(t)
  OBVIOUS
<1>1. /\ s \o t \in Seq(S) /\ Len(s \o t) = Len(s) + Len(t)
      /\ \A i \in 1 .. Len(s) + Len(t) : (s \o t)[i] = IF i <= Len(s) THEN s[i] ELSE t[i - Len(s)]
  BY ConcatProperties
<1>2. DOMAIN (s \o t) = 1 .. Len(s) + Len(t)
  BY <1>1
<1>3. \A i \in 1 .. Len(s) : i \in 1 .. Len(s) + Len(t) /\ (s \o t)[i] = s[i]
  BY <1>0, <1>1
<1>4. \A i \in 1 .. Len(t) : i + Len(s) \in 1 .. Len(s) + Len(t) /\ (s \o t)[i + Len(s)] = t[i]
  BY <1>0, <1>1
<1>5. \A i \in 1 .. Len(s) + Len(t) : i \in 1 .. Len(s) \/ i - Len(s) \in 1 .. Len(t)
  BY <1>0
<1>6. \A i \in 1 .. Len(s) + Len(t) : (s \o t)[i] \in Range(s) \cup Range(t)
  BY <1>0, <1>1, <1>5 DEF Range
<1>7. \A i \in 1 .. Len(s) : s[i] \in Range(s \o t)
  BY <1>2, <1>3 DEF Range
<1>8. \A i \in 1 .. Len(t) : t[i] \in Range(s \o t)
  BY <1>2, <1>4 DEF Range
<1>9. Range(s \o t) \subseteq Range(s) \cup Range(t) /\ Range(s) \cup Range(t) \subseteq Range(s \o t)
  <2>1. Range(s \o t) \subseteq Range(s) \cup Range(t)
    BY <1>2, <1>6 DEF Range
  <2>2. Range(s) \subseteq Range(s \o t)
    BY <1>0, <1>7 DEF Range
  <2>3. Range(t) \subseteq Range(s \o t)
    BY <1>0, <1>8 DEF Range
  <2> QED
    BY <2>1, <2>2, <2>3
<1> QED
  BY <1>1, <1>9

-----------------------------------------------------------------------------
(***************************************************************************)
(* The costs, and where a cell lies.                                       *)
(***************************************************************************)
CostsOf(w, h) == [width : {w}, height : {h}, data : [0 .. w * h - 1 -> 0 .. 255]]
CostsWide(w) == UNION {CostsOf(w, h) : h \in Nat}
Costs == UNION {CostsWide(w) : w \in Nat}

(* The copy is one of Costs.                                               *)
LEMMA CostShape ==
    ASSUME NEW g \in Costs
    PROVE  /\ g = [width |-> g.width, height |-> g.height, data |-> g.data]
           /\ g.width \in Nat /\ g.height \in Nat
           /\ g.data \in [0 .. g.width * g.height - 1 -> 0 .. 255]
<1>1. PICK w \in Nat : g \in CostsWide(w)
  BY DEF Costs
<1>2. PICK h \in Nat : g \in CostsOf(w, h)
  BY <1>1 DEF CostsWide
<1> QED
  BY <1>2 DEF CostsOf

LEMMA CostMade ==
    ASSUME NEW w \in Nat, NEW h \in Nat, NEW d \in [0 .. w * h - 1 -> 0 .. 255]
    PROVE  [width |-> w, height |-> h, data |-> d] \in Costs
<1>1. [width |-> w, height |-> h, data |-> d] \in CostsOf(w, h)
  BY DEF CostsOf
<1>2. [width |-> w, height |-> h, data |-> d] \in CostsWide(w)
  BY <1>1 DEF CostsWide
<1> QED
  BY <1>2 DEF Costs

Columns == costmap.width
Rows == costmap.height
Col(c) == XOf(costmap, c)
Row(c) == YOf(costmap, c)
Field == Cells(costmap)

LEMMA PlaceOf ==
    ASSUME costmap \in Costs, NEW c \in Field
    PROVE  /\ Columns \in Nat \ {0} /\ Rows \in Nat \ {0} /\ c \in Nat
           /\ Col(c) \in 0 .. Columns - 1 /\ Row(c) \in 0 .. Rows - 1 /\ c = Row(c) * Columns + Col(c)
<1>1. Columns \in Nat /\ Rows \in Nat /\ c \in 0 .. Columns * Rows - 1
  BY CostShape DEF Columns, Rows, Field, Cells
<1>2. /\ Columns # 0 /\ c \in Nat /\ c % Columns \in 0 .. Columns - 1 /\ c \div Columns \in 0 .. Rows - 1
      /\ c = (c \div Columns) * Columns + (c % Columns)
  BY <1>1, RowOfCell
<1>3. Col(c) = (c % Columns) /\ Row(c) = c \div Columns
  BY DEF Col, Row, XOf, YOf, Columns
<1>4. Rows # 0
  BY <1>1, <1>2
<1> QED
  BY <1>1, <1>2, <1>3, <1>4

(* A row and a column that the grid has are those of one cell of it.       *)
LEMMA CellAt ==
    ASSUME costmap \in Costs, Columns # 0, NEW x \in 0 .. Columns - 1, NEW y \in 0 .. Rows - 1
    PROVE  y * Columns + x \in Field /\ Col(y * Columns + x) = x /\ Row(y * Columns + x) = y
<1>1. Columns \in Nat /\ Rows \in Nat /\ y \in Nat /\ y < Rows /\ Columns \in Nat \ {0}
  BY CostShape DEF Columns, Rows
<1>2. /\ (y * Columns + x) % Columns = x /\ (y * Columns + x) \div Columns = y
      /\ y * Columns + x \in 0 .. Columns * Rows - 1
  BY <1>1, RowColumn
<1> QED
  BY <1>2 DEF Col, Row, XOf, YOf, Columns, Rows, Field, Cells

LEMMA SamePlace ==
    ASSUME costmap \in Costs, NEW c \in Field, NEW d \in Field, Col(c) = Col(d), Row(c) = Row(d)
    PROVE  c = d
BY PlaceOf, Zenon

LEMMA MaxOfFour ==
    ASSUME NEW a \in Int, NEW b \in Int
    PROVE  LET m == Max({a, -a, b, -b})
           IN m \in {a, -a, b, -b} /\ \A y \in {a, -a, b, -b} : m >= y
<1> DEFINE S == {a, -a, b, -b}
<1>1. \E m \in S : \A y \in S : m >= y
  OBVIOUS
<1> QED
  BY <1>1 DEF Max

(* The distance of two cells is the larger one of columns and rows.        *)
LEMMA ApartIs ==
    ASSUME costmap \in Costs, NEW c \in Field, NEW d \in Field
    PROVE  /\ Apart(c, d) \in Nat
           /\ - Apart(c, d) <= Col(c) - Col(d) /\ Col(c) - Col(d) <= Apart(c, d)
           /\ - Apart(c, d) <= Row(c) - Row(d) /\ Row(c) - Row(d) <= Apart(c, d)
           /\ \/ Apart(c, d) = Col(c) - Col(d) \/ Apart(c, d) = Col(d) - Col(c)
              \/ Apart(c, d) = Row(c) - Row(d) \/ Apart(c, d) = Row(d) - Row(c)
<1>1. Col(c) \in Nat /\ Col(d) \in Nat /\ Row(c) \in Nat /\ Row(d) \in Nat
  <2>1. Columns \in Nat /\ Rows \in Nat /\ Col(c) \in 0 .. Columns - 1 /\ Row(c) \in 0 .. Rows - 1
    BY PlaceOf
  <2>2. Col(d) \in 0 .. Columns - 1 /\ Row(d) \in 0 .. Rows - 1
    BY PlaceOf
  <2> QED
    BY <2>1, <2>2
<1> DEFINE a == Col(c) - Col(d)
           b == Row(c) - Row(d)
<1>2. a \in Int /\ b \in Int
  BY <1>1
<1>3. Apart(c, d) = Max({a, -a, b, -b})
  BY DEF Apart, Col, Row
<1>4. Apart(c, d) \in {a, -a, b, -b} /\ \A y \in {a, -a, b, -b} : Apart(c, d) >= y
  <2> HIDE DEF a, b
  <2> QED
    BY <1>2, <1>3, MaxOfFour
<1> QED
  BY <1>1, <1>2, <1>4

LEMMA ApartSame ==
    ASSUME costmap \in Costs, NEW c \in Field, NEW d \in Field
    PROVE  Apart(c, d) = Apart(d, c) /\ Apart(c, c) = 0 /\ (Apart(c, d) = 0 => c = d)
<1>1. Col(c) \in Nat /\ Row(c) \in Nat /\ Col(d) \in Nat /\ Row(d) \in Nat
  <2>1. Columns \in Nat /\ Rows \in Nat /\ Col(c) \in 0 .. Columns - 1 /\ Row(c) \in 0 .. Rows - 1
    BY PlaceOf
  <2>2. Col(d) \in 0 .. Columns - 1 /\ Row(d) \in 0 .. Rows - 1
    BY PlaceOf
  <2> QED
    BY <2>1, <2>2
<1>2. Apart(c, d) = Apart(d, c) /\ Apart(c, c) = 0
  BY <1>1, ApartIs
<1>3. Apart(c, d) = 0 => Col(c) = Col(d) /\ Row(c) = Row(d)
  BY <1>1, ApartIs
<1> QED
  BY <1>2, <1>3, SamePlace

(* A step to a cell around makes one farther by one at most.               *)
LEMMA ApartNear ==
    ASSUME costmap \in Costs, NEW p \in Field, NEW c \in Field, NEW d \in Field, Apart(c, d) = 1
    PROVE  Apart(p, d) <= Apart(p, c) + 1
<1>1. /\ Col(c) \in Nat /\ Row(c) \in Nat /\ Col(d) \in Nat /\ Row(d) \in Nat
      /\ Col(p) \in Nat /\ Row(p) \in Nat
  <2>1. Columns \in Nat /\ Rows \in Nat /\ Col(c) \in 0 .. Columns - 1 /\ Row(c) \in 0 .. Rows - 1
    BY PlaceOf
  <2>2. Col(d) \in 0 .. Columns - 1 /\ Row(d) \in 0 .. Rows - 1
    BY PlaceOf
  <2>3. Col(p) \in 0 .. Columns - 1 /\ Row(p) \in 0 .. Rows - 1
    BY PlaceOf
  <2> QED
    BY <2>1, <2>2, <2>3
<1> QED
  BY <1>1, ApartIs

(* Between the robot and a cell there is one at every smaller distance.    *)
LEMMA OnTheWay ==
    ASSUME costmap \in Costs, NEW p \in Field, NEW c \in Field, NEW k \in 0 .. Apart(p, c)
    PROVE  \E b \in Field : Apart(p, b) = k /\ Apart(b, c) = Apart(p, c) - k
<1>1. /\ Columns \in Nat \ {0} /\ Rows \in Nat \ {0} /\ Col(c) \in 0 .. Columns - 1 /\ Row(c) \in 0 .. Rows - 1
  BY PlaceOf
<1>2. Col(p) \in 0 .. Columns - 1 /\ Row(p) \in 0 .. Rows - 1
  BY PlaceOf
<1> PICK px, py, cx, cy, t : /\ px = Col(p) /\ py = Row(p) /\ cx = Col(c) /\ cy = Row(c)
                            /\ t = Apart(p, c)
  OBVIOUS
<1>3. /\ px \in 0 .. Columns - 1 /\ cx \in 0 .. Columns - 1
      /\ py \in 0 .. Rows - 1 /\ cy \in 0 .. Rows - 1 /\ k \in Nat /\ k <= t /\ t \in Nat
      /\ -t <= px - cx /\ px - cx <= t /\ -t <= py - cy /\ py - cy <= t
      /\ t = px - cx \/ t = cx - px \/ t = py - cy \/ t = cy - py
  BY <1>1, <1>2, ApartIs
<1> DEFINE Toward(from, to) == IF to - from > k THEN from + k
                               ELSE IF from - to > k THEN from - k ELSE to
<1> PICK x, y : x = Toward(px, cx) /\ y = Toward(py, cy)
  OBVIOUS
<1>4. x \in 0 .. Columns - 1 /\ y \in 0 .. Rows - 1
  BY <1>1, <1>3
<1> PICK b : b = y * Columns + x
  OBVIOUS
<1>5. b \in Field /\ Col(b) = x /\ Row(b) = y
  BY <1>1, <1>4, CellAt
<1> PICK u, v : u = Apart(p, b) /\ v = Apart(b, c)
  OBVIOUS
<1>6. /\ u \in Nat /\ -u <= px - x /\ px - x <= u /\ -u <= py - y /\ py - y <= u
      /\ u = px - x \/ u = x - px \/ u = py - y \/ u = y - py
  BY <1>5, ApartIs
<1>7. /\ v \in Nat /\ -v <= x - cx /\ x - cx <= v /\ -v <= y - cy /\ y - cy <= v
      /\ v = x - cx \/ v = cx - x \/ v = y - cy \/ v = cy - y
  BY <1>5, ApartIs
<1>8. /\ px \in Nat /\ py \in Nat /\ cx \in Nat /\ cy \in Nat /\ x \in Nat /\ y \in Nat
  BY <1>1, <1>3, <1>4
<1>9. u = k
  BY <1>3, <1>6, <1>8
<1>10. v = t - k
  BY <1>3, <1>7, <1>8
<1> QED
  BY <1>5, <1>9, <1>10

-----------------------------------------------------------------------------
(***************************************************************************)
(* The neighbours that the code computes are the cells around a cell.      *)
(***************************************************************************)
LEMMA OneCell ==
    ASSUME NEW S, NEW e \in S
    PROVE  <<e>> \in Seq(S) /\ Range(<<e>>) = {e}
<1>1. <<e>> \in Seq(S) /\ DOMAIN <<e>> = {1} /\ <<e>>[1] = e
  OBVIOUS
<1> QED
  BY <1>1 DEF Range

LEMMA NoCell ==
    ASSUME NEW S
    PROVE  <<>> \in Seq(S) /\ Range(<<>>) = {}
BY DEF Range

(* The cell dx columns right of cell c and dy rows below it.               *)
Off(c, d, dx, dy) == Col(d) = Col(c) + dx /\ Row(d) = Row(c) + dy

LEMMA CellOff ==
    ASSUME costmap \in Costs, NEW c \in Field, NEW dx \in {-1, 0, 1}, NEW dy \in {-1, 0, 1},
           Col(c) + dx \in 0 .. Columns - 1, Row(c) + dy \in 0 .. Rows - 1
    PROVE  /\ c + dy * Columns + dx \in Field /\ Off(c, c + dy * Columns + dx, dx, dy)
           /\ \A d \in Field : Off(c, d, dx, dy) <=> d = c + dy * Columns + dx
<1> DEFINE x == Col(c) + dx
           y == Row(c) + dy
           b == y * Columns + x
<1>1. Columns \in Nat \ {0} /\ Rows \in Nat \ {0} /\ Col(c) \in Nat /\ Row(c) \in Nat /\ c = Row(c) * Columns + Col(c)
  BY PlaceOf
<1>2. b \in Field /\ Col(b) = x /\ Row(b) = y
  <2>1. x \in 0 .. Columns - 1 /\ y \in 0 .. Rows - 1
    OBVIOUS
  <2> HIDE DEF x, y
  <2> QED
    BY <1>1, <2>1, CellAt
<1>3. b = c + dy * Columns + dx
  BY <1>1
<1> HIDE DEF b
<1>4. Off(c, b, dx, dy)
  BY <1>2 DEF Off
<1>5. ASSUME NEW d \in Field, Off(c, d, dx, dy) PROVE d = b
  BY <1>2, <1>5, SamePlace DEF Off
<1> QED
  BY <1>2, <1>3, <1>4, <1>5

(* The place of a cell tells which neighbours the map has.                 *)
LEMMA Edges ==
    ASSUME costmap \in Costs, NEW c \in Field
    PROVE  /\ c % costmap.width > 0 <=> Col(c) - 1 \in 0 .. Columns - 1
           /\ c % costmap.width < costmap.width - 1 <=> Col(c) + 1 \in 0 .. Columns - 1
           /\ c >= costmap.width <=> Row(c) - 1 \in 0 .. Rows - 1
           /\ c < costmap.width * (costmap.height - 1) <=> Row(c) + 1 \in 0 .. Rows - 1
<1>1. /\ Columns \in Nat \ {0} /\ Rows \in Nat \ {0} /\ c \in Nat
      /\ Col(c) \in 0 .. Columns - 1 /\ Row(c) \in 0 .. Rows - 1 /\ c = Row(c) * Columns + Col(c)
  BY PlaceOf
<1>2. c % costmap.width = Col(c) /\ costmap.width = Columns /\ costmap.height = Rows
  BY DEF Col, XOf, Columns, Rows
<1>3. c >= Columns <=> Row(c) >= 1
  <2>1. Row(c) = 0 \/ Row(c) >= 1
    BY <1>1
  <2>2. Row(c) >= 1 => Row(c) * Columns >= Columns
    BY <1>1, RowsApart
  <2>3. Row(c) = 0 => Row(c) * Columns = 0
    BY <1>1
  <2>4. Row(c) * Columns \in Nat
    BY <1>1
  <2> QED
    BY <1>1, <2>1, <2>2, <2>3, <2>4
<1>4. c < Columns * (Rows - 1) <=> Row(c) < Rows - 1
  <2>1. Row(c) < Rows - 1 => (Rows - 1) * Columns >= Row(c) * Columns + Columns
    BY <1>1, RowsApart
  <2>2. Row(c) >= Rows - 1 => Row(c) = Rows - 1
    BY <1>1
  <2>3. Columns * (Rows - 1) = (Rows - 1) * Columns /\ (Rows - 1) * Columns \in Nat /\ Row(c) * Columns \in Nat
    BY <1>1
  <2> QED
    BY <1>1, <2>1, <2>2, <2>3
<1> QED
  BY <1>1, <1>2, <1>3, <1>4

LEMMA Beyond ==
    ASSUME costmap \in Costs, NEW c \in Field, NEW dx \in {-1, 0, 1}, NEW dy \in {-1, 0, 1},
           NEW e, NEW P \in BOOLEAN, e = c + dy * Columns + dx,
           P <=> Col(c) + dx \in 0 .. Columns - 1 /\ Row(c) + dy \in 0 .. Rows - 1
    PROVE  /\ (IF P THEN <<e>> ELSE <<>>) \in Seq(Field)
           /\ Range(IF P THEN <<e>> ELSE <<>>) = {d \in Field : Off(c, d, dx, dy)}
<1>1. P => e \in Field /\ \A d \in Field : Off(c, d, dx, dy) <=> d = e
  BY CellOff
<1>2. ~P => \A d \in Field : ~Off(c, d, dx, dy)
  BY PlaceOf DEF Off
<1>3. CASE P
  BY <1>1, <1>3, OneCell
<1>4. CASE ~P
  BY <1>2, <1>4, NoCell
<1> QED
  BY <1>3, <1>4

(* The neighbours that share a side, and those that share a corner.        *)
OnSide(c, d) ==
    \/ Off(c, d, -1, 0) \/ Off(c, d, 1, 0) \/ Off(c, d, 0, -1) \/ Off(c, d, 0, 1)
OnCorner(c, d) ==
    \/ Off(c, d, -1, -1) \/ Off(c, d, -1, 1) \/ Off(c, d, 1, -1) \/ Off(c, d, 1, 1)

(* nhood4() yields the cells beside a cell: a side each, unless the map    *)
(* ends there.                                                             *)
LEMMA Four ==
    ASSUME NEW S, NEW a \in Seq(S), NEW b \in Seq(S), NEW c \in Seq(S), NEW d \in Seq(S)
    PROVE  /\ a \o b \o c \o d \in Seq(S)
           /\ Range(a \o b \o c \o d) = Range(a) \cup Range(b) \cup Range(c) \cup Range(d)
<1> DEFINE ab == a \o b
           abc == ab \o c
<1>1. ab \in Seq(S) /\ Range(ab) = Range(a) \cup Range(b)
  BY InConcat
<1> HIDE DEF ab
<1>2. abc \in Seq(S) /\ Range(abc) = Range(ab) \cup Range(c)
  BY <1>1, InConcat
<1> HIDE DEF abc
<1>3. abc \o d \in Seq(S) /\ Range(abc \o d) = Range(abc) \cup Range(d)
  BY <1>2, InConcat
<1> QED
  BY <1>1, <1>2, <1>3 DEF ab, abc

LEMMA Sides ==
    ASSUME costmap \in Costs, NEW c \in Field
    PROVE  nhood4(c) \in Seq(Field) /\ Range(nhood4(c)) = {d \in Field : OnSide(c, d)}
<1> DEFINE left == c % costmap.width > 0
           right == c % costmap.width < costmap.width - 1
           above == c >= costmap.width
           below == c < costmap.width * (costmap.height - 1)
           l == IF left THEN <<c - 1>> ELSE <<>>
           r == IF right THEN <<c + 1>> ELSE <<>>
           a == IF above THEN <<c - costmap.width>> ELSE <<>>
           b == IF below THEN <<c + costmap.width>> ELSE <<>>
<1>1. /\ Columns \in Nat \ {0} /\ Rows \in Nat \ {0} /\ c \in Nat /\ costmap.width = Columns
      /\ Col(c) \in 0 .. Columns - 1 /\ Row(c) \in 0 .. Rows - 1
  BY PlaceOf DEF Columns
<1>2. /\ left <=> Col(c) - 1 \in 0 .. Columns - 1
      /\ right <=> Col(c) + 1 \in 0 .. Columns - 1
      /\ above <=> Row(c) - 1 \in 0 .. Rows - 1
      /\ below <=> Row(c) + 1 \in 0 .. Rows - 1
  BY Edges
<1>3. left \in BOOLEAN /\ right \in BOOLEAN /\ above \in BOOLEAN /\ below \in BOOLEAN
  OBVIOUS
<1>4. nhood4(c) = l \o r \o a \o b
  BY DEF nhood4
<1> HIDE DEF left, right, above, below
<1>5. l \in Seq(Field) /\ Range(l) = {d \in Field : Off(c, d, -1, 0)}
  <2>1. c - 1 = c + 0 * Columns + (-1)
    BY <1>1
  <2>2. left <=> Col(c) + (-1) \in 0 .. Columns - 1 /\ Row(c) + 0 \in 0 .. Rows - 1
    BY <1>1, <1>2
  <2> QED
    BY <1>3, <2>1, <2>2, Beyond
<1>6. r \in Seq(Field) /\ Range(r) = {d \in Field : Off(c, d, 1, 0)}
  <2>1. c + 1 = c + 0 * Columns + 1
    BY <1>1
  <2>2. right <=> Col(c) + 1 \in 0 .. Columns - 1 /\ Row(c) + 0 \in 0 .. Rows - 1
    BY <1>1, <1>2
  <2> QED
    BY <1>3, <2>1, <2>2, Beyond
<1>7. a \in Seq(Field) /\ Range(a) = {d \in Field : Off(c, d, 0, -1)}
  <2>1. c - costmap.width = c + (-1) * Columns + 0
    BY <1>1
  <2>2. above <=> Col(c) + 0 \in 0 .. Columns - 1 /\ Row(c) + (-1) \in 0 .. Rows - 1
    BY <1>1, <1>2
  <2> QED
    BY <1>3, <2>1, <2>2, Beyond
<1>8. b \in Seq(Field) /\ Range(b) = {d \in Field : Off(c, d, 0, 1)}
  <2>1. c + costmap.width = c + 1 * Columns + 0
    BY <1>1
  <2>2. below <=> Col(c) + 0 \in 0 .. Columns - 1 /\ Row(c) + 1 \in 0 .. Rows - 1
    BY <1>1, <1>2
  <2> QED
    BY <1>3, <2>1, <2>2, Beyond
<1> HIDE DEF l, r, a, b
<1> QED
  BY <1>4, <1>5, <1>6, <1>7, <1>8, Four DEF OnSide

(* What nhood8() adds are the cells around a corner.                       *)
LEMMA Corners ==
    ASSUME costmap \in Costs, NEW c \in Field
    PROVE  nhood8(c) \in Seq(Field) /\ Range(nhood8(c)) = {d \in Field : OnSide(c, d) \/ OnCorner(c, d)}
<1> DEFINE left == c % costmap.width > 0
           right == c % costmap.width < costmap.width - 1
           above == c >= costmap.width
           below == c < costmap.width * (costmap.height - 1)
           upleft == left /\ above       downleft == left /\ below
           upright == right /\ above     downright == right /\ below
           la == IF upleft THEN <<c - 1 - costmap.width>> ELSE <<>>
           lb == IF downleft THEN <<c - 1 + costmap.width>> ELSE <<>>
           ra == IF upright THEN <<c + 1 - costmap.width>> ELSE <<>>
           rb == IF downright THEN <<c + 1 + costmap.width>> ELSE <<>>
<1>1. /\ Columns \in Nat \ {0} /\ Rows \in Nat \ {0} /\ c \in Nat /\ costmap.width = Columns
      /\ Col(c) \in 0 .. Columns - 1 /\ Row(c) \in 0 .. Rows - 1
  BY PlaceOf DEF Columns
<1>2. /\ left <=> Col(c) + (-1) \in 0 .. Columns - 1
      /\ right <=> Col(c) + 1 \in 0 .. Columns - 1
      /\ above <=> Row(c) + (-1) \in 0 .. Rows - 1
      /\ below <=> Row(c) + 1 \in 0 .. Rows - 1
  BY <1>1, Edges
<1>3. /\ upleft \in BOOLEAN /\ downleft \in BOOLEAN /\ upright \in BOOLEAN /\ downright \in BOOLEAN
      /\ upleft <=> Col(c) + (-1) \in 0 .. Columns - 1 /\ Row(c) + (-1) \in 0 .. Rows - 1
      /\ downleft <=> Col(c) + (-1) \in 0 .. Columns - 1 /\ Row(c) + 1 \in 0 .. Rows - 1
      /\ upright <=> Col(c) + 1 \in 0 .. Columns - 1 /\ Row(c) + (-1) \in 0 .. Rows - 1
      /\ downright <=> Col(c) + 1 \in 0 .. Columns - 1 /\ Row(c) + 1 \in 0 .. Rows - 1
  <2> HIDE DEF left, right, above, below
  <2> QED
    BY <1>2
<1>4. nhood8(c) = nhood4(c) \o la \o lb \o ra \o rb
  BY DEF nhood8
<1> HIDE DEF upleft, downleft, upright, downright
<1>5. la \in Seq(Field) /\ Range(la) = {d \in Field : Off(c, d, -1, -1)}
  <2>1. c - 1 - costmap.width = c + (-1) * Columns + (-1)
    BY <1>1
  <2> QED
    BY <1>3, <2>1, Beyond
<1>6. lb \in Seq(Field) /\ Range(lb) = {d \in Field : Off(c, d, -1, 1)}
  <2>1. c - 1 + costmap.width = c + 1 * Columns + (-1)
    BY <1>1
  <2> QED
    BY <1>3, <2>1, Beyond
<1>7. ra \in Seq(Field) /\ Range(ra) = {d \in Field : Off(c, d, 1, -1)}
  <2>1. c + 1 - costmap.width = c + (-1) * Columns + 1
    BY <1>1
  <2> QED
    BY <1>3, <2>1, Beyond
<1>8. rb \in Seq(Field) /\ Range(rb) = {d \in Field : Off(c, d, 1, 1)}
  <2>1. c + 1 + costmap.width = c + 1 * Columns + 1
    BY <1>1
  <2> QED
    BY <1>3, <2>1, Beyond
<1>9. nhood4(c) \in Seq(Field) /\ Range(nhood4(c)) = {d \in Field : OnSide(c, d)}
  BY Sides
<1> HIDE DEF la, lb, ra, rb
<1> DEFINE n == nhood4(c)
           nla == n \o la
<1>10. nla \in Seq(Field) /\ Range(nla) = {d \in Field : OnSide(c, d) \/ Off(c, d, -1, -1)}
  <2> HIDE DEF n
  <2>1. n \in Seq(Field) /\ Range(n) = {d \in Field : OnSide(c, d)}
    BY <1>9 DEF n
  <2>2. nla \in Seq(Field) /\ Range(nla) = Range(n) \cup Range(la)
    BY <1>5, <2>1, InConcat
  <2> QED
    BY <1>5, <2>1, <2>2
<1>11. /\ nhood8(c) \in Seq(Field)
       /\ Range(nhood8(c)) = Range(nla) \cup Range(lb) \cup Range(ra) \cup Range(rb)
  <2>1. nhood8(c) = nla \o lb \o ra \o rb
    BY <1>4
  <2> HIDE DEF nla
  <2> QED
    BY <1>6, <1>7, <1>8, <1>10, <2>1, Four
<1> HIDE DEF nla
<1> QED
  BY <1>6, <1>7, <1>8, <1>10, <1>11 DEF OnCorner

(* The neighbours in the code's order are the cells around.                *)
LEMMA AroundIs ==
    ASSUME costmap \in Costs, NEW c \in Field, NEW d \in Field
    PROVE  /\ d \in Around[c] <=> OnSide(c, d) \/ OnCorner(c, d)
           /\ d \in Beside[c] <=> OnSide(c, d)
<1>1. /\ Col(c) \in Nat /\ Row(c) \in Nat /\ Col(d) \in Nat /\ Row(d) \in Nat
  <2>1. Columns \in Nat /\ Rows \in Nat /\ Col(c) \in 0 .. Columns - 1 /\ Row(c) \in 0 .. Rows - 1
    BY PlaceOf
  <2>2. Col(d) \in 0 .. Columns - 1 /\ Row(d) \in 0 .. Rows - 1
    BY PlaceOf
  <2> QED
    BY <2>1, <2>2
<1>2. Apart(c, d) = 1 <=> OnSide(c, d) \/ OnCorner(c, d)
  BY <1>1, ApartIs DEF OnSide, OnCorner, Off
<1>3. d \in Around[c] <=> Apart(c, d) = 1
  BY DEF Around, Field
<1>4. d \in Beside[c] <=> d \in Around[c] /\ (Col(c) = Col(d) \/ Row(c) = Row(d))
  BY DEF Beside, Field, Col, Row
<1> QED
  BY <1>1, <1>2, <1>3, <1>4 DEF OnSide, OnCorner, Off

(* nhood4() and nhood8() yield the cells beside and around a cell, for any *)
(* size.                                                                   *)
LEMMA Neighbours ==
    ASSUME costmap \in Costs, NEW c \in Field
    PROVE  /\ nhood4(c) \in Seq(Field) /\ Range(nhood4(c)) = Beside[c]
           /\ nhood8(c) \in Seq(Field) /\ Range(nhood8(c)) = Around[c]
           /\ Beside[c] \subseteq Around[c] /\ Around[c] \subseteq Field
           /\ \A d \in Field : d \in Around[c] <=> Apart(c, d) = 1
<1>1. Beside[c] \subseteq Around[c] /\ Around[c] \subseteq Field /\ \A d \in Field : d \in Around[c] <=> Apart(c, d) = 1
  BY DEF Beside, Around, Field
<1> QED
  BY <1>1, Sides, Corners, AroundIs

(* Being beside and being around go both ways.                             *)
LEMMA Mutual ==
    ASSUME costmap \in Costs, NEW c \in Field, NEW d \in Field
    PROVE  /\ d \in Around[c] => c \in Around[d]
           /\ d \in Beside[c] => c \in Beside[d]
<1>1. Col(c) \in Nat /\ Row(c) \in Nat /\ Col(d) \in Nat /\ Row(d) \in Nat
  <2>1. Columns \in Nat /\ Rows \in Nat /\ Col(c) \in 0 .. Columns - 1 /\ Row(c) \in 0 .. Rows - 1
    BY PlaceOf
  <2>2. Col(d) \in 0 .. Columns - 1 /\ Row(d) \in 0 .. Rows - 1
    BY PlaceOf
  <2> QED
    BY <2>1, <2>2
<1> QED
  BY <1>1, AroundIs DEF OnSide, OnCorner, Off

-----------------------------------------------------------------------------
(***************************************************************************)
(* nearestCell() finds a free cell that none is nearer than.               *)
(***************************************************************************)
Dist == [c \in Field |-> Apart(position, c)]

(* Every cell no farther than d is found, and the cells still in the queue *)
(* are d or d + 1 away, nearest first; none of the others holds val, and   *)
(* what is around them is found or about to be.                            *)
Wave(d) ==
    /\ bfs \in Seq(Field) /\ nbrs \in Seq(Field)
    /\ visited_flag \subseteq Field /\ Range(bfs) \subseteq visited_flag
    /\ \A c \in Range(bfs) : Dist[c] \in {d, d + 1}
    /\ \A i, j \in DOMAIN bfs : i <= j => Dist[bfs[i]] <= Dist[bfs[j]]
    /\ \A n \in Range(nbrs) : Dist[n] <= d + 1
    /\ \A c \in Field : Dist[c] <= d => c \in visited_flag
    /\ \A c \in visited_flag \ Range(bfs) :
         /\ Dist[c] <= d /\ costmap.data[c] # FREE_SPACE
         /\ Around[c] \subseteq visited_flag \cup Range(nbrs)

Seeking == pc = "seek" => \E d \in Nat : Wave(d)

(* Distances from the robot change by one from a cell to a neighbour.      *)
LEMMA Far ==
    ASSUME costmap \in Costs, position \in Field
    PROVE  /\ Dist \in [Field -> Nat] /\ Dist[position] = 0 /\ \A c \in Field : Dist[c] = 0 => c = position
           /\ \A c \in Field : \A d \in Around[c] : Dist[d] <= Dist[c] + 1
           /\ \A c \in Field : \A k \in 0 .. Dist[c] : \E b \in Field : Dist[b] = k
           /\ \A c \in Field : \A k \in Nat : Dist[c] = k + 1 => \E b \in Field : Dist[b] = k /\ c \in Around[b]
<1>1. Dist \in [Field -> Nat] /\ \A c \in Field : Dist[c] = Apart(position, c)
  BY ApartIs DEF Dist
<1>2. Dist[position] = 0 /\ \A c \in Field : Dist[c] = 0 => c = position
  BY <1>1, ApartSame
<1>3. ASSUME NEW c \in Field, NEW d \in Around[c] PROVE Dist[d] <= Dist[c] + 1
  <2>1. d \in Field /\ Apart(c, d) = 1
    BY Neighbours
  <2> QED
    BY <1>1, <2>1, ApartNear
<1>4. ASSUME NEW c \in Field, NEW k \in 0 .. Dist[c] PROVE \E b \in Field : Dist[b] = k
  BY <1>1, OnTheWay
<1>5. ASSUME NEW c \in Field, NEW k \in Nat, Dist[c] = k + 1
      PROVE  \E b \in Field : Dist[b] = k /\ c \in Around[b]
  <2>1. k \in 0 .. Apart(position, c)
    BY <1>1, <1>5
  <2>2. PICK b \in Field : Apart(position, b) = k /\ Apart(b, c) = Apart(position, c) - k
    BY <2>1, OnTheWay
  <2>3. Apart(b, c) = 1
    BY <1>1, <1>5, <2>2
  <2> QED
    BY <1>1, <2>2, <2>3, Neighbours
<1> QED
  BY <1>1, <1>2, <1>3, <1>4, <1>5

(* Neighbourhoods and kinds of cells depend on the map alone.              *)
LEMMA Unmoved ==
    ASSUME costmap' = costmap
    PROVE  /\ Field' = Field /\ Around' = Around /\ Beside' = Beside
           /\ FreeCells' = FreeCells /\ FrontierCells' = FrontierCells
           /\ position' = position => Dist' = Dist
<1>1. Field' = Field
  BY DEF Field, Cells
<1>2. Around' = Around
  BY DEF Around, Apart, XOf, YOf, Cells
<1>3. Beside' = Beside
  BY <1>2 DEF Beside, XOf, YOf, Cells
<1>4. FreeCells' = FreeCells
  BY DEF FreeCells, map, Cells
<1>5. FrontierCells' = FrontierCells
  BY <1>3, <1>4 DEF FrontierCells, map, Cells
<1>6. position' = position => Dist' = Dist
  BY <1>1 DEF Dist, Apart, XOf, YOf
<1> QED
  BY <1>1, <1>2, <1>3, <1>4, <1>5, <1>6

(* The wave begins at the robot, takes in one neighbour of a cell after    *)
(* the other, moves on to the next cell, and stops at a free one, or       *)
(* nowhere.                                                                *)
LEMMA SeekStarts ==
    ASSUME costmap \in Costs, position \in Field, costmap' = costmap, position' = position,
           bfs' = <<position>>, visited_flag' = {position}, nbrs' = <<>>
    PROVE  Wave(0)'
<1>1. bfs' \in Seq(Field) /\ Range(bfs') = {position} /\ DOMAIN bfs' = {1} /\ bfs'[1] = position
  BY OneCell
<1>2. nbrs' \in Seq(Field) /\ Range(nbrs') = {}
  BY NoCell
<1>3. /\ Dist \in [Field -> Nat] /\ Dist[position] = 0 /\ \A c \in Field : Dist[c] = 0 => c = position
  BY Far
<1>4. Dist' = Dist /\ Field' = Field /\ Around' = Around
  BY Unmoved
<1> QED
  BY <1>1, <1>2, <1>3, <1>4 DEF Wave

LEMMA SeekLooks ==
    ASSUME costmap \in Costs, position \in Field, NEW d \in Nat, Wave(d), pc = "seek", Seek
    PROVE  Wave(d)'
<1>1. nbrs # <<>> /\ costmap' = costmap /\ position' = position
  BY DEF Seek, client
<1>2. Dist' = Dist /\ Field' = Field /\ Around' = Around
  BY <1>1, Unmoved
<1> DEFINE n == Head(nbrs)
<1>3. n \in Field /\ nbrs' \in Seq(Field) /\ Range(nbrs) = {n} \cup Range(nbrs')
  BY <1>1, InHeadTail DEF Seek, Wave
<1>4. Dist \in [Field -> Nat]
  BY Far
<1>5. CASE n \in visited_flag
  <2>1. bfs' = bfs /\ visited_flag' = visited_flag
    BY <1>5 DEF Seek
  <2> HIDE DEF n
  <2> QED
    BY <1>1, <1>2, <1>3, <1>5, <2>1 DEF Wave
<1>6. CASE n \notin visited_flag
  <2>1. bfs' = Append(bfs, n) /\ visited_flag' = visited_flag \cup {n}
    BY <1>6 DEF Seek
  <2> HIDE DEF n
  <2>2. Dist[n] = d + 1
    BY <1>3, <1>4, <1>6 DEF Wave
  <2>3. /\ bfs' \in Seq(Field) /\ Range(bfs') = Range(bfs) \cup {n}
    BY <1>3, <2>1, InAppend DEF Wave
  <2>4. \A i, j \in DOMAIN bfs' : i <= j => Dist[bfs'[i]] <= Dist[bfs'[j]]
    <3>1. /\ Len(bfs) \in Nat /\ DOMAIN bfs = 1 .. Len(bfs) /\ DOMAIN bfs' = 1 .. Len(bfs) + 1
          /\ \A i \in 1 .. Len(bfs) : bfs'[i] = bfs[i] /\ bfs[i] \in Field
          /\ bfs'[Len(bfs) + 1] = n
      BY <1>3, <2>1 DEF Wave
    <3>2. \A i \in 1 .. Len(bfs) : Dist[bfs[i]] <= d + 1
      <4>1. \A i \in 1 .. Len(bfs) : bfs[i] \in Range(bfs)
        BY <3>1 DEF Range
      <4>2. \A i \in 1 .. Len(bfs) : Dist[bfs[i]] \in {d, d + 1}
        BY <4>1 DEF Wave
      <4> QED
        BY <4>2
    <3> SUFFICES ASSUME NEW i \in 1 .. Len(bfs) + 1, NEW j \in 1 .. Len(bfs) + 1, i <= j
                 PROVE  Dist[bfs'[i]] <= Dist[bfs'[j]]
      BY <3>1
    <3>3. CASE j = Len(bfs) + 1
      BY <1>3, <1>4, <2>2, <3>1, <3>2, <3>3
    <3>4. CASE j # Len(bfs) + 1
      <4>1. i \in 1 .. Len(bfs) /\ j \in 1 .. Len(bfs)
        BY <3>1, <3>4
      <4> QED
        BY <3>1, <4>1 DEF Wave
    <3> QED
      BY <3>3, <3>4
  <2> QED
    BY <1>1, <1>2, <1>3, <1>4, <2>1, <2>2, <2>3, <2>4 DEF Wave
<1> QED
  BY <1>5, <1>6

(* The cell at the front of the queue is none farther than the others in   *)
(* it.                                                                     *)
LEMMA FrontNearest ==
    ASSUME costmap \in Costs, position \in Field, NEW d \in Nat, Wave(d), bfs # <<>>
    PROVE  /\ Head(bfs) \in Range(bfs) /\ \A c \in Range(bfs) : Dist[Head(bfs)] <= Dist[c]
           /\ Tail(bfs) \in Seq(Field) /\ Range(bfs) = {Head(bfs)} \cup Range(Tail(bfs))
           /\ \A i, j \in DOMAIN Tail(bfs) : i <= j => Dist[Tail(bfs)[i]] <= Dist[Tail(bfs)[j]]
<1>1. /\ Len(bfs) \in Nat \ {0} /\ DOMAIN bfs = 1 .. Len(bfs) /\ Head(bfs) = bfs[1]
      /\ Tail(bfs) \in Seq(Field) /\ DOMAIN Tail(bfs) = 1 .. Len(bfs) - 1
      /\ \A i \in 1 .. Len(bfs) - 1 : Tail(bfs)[i] = bfs[i + 1]
  BY HeadTailProperties DEF Wave
<1>2. \A c \in Range(bfs) : Dist[Head(bfs)] <= Dist[c]
  <2> SUFFICES ASSUME NEW i \in DOMAIN bfs PROVE Dist[bfs[1]] <= Dist[bfs[i]]
    BY <1>1 DEF Range
  <2> QED
    BY <1>1 DEF Wave
<1>3. \A i, j \in DOMAIN Tail(bfs) : i <= j => Dist[Tail(bfs)[i]] <= Dist[Tail(bfs)[j]]
  <2> SUFFICES ASSUME NEW i \in 1 .. Len(bfs) - 1, NEW j \in 1 .. Len(bfs) - 1, i <= j
               PROVE  Dist[Tail(bfs)[i]] <= Dist[Tail(bfs)[j]]
    BY <1>1
  <2>1. i + 1 \in DOMAIN bfs /\ j + 1 \in DOMAIN bfs /\ i + 1 <= j + 1
    BY <1>1
  <2>2. Dist[bfs[i + 1]] <= Dist[bfs[j + 1]]
    BY <2>1 DEF Wave
  <2> QED
    BY <1>1, <2>2
<1> QED
  BY <1>1, <1>2, <1>3, InHeadTail DEF Wave

LEMMA SeekTakes ==
    ASSUME costmap \in Costs, position \in Field, NEW d \in Nat, Wave(d), costmap' = costmap,
           position' = position, visited_flag' = visited_flag, nbrs = <<>>,
           bfs # <<>>, map(Head(bfs)) # FREE_SPACE, nbrs' = nhood8(Head(bfs)), bfs' = Tail(bfs)
    PROVE  \E e \in Nat : Wave(e)'
<1> DEFINE h == Head(bfs)
<1>1. Dist' = Dist /\ Field' = Field /\ Around' = Around
  BY Unmoved
<1>2. /\ h \in Range(bfs) /\ \A c \in Range(bfs) : Dist[h] <= Dist[c]
      /\ bfs' \in Seq(Field) /\ Range(bfs) = {h} \cup Range(bfs')
      /\ \A i, j \in DOMAIN bfs' : i <= j => Dist[bfs'[i]] <= Dist[bfs'[j]]
  BY FrontNearest
<1>3. h \in Field /\ h \in visited_flag /\ Range(nbrs) = {} /\ costmap.data[h] # FREE_SPACE
  BY <1>2, NoCell DEF Wave, map
<1>4. nbrs' \in Seq(Field) /\ Range(nbrs') = Around[h]
  <2> HIDE DEF h
  <2> QED
    BY <1>3, Neighbours DEF h
<1>5. /\ Dist \in [Field -> Nat]
      /\ \A c \in Field : \A e \in Around[c] : Dist[e] <= Dist[c] + 1
      /\ \A c \in Field : \A k \in Nat : Dist[c] = k + 1 => \E b \in Field : Dist[b] = k /\ c \in Around[b]
  BY Far
<1> HIDE DEF h
<1>6. Around[h] \subseteq Field
  BY <1>3, Neighbours
<1>7. CASE Dist[h] = d
  <2>1. \A n \in Range(nbrs') : Dist[n] <= d + 1
    BY <1>3, <1>4, <1>5, <1>7
  <2>2. \A c \in visited_flag \ Range(bfs') :
          /\ Dist[c] <= d /\ costmap.data[c] # FREE_SPACE
          /\ Around[c] \subseteq visited_flag \cup Range(nbrs')
    BY <1>2, <1>3, <1>4, <1>7 DEF Wave
  <2>3. Wave(d)'
    BY <1>1, <1>2, <1>4, <2>1, <2>2 DEF Wave
  <2> QED
    BY <2>3
<1>8. CASE Dist[h] = d + 1
  <2>1. \A c \in Range(bfs) : Dist[c] = d + 1
    <3> SUFFICES ASSUME NEW c \in Range(bfs) PROVE Dist[c] = d + 1
      OBVIOUS
    <3>1. c \in Field /\ Dist[c] \in {d, d + 1} /\ Dist[h] <= Dist[c]
      BY <1>2 DEF Wave
    <3> QED
      BY <1>5, <1>8, <3>1
  <2>2. \A n \in Range(nbrs') : Dist[n] <= d + 2
    BY <1>3, <1>4, <1>5, <1>8
  <2>3. ASSUME NEW c \in Field, Dist[c] <= d + 1 PROVE c \in visited_flag
    <3>1. CASE Dist[c] <= d
      BY <3>1 DEF Wave
    <3>2. CASE Dist[c] = d + 1
      <4>1. PICK b \in Field : Dist[b] = d /\ c \in Around[b]
        BY <1>5, <3>2
      <4>2. b \in visited_flag /\ b \notin Range(bfs)
        BY <2>1, <4>1 DEF Wave
      <4> QED
        BY <1>3, <4>1, <4>2 DEF Wave
    <3> QED
      BY <1>5, <2>3, <3>1, <3>2
  <2>4. ASSUME NEW c \in visited_flag \ Range(bfs')
        PROVE  /\ Dist[c] <= d + 1 /\ costmap.data[c] # FREE_SPACE
               /\ Around[c] \subseteq visited_flag \cup Range(nbrs')
    <3>1. CASE c = h
      BY <1>3, <1>4, <1>8, <3>1
    <3>2. CASE c # h
      <4>1. c \in visited_flag \ Range(bfs) /\ c \in Field
        BY <1>2, <3>2 DEF Wave
      <4> QED
        BY <1>3, <1>5, <4>1 DEF Wave
    <3> QED
      BY <3>1, <3>2
  <2>5. \A c \in Range(bfs') : Dist[c] \in {d + 1, d + 1 + 1}
    BY <1>2, <2>1
  <2>6. Range(bfs') \subseteq visited_flag /\ visited_flag \subseteq Field
    BY <1>2 DEF Wave
  <2>7. \A n \in Range(nbrs') : Dist[n] <= d + 1 + 1
    BY <1>4, <1>5, <1>6, <2>2
  <2>8. Wave(d + 1)'
    BY <1>1, <1>2, <1>4, <2>3, <2>4, <2>5, <2>6, <2>7 DEF Wave
  <2> QED
    BY <2>8
<1> QED
  BY <1>2, <1>7, <1>8 DEF Wave

LEMMA SeekFinds ==
    ASSUME costmap \in Costs, position \in Field, NEW d \in Nat, Wave(d), bfs # <<>>,
           map(Head(bfs)) = FREE_SPACE
    PROVE  Head(bfs) \in FreeCells /\ \A c \in FreeCells : Dist[Head(bfs)] <= Dist[c]
<1>1. /\ Head(bfs) \in Range(bfs) /\ \A c \in Range(bfs) : Dist[Head(bfs)] <= Dist[c]
  BY FrontNearest
<1>2. Head(bfs) \in FreeCells /\ Head(bfs) \in Field /\ Dist[Head(bfs)] \in {d, d + 1}
  BY <1>1 DEF Wave, FreeCells, Field, map
<1>3. Dist \in [Field -> Nat]
  BY Far
<1>4. ASSUME NEW c \in FreeCells PROVE Dist[Head(bfs)] <= Dist[c]
  <2>1. c \in Field /\ costmap.data[c] = FREE_SPACE
    BY DEF FreeCells, Field, map
  <2>2. CASE Dist[c] <= d
    <3>1. c \in visited_flag
      BY <2>1, <2>2 DEF Wave
    <3>2. c \in Range(bfs)
      BY <2>1, <3>1 DEF Wave
    <3> QED
      BY <1>1, <3>2
  <2>3. CASE ~(Dist[c] <= d)
    BY <1>2, <1>3, <2>1, <2>3
  <2> QED
    BY <2>2, <2>3
<1> QED
  BY <1>2, <1>4

(* A queue that runs empty has passed every cell of the map.               *)
LEMMA SeekFails ==
    ASSUME costmap \in Costs, position \in Field, NEW d \in Nat, Wave(d), bfs = <<>>, nbrs = <<>>
    PROVE  FreeCells = {}
<1>1. Range(bfs) = {} /\ Range(nbrs) = {}
  BY NoCell
<1>2. /\ Dist \in [Field -> Nat]
      /\ \A c \in Field : \A k \in 0 .. Dist[c] : \E b \in Field : Dist[b] = k
      /\ \A c \in Field : \A k \in Nat : Dist[c] = k + 1 => \E b \in Field : Dist[b] = k /\ c \in Around[b]
  BY Far
<1> SUFFICES ASSUME NEW c \in FreeCells PROVE FALSE
  OBVIOUS
<1>3. c \in Field /\ costmap.data[c] = FREE_SPACE
  BY DEF FreeCells, Field, map
<1>4. c \notin visited_flag
  BY <1>1, <1>3 DEF Wave
<1>5. Dist[c] > d
  BY <1>2, <1>3, <1>4 DEF Wave
<1>6. PICK b \in Field : Dist[b] = d + 1
  BY <1>2, <1>3, <1>5
<1>7. PICK a \in Field : Dist[a] = d /\ b \in Around[a]
  BY <1>2, <1>6
<1>8. a \in visited_flag
  BY <1>7 DEF Wave
<1>9. b \in visited_flag
  BY <1>1, <1>7, <1>8 DEF Wave
<1> QED
  BY <1>1, <1>2, <1>6, <1>9 DEF Wave

-----------------------------------------------------------------------------
(***************************************************************************)
(* searchFrom() floods the free space and builds the frontiers beside it.  *)
(***************************************************************************)
Region(s) == ReachedFrom(s, FreeCells, Beside)

(* Nothing is left to do about cell n.                                     *)
Known(n) ==
    (n \in FreeCells => n \in visited_flag) /\ (n \in FrontierCells => n \in frontier_flag)

(* The flood from s stays in the free space around s and forgets nothing   *)
(* beside it.                                                              *)
Flood(s) ==
    /\ s \in FreeCells /\ \A c \in FreeCells : Dist[s] <= Dist[c]
    /\ bfs \in Seq(Field) /\ nbrs \in Seq(Field)
    /\ s \in visited_flag /\ visited_flag \subseteq Region(s) /\ Range(bfs) \subseteq visited_flag
    /\ nbrs # <<>> => idx \in visited_flag /\ Range(nbrs) \subseteq Beside[idx]
    /\ \A c \in visited_flag :
         c \in Range(bfs) \/ \A n \in Beside[c] : n \in Range(nbrs) \/ Known(n)

LEMMA CellKinds ==
    ASSUME costmap \in Costs
    PROVE  /\ FreeCells \subseteq Field /\ FrontierCells \subseteq Field
           /\ FreeCells \cap FrontierCells = {}
           /\ \A c \in Field : map(c) \in 0 .. 255 /\ (c \in FreeCells <=> map(c) = 0)
           /\ \A c \in Field : c \in FrontierCells <=> map(c) = 255 /\ Beside[c] \cap FreeCells # {}
<1>1. \A c \in Field : map(c) \in 0 .. 255
  BY CostShape DEF Field, Cells, map
<1> QED
  BY <1>1 DEF FreeCells, FrontierCells, Field, FREE_SPACE, NO_INFORMATION

(* isNewFrontierCell() knows the cells of frontiers.                       *)
LEMMA NewCell ==
    ASSUME costmap \in Costs, NEW n \in Field
    PROVE  isNewFrontierCell(n) <=> n \in FrontierCells /\ n \notin frontier_flag
<1>1. Range(nhood4(n)) = Beside[n] /\ Beside[n] \subseteq Field
  BY Neighbours
<1>2. (\E x \in Range(nhood4(n)) : map(x) = FREE_SPACE) <=> Beside[n] \cap FreeCells # {}
  BY <1>1, CellKinds DEF FREE_SPACE
<1> QED
  BY <1>2, CellKinds DEF isNewFrontierCell, NO_INFORMATION

LEMMA RegionIs ==
    ASSUME costmap \in Costs, NEW s \in FreeCells
    PROVE  /\ s \in Region(s) /\ Region(s) \subseteq FreeCells
           /\ Closed(Region(s), FreeCells, Beside)
BY ReachBase DEF Region

(* Free cells that the flood may enter are free: it never goes uphill.     *)
LEMMA FloodVisits ==
    ASSUME costmap \in Costs, NEW s, Flood(s), nbrs # <<>>
    PROVE  /\ Head(nbrs) \in Field /\ Head(nbrs) \in Beside[idx] /\ idx \in visited_flag
           /\ Tail(nbrs) \in Seq(Field) /\ Range(nbrs) = {Head(nbrs)} \cup Range(Tail(nbrs))
           /\ Visitable(Head(nbrs)) <=> Head(nbrs) \in FreeCells \ visited_flag
<1> DEFINE n == Head(nbrs)
<1>1. n \in Range(nbrs) /\ n \in Field /\ Tail(nbrs) \in Seq(Field) /\ Range(nbrs) = {n} \cup Range(Tail(nbrs))
  BY InHeadTail DEF Flood
<1>2. n \in Beside[idx] /\ idx \in visited_flag
  BY <1>1 DEF Flood
<1>3. idx \in FreeCells
  BY <1>2, RegionIs DEF Flood
<1>4. map(idx) = 0 /\ map(n) \in 0 .. 255 /\ (n \in FreeCells <=> map(n) = 0)
  BY <1>1, <1>3, CellKinds
<1>5. Visitable(n) <=> map(n) <= map(idx) /\ n \notin visited_flag
  BY DEF Visitable
<1>6. map(n) <= map(idx) <=> n \in FreeCells
  <2>1. \A v \in 0 .. 255 : v <= 0 <=> v = 0
    OBVIOUS
  <2> QED
    BY <1>4, <2>1
<1> QED
  BY <1>1, <1>2, <1>5, <1>6

(* A frontier, its cells reached from any of them.                         *)
LEMMA FrontierIs ==
    ASSUME costmap \in Costs, NEW f \in FrontierCells
    PROVE  /\ f \in FrontierOf(f) /\ FrontierOf(f) \subseteq FrontierCells
           /\ Closed(FrontierOf(f), FrontierCells, Around)
           /\ \A c \in FrontierOf(f) : FrontierOf(c) = FrontierOf(f)
<1>1. /\ f \in FrontierOf(f) /\ FrontierOf(f) \subseteq FrontierCells
      /\ Closed(FrontierOf(f), FrontierCells, Around)
  BY ReachBase DEF FrontierOf
<1>2. \A x, y \in FrontierCells : y \in Around[x] => x \in Around[y]
  BY CellKinds, Mutual
<1>3. ASSUME NEW c \in FrontierOf(f) PROVE FrontierOf(c) = FrontierOf(f)
  BY <1>2, <1>3, ReachSame DEF FrontierOf
<1> QED
  BY <1>1, <1>3

Outputs ==
    [initial : Field, points : SUBSET Field, size : Nat, sumx : Int, sumy : Int,
     min_distance : Int]

(* What is flagged, the frontier being built apart, is whole frontiers,    *)
(* each beside the flood, and the large ones are the list.                 *)
Found(old) ==
    /\ old \subseteq FrontierCells /\ Closed(old, FrontierCells, Around)
    /\ \A f \in old : \E c \in FrontierOf(f) : Beside[c] \cap visited_flag # {}
    /\ frontier_list \in Seq(Outputs)
    /\ Listed = {FrontierOf(c) : c \in {x \in old : Cardinality(FrontierOf(x)) >= min_frontier_size}}
    /\ IsFiniteSet(Listed) /\ Cardinality(Listed) = Len(frontier_list)
    /\ \A k \in DOMAIN frontier_list :
         frontier_list[k].size = Cardinality(CellsOf(frontier_list[k]))

(* The frontier being built is a part of one, beside the flood; what is    *)
(* missing is around a cell of it still to be looked at.                   *)
Building ==
    /\ output \in Outputs /\ output.initial \in FrontierCells
    /\ Beside[output.initial] \cap visited_flag # {}
    /\ CellsOf(output) \subseteq frontier_flag /\ CellsOf(output) \subseteq FrontierOf(output.initial)
    /\ output.size = Cardinality(CellsOf(output))
    /\ build_bfs \in Seq(Field) /\ Range(build_bfs) \subseteq CellsOf(output)
    /\ build_nbrs \in Seq(Field)
    /\ \A n \in Range(build_nbrs) : \E c \in CellsOf(output) : n \in Around[c]
    /\ \A c \in CellsOf(output) :
         \/ c \in Range(build_bfs)
         \/ Around[c] \cap FrontierCells \subseteq Range(build_nbrs) \cup frontier_flag

Old == IF pc = "build" THEN frontier_flag \ CellsOf(output) ELSE frontier_flag

Searching(s) ==
    /\ Flood(s) /\ frontier_flag \subseteq FrontierCells /\ Found(Old)
    /\ pc = "build" => Building

LEMMA FieldFinite ==
    ASSUME costmap \in Costs
    PROVE  \A S \in SUBSET Field : IsFiniteSet(S)
<1>1. Columns \in Nat /\ Rows \in Nat /\ Field = 0 .. Columns * Rows - 1
  BY CostShape DEF Columns, Rows, Field, Cells
<1>2. 0 \in Int /\ Columns * Rows - 1 \in Int
  BY <1>1
<1>3. IsFiniteSet(Field)
  BY <1>1, <1>2, FS_Interval
<1> QED
  BY <1>3, FS_Subset

(* A flood may start at a free cell that none is nearer than.              *)
LEMMA SearchingStarts ==
    ASSUME costmap \in Costs, position \in Field, costmap' = costmap, position' = position,
           NEW s \in FreeCells, \A c \in FreeCells : Dist[s] <= Dist[c],
           bfs' = <<s>>, visited_flag' = {s}, pc' = "search", nbrs' = <<>>,
           frontier_flag' = {}, frontier_list' = <<>>
    PROVE  Searching(s)'
<1>1. /\ Field' = Field /\ Around' = Around /\ Beside' = Beside /\ FreeCells' = FreeCells
      /\ FrontierCells' = FrontierCells /\ Dist' = Dist
  BY Unmoved
<1>2. s \in Field
  BY CellKinds
<1>3. bfs' \in Seq(Field) /\ Range(bfs') = {s} /\ nbrs' \in Seq(Field)
  BY <1>2, OneCell, NoCell
<1>4. {s} \subseteq Region(s)
  BY RegionIs
<1>5. Region(s)' = Region(s)
  BY <1>1 DEF Region
<1>6. Flood(s)'
  BY <1>1, <1>3, <1>4, <1>5 DEF Flood
<1>7. Old' = {}
  BY DEF Old
<1>8. Listed' = {} /\ frontier_list' \in Seq(Outputs') /\ Len(frontier_list') = 0
  BY DEF Listed
<1>9. IsFiniteSet({}) /\ Cardinality({}) = 0
  BY FS_EmptySet
<1>10. Found(Old)'
  BY <1>7, <1>8, <1>9 DEF Found, Closed
<1> QED
  BY <1>6, <1>10 DEF Searching

(* The flood goes on, no frontier being built.                             *)
LEMMA FoundKept ==
    ASSUME costmap' = costmap, visited_flag \subseteq visited_flag', frontier_list' = frontier_list,
           NEW old, Found(old)
    PROVE  Found(old)'
<1>1. /\ Field' = Field /\ Around' = Around /\ Beside' = Beside /\ FrontierCells' = FrontierCells
  BY Unmoved
<1>2. \A c : FrontierOf(c)' = FrontierOf(c)
  BY <1>1 DEF FrontierOf
<1>3. Listed' = Listed /\ Outputs' = Outputs
  BY <1>1 DEF Listed, Outputs
<1>4. \A f \in old : \E c \in FrontierOf(f) : Beside[c] \cap visited_flag' # {}
  BY DEF Found
<1> QED
  BY <1>1, <1>2, <1>3, <1>4 DEF Found

(* Flagging more cells of frontiers leaves the flood as it is.             *)
LEMMA FloodKept ==
    ASSUME costmap' = costmap, position' = position, bfs' = bfs, nbrs' = nbrs, idx' = idx,
           visited_flag' = visited_flag, frontier_flag \subseteq frontier_flag', NEW s, Flood(s)
    PROVE  Flood(s)'
<1>1. /\ Field' = Field /\ Beside' = Beside /\ FreeCells' = FreeCells
      /\ FrontierCells' = FrontierCells /\ Dist' = Dist
  BY Unmoved
<1>2. Region(s)' = Region(s)
  BY <1>1 DEF Region
<1>3. \A n : Known(n) => Known(n)'
  BY <1>1 DEF Known
<1>4. \A c \in visited_flag : c \in Range(bfs) \/ \A n \in Beside[c] : n \in Range(nbrs) \/ Known(n)'
  BY <1>3 DEF Flood
<1> QED
  BY <1>1, <1>2, <1>4 DEF Flood

(* Pop takes a cell off the queue; what is beside it is left to look at.   *)
LEMMA FloodPops ==
    ASSUME costmap \in Costs, NEW s, Searching(s), Pop
    PROVE  Searching(s)'
<1> DEFINE h == Head(bfs)
<1>1. /\ pc = "search" /\ pc' = "search" /\ costmap' = costmap /\ position' = position
      /\ visited_flag' = visited_flag /\ frontier_flag' = frontier_flag
      /\ frontier_list' = frontier_list /\ nbrs = <<>> /\ bfs # <<>>
      /\ idx' = h /\ bfs' = Tail(bfs) /\ nbrs' = nhood4(h) /\ Flood(s)
  BY DEF Pop, client, Searching
<1>2. /\ Field' = Field /\ Beside' = Beside /\ FreeCells' = FreeCells
      /\ FrontierCells' = FrontierCells /\ Dist' = Dist
  BY <1>1, Unmoved
<1>3. Region(s)' = Region(s) /\ \A n : Known(n)' <=> Known(n)
  BY <1>1, <1>2 DEF Region, Known
<1>4. bfs' \in Seq(Field) /\ Range(bfs) = {h} \cup Range(bfs')
  BY <1>1, InHeadTail DEF Flood
<1> HIDE DEF h
<1>5. h \in visited_flag /\ h \in Field
  BY <1>4, RegionIs, CellKinds DEF Searching, Flood
<1>6. nbrs' \in Seq(Field) /\ Range(nbrs') = Beside[h] /\ Range(nbrs) = {}
  BY <1>1, <1>5, Neighbours, NoCell
<1>7. ASSUME NEW c \in visited_flag
      PROVE  c \in Range(bfs') \/ \A n \in Beside[c] : n \in Range(nbrs') \/ Known(n)
  <2>1. CASE c = h
    BY <1>6, <2>1
  <2>2. CASE c # h
    BY <1>1, <1>4, <1>6, <2>2 DEF Flood
  <2> QED
    BY <2>1, <2>2
<1>8. Flood(s)'
  BY <1>1, <1>2, <1>3, <1>4, <1>5, <1>6, <1>7 DEF Flood
<1>9. Old = frontier_flag /\ Old' = frontier_flag
  BY <1>1 DEF Old
<1>10. Found(frontier_flag)'
  BY <1>1, <1>9, FoundKept DEF Searching
<1>11. Found(Old)'
  BY <1>1, <1>10 DEF Old
<1> QED
  BY <1>1, <1>2, <1>8, <1>11 DEF Searching

(* Visit when it starts no frontier.                                       *)
LEMMA FloodGoesOn ==
    ASSUME costmap \in Costs, NEW s, Searching(s), pc = "search", pc' = "search",
           costmap' = costmap, position' = position, idx' = idx, nbrs # <<>>, nbrs' = Tail(nbrs),
           frontier_flag' = frontier_flag, frontier_list' = frontier_list,
           \/ /\ Visitable(Head(nbrs))
              /\ visited_flag' = visited_flag \cup {Head(nbrs)} /\ bfs' = Append(bfs, Head(nbrs))
           \/ /\ ~Visitable(Head(nbrs)) /\ ~isNewFrontierCell(Head(nbrs))
              /\ visited_flag' = visited_flag /\ bfs' = bfs
    PROVE  Searching(s)'
<1> PICK n : n = Head(nbrs)
  OBVIOUS
<1>1. Flood(s)
  BY DEF Searching
<1>2. /\ Field' = Field /\ Beside' = Beside /\ FreeCells' = FreeCells
      /\ FrontierCells' = FrontierCells /\ Dist' = Dist
  BY Unmoved
<1>3. Region(s)' = Region(s)
  BY <1>2 DEF Region
<1>4. /\ n \in Field /\ n \in Beside[idx] /\ idx \in visited_flag
      /\ nbrs' \in Seq(Field) /\ Range(nbrs) = {n} \cup Range(nbrs')
      /\ Visitable(n) <=> n \in FreeCells \ visited_flag
  BY <1>1, FloodVisits
<1>5. isNewFrontierCell(n) <=> n \in FrontierCells /\ n \notin frontier_flag
  BY <1>4, NewCell
<1>6. /\ bfs' \in Seq(Field) /\ Range(bfs) \subseteq Range(bfs') /\ Range(bfs') \subseteq visited_flag'
      /\ visited_flag \subseteq visited_flag' /\ visited_flag' \subseteq visited_flag \cup {n}
      /\ n \in visited_flag' \ visited_flag => n \in Range(bfs') /\ n \in FreeCells
      /\ n \in FreeCells => n \in visited_flag'
      /\ n \in FrontierCells => n \in frontier_flag \/ n \in FreeCells
  <2>1. CASE Visitable(n)
    <3>1. visited_flag' = visited_flag \cup {n} /\ bfs' = Append(bfs, n)
      BY <2>1
    <3>2. bfs' \in Seq(Field) /\ Range(bfs') = Range(bfs) \cup {n}
      BY <1>1, <1>4, <3>1, InAppend DEF Flood
    <3> QED
      BY <1>1, <1>4, <2>1, <3>1, <3>2 DEF Flood
  <2>2. CASE ~Visitable(n)
    BY <1>1, <1>4, <1>5, <2>2 DEF Flood
  <2> QED
    BY <2>1, <2>2
<1>7. n \in FreeCells => n \in Region(s)
  <2>1. Closed(Region(s), FreeCells, Beside) /\ idx \in Region(s)
    BY <1>1, <1>4, RegionIs DEF Flood
  <2> QED
    BY <1>4, <2>1 DEF Closed
<1>8. visited_flag' \subseteq Region(s)
  BY <1>1, <1>6, <1>7 DEF Flood
<1>9. \A m : m = n \/ Known(m) => Known(m)'
  <2>1. \A m \in FreeCells : m \notin FrontierCells
    BY CellKinds
  <2>2. Known(n)'
    BY <1>2, <1>6, <2>1 DEF Known
  <2>3. \A m : Known(m) => Known(m)'
    BY <1>2, <1>6 DEF Known
  <2> QED
    BY <2>2, <2>3
<1>10. ASSUME NEW c \in visited_flag'
       PROVE  c \in Range(bfs') \/ \A m \in Beside[c] : m \in Range(nbrs') \/ Known(m)'
  <2>1. CASE c \in visited_flag
    <3>1. c \in Range(bfs) \/ \A m \in Beside[c] : m \in Range(nbrs) \/ Known(m)
      BY <1>1, <2>1 DEF Flood
    <3> QED
      BY <1>4, <1>6, <1>9, <3>1
  <2>2. CASE c \notin visited_flag
    BY <1>6, <2>2
  <2> QED
    BY <2>1, <2>2
<1>11. nbrs' # <<>> => idx' \in visited_flag' /\ Range(nbrs') \subseteq Beside[idx']
  <2>1. Range(nbrs) \subseteq Beside[idx]
    BY <1>1 DEF Flood
  <2> QED
    BY <1>4, <1>6, <2>1
<1>12. Flood(s)'
  BY <1>1, <1>2, <1>3, <1>4, <1>6, <1>8, <1>10, <1>11 DEF Flood
<1>13. Found(frontier_flag)'
  BY <1>6, FoundKept DEF Searching, Old
<1>14. Found(Old)'
  BY <1>13 DEF Old
<1> QED
  BY <1>2, <1>12, <1>14 DEF Searching

(* Visit when it starts one: its cell was in no frontier found before.     *)
LEMMA FrontierBegins ==
    ASSUME costmap \in Costs, NEW s, Searching(s), pc = "search", pc' = "build",
           costmap' = costmap, position' = position, idx' = idx, nbrs # <<>>, nbrs' = Tail(nbrs),
           frontier_list' = frontier_list, visited_flag' = visited_flag, bfs' = bfs,
           ~Visitable(Head(nbrs)), isNewFrontierCell(Head(nbrs)),
           frontier_flag' = frontier_flag \cup {Head(nbrs)},
           build_bfs' = <<Head(nbrs)>>, build_nbrs' = <<>>,
           output' = [initial |-> Head(nbrs), points |-> {}, size |-> 1, sumx |-> 0, sumy |-> 0,
                      min_distance |-> Infinity]
    PROVE  Searching(s)'
<1> PICK n : n = Head(nbrs)
  OBVIOUS
<1>1. Flood(s)
  BY DEF Searching
<1>2. /\ Field' = Field /\ Beside' = Beside /\ Around' = Around /\ FreeCells' = FreeCells
      /\ FrontierCells' = FrontierCells /\ Dist' = Dist
  BY Unmoved
<1>3. Region(s)' = Region(s)
  BY <1>2 DEF Region
<1>4. /\ n \in Field /\ n \in Beside[idx] /\ idx \in visited_flag
      /\ nbrs' \in Seq(Field) /\ Range(nbrs) = {n} \cup Range(nbrs')
  BY <1>1, FloodVisits
<1>5. n \in FrontierCells /\ n \notin frontier_flag /\ n \notin FreeCells
  BY <1>4, NewCell, CellKinds
<1>6. output' \in Outputs' /\ CellsOf(output') = {n} /\ output'.initial = n /\ output'.size = 1
  BY <1>2, <1>4 DEF Outputs, CellsOf, Infinity
<1>7. Flood(s)'
  <2>1. \A m : m = n \/ Known(m) => Known(m)'
    BY <1>2, <1>5 DEF Known
  <2>2. \A c \in visited_flag : c \in Range(bfs) \/ \A m \in Beside[c] : m \in Range(nbrs) \/ Known(m)
    BY <1>1 DEF Flood
  <2>3. \A c \in visited_flag : c \in Range(bfs) \/ \A m \in Beside[c] : m \in Range(nbrs') \/ Known(m)'
    BY <1>4, <2>1, <2>2
  <2>4. nbrs' # <<>> => idx \in visited_flag /\ Range(nbrs') \subseteq Beside[idx]
    <3>1. Range(nbrs) \subseteq Beside[idx]
      BY <1>1 DEF Flood
    <3> QED
      BY <1>4, <3>1
  <2> QED
    BY <1>1, <1>2, <1>3, <1>4, <2>3, <2>4 DEF Flood
<1> PICK o : o = frontier_flag
  OBVIOUS
<1>8. Old = o /\ Old' = o
  BY <1>5, <1>6 DEF Old
<1>9. Found(o)
  BY <1>8 DEF Searching
<1>10. Found(Old)'
  <2>1. Found(o)'
    BY <1>9, FoundKept
  <2> QED
    BY <1>8, <2>1 DEF Found
<1>11. Building'
  <2>1. idx \in Field /\ Beside[n] \cap visited_flag # {}
    <3>1. idx \in Field
      BY <1>1, <1>4, RegionIs, CellKinds DEF Flood
    <3> QED
      BY <1>4, <3>1, Mutual
  <2>2. n \in FrontierOf(n) /\ FrontierOf(n)' = FrontierOf(n)
    <3>1. n \in FrontierOf(n)
      BY <1>5, FrontierIs
    <3> QED
      BY <1>2, <3>1 DEF FrontierOf
  <2>3. Cardinality({n}) = 1
    BY FS_Singleton
  <2>4. build_bfs' \in Seq(Field) /\ Range(build_bfs') = {n} /\ build_nbrs' \in Seq(Field) /\ Range(build_nbrs') = {}
    BY <1>4, OneCell, NoCell
  <2>5. n \in frontier_flag'
    OBVIOUS
  <2> QED
    BY <1>2, <1>5, <1>6, <2>1, <2>2, <2>3, <2>4, <2>5 DEF Building
<1>12. frontier_flag' \subseteq FrontierCells'
  BY <1>2, <1>5 DEF Searching
<1> QED
  BY <1>7, <1>10, <1>11, <1>12 DEF Searching

-----------------------------------------------------------------------------
(***************************************************************************)
(* buildNewFrontier() takes all of a frontier and nothing else.            *)
(***************************************************************************)
(* What a step that looks for cells of the frontier leaves alone.          *)
LEMMA FrontierPops ==
    ASSUME costmap \in Costs, NEW s, Searching(s), PopBuild
    PROVE  Searching(s)'
<1>1. /\ pc = "build" /\ pc' = "build" /\ costmap' = costmap /\ position' = position
      /\ bfs' = bfs /\ nbrs' = nbrs /\ idx' = idx /\ visited_flag' = visited_flag
      /\ frontier_flag' = frontier_flag /\ frontier_list' = frontier_list /\ output' = output
      /\ build_nbrs = <<>> /\ build_bfs # <<>>
      /\ build_nbrs' = nhood8(Head(build_bfs)) /\ build_bfs' = Tail(build_bfs)
  BY DEF PopBuild, client
<1>2. Flood(s) /\ Building /\ Found(Old)
  BY <1>1 DEF Searching
<1>3. /\ Field' = Field /\ Beside' = Beside /\ Around' = Around /\ FrontierCells' = FrontierCells
  BY <1>1, Unmoved
<1>4. Flood(s)'
  BY <1>1, <1>2, FloodKept
<1> PICK h : h = Head(build_bfs)
  OBVIOUS
<1>5. build_bfs' \in Seq(Field) /\ Range(build_bfs) = {h} \cup Range(build_bfs')
  BY <1>1, <1>2, InHeadTail DEF Building
<1>6. h \in CellsOf(output) /\ h \in Field
  BY <1>2, <1>5, CellKinds DEF Building, Searching
<1>7. /\ build_nbrs' \in Seq(Field) /\ Range(build_nbrs') = Around[h] /\ Range(build_nbrs) = {}
  BY <1>1, <1>6, Neighbours, NoCell
<1>8. ASSUME NEW c \in CellsOf(output)
      PROVE  \/ c \in Range(build_bfs')
             \/ Around[c] \cap FrontierCells \subseteq Range(build_nbrs') \cup frontier_flag
  <2>1. CASE c = h
    BY <1>7, <2>1
  <2>2. CASE c # h
    BY <1>2, <1>5, <1>7, <2>2 DEF Building
  <2> QED
    BY <2>1, <2>2
<1>9. Building'
  <2>1. \A f : FrontierOf(f)' = FrontierOf(f)
    BY <1>3 DEF FrontierOf
  <2>2. FrontierOf(output.initial)' = FrontierOf(output.initial) /\ CellsOf(output)' = CellsOf(output)
    BY <1>1, <1>3 DEF FrontierOf, CellsOf
  <2>3. Outputs' = Outputs
    BY <1>3 DEF Outputs
  <2>4. \A n \in Range(build_nbrs') : \E c \in CellsOf(output) : n \in Around[c]
    BY <1>6, <1>7
  <2>5. Range(build_bfs') \subseteq CellsOf(output)
    BY <1>2, <1>5 DEF Building
  <2> QED
    BY <1>1, <1>2, <1>3, <1>5, <1>7, <1>8, <2>2, <2>3, <2>4, <2>5 DEF Building
<1> PICK o : o = Old
  OBVIOUS
<1>10. Old' = o
  BY <1>1 DEF Old, CellsOf
<1>11. Found(Old)'
  <2>1. Found(o)'
    BY <1>1, <1>2, FoundKept
  <2> QED
    BY <1>10, <2>1 DEF Found
<1> QED
  BY <1>1, <1>3, <1>4, <1>9, <1>11 DEF Searching

(* Grow adds a cell to the record of the frontier.                         *)
LEMMA OutputGrows ==
    ASSUME costmap \in Costs, output \in Outputs, NEW n \in Field, NEW m \in Int,
           output' = [output EXCEPT !.points = @ \cup {n}, !.size = @ + 1,
                        !.sumx = @ + WorldX(n), !.sumy = @ + WorldY(n), !.min_distance = m]
    PROVE  /\ output' \in Outputs /\ CellsOf(output') = CellsOf(output) \cup {n}
           /\ output'.initial = output.initial /\ output'.size = output.size + 1
<1>1. WorldX(n) \in Int /\ WorldY(n) \in Int
  <2>1. Columns \in Nat /\ Rows \in Nat /\ Col(n) \in 0 .. Columns - 1 /\ Row(n) \in 0 .. Rows - 1
    BY PlaceOf
  <2>2. XOf(costmap, n) \in Int /\ YOf(costmap, n) \in Int
    BY <2>1 DEF Col, Row
  <2> QED
    BY <2>2, SearchAssumption DEF WorldX, WorldY
<1>2. output = [initial |-> output.initial, points |-> output.points, size |-> output.size,
                sumx |-> output.sumx, sumy |-> output.sumy, min_distance |-> output.min_distance]
  BY DEF Outputs
<1>3. output' = [initial |-> output.initial, points |-> output.points \cup {n},
                 size |-> output.size + 1, sumx |-> output.sumx + WorldX(n),
                 sumy |-> output.sumy + WorldY(n), min_distance |-> m]
  BY <1>2
<1>4. /\ output.initial \in Field /\ output.points \subseteq Field /\ output.size \in Nat
      /\ output.sumx \in Int /\ output.sumy \in Int
  BY DEF Outputs
<1>5. output' \in Outputs
  BY <1>1, <1>3, <1>4 DEF Outputs
<1> QED
  BY <1>3, <1>5 DEF CellsOf

(* Grow adds no cell twice and none of another frontier.                   *)
LEMMA FrontierGrows ==
    ASSUME costmap \in Costs, position \in Field, NEW s, Searching(s), Grow
    PROVE  Searching(s)'
<1>1. /\ pc = "build" /\ pc' = "build" /\ costmap' = costmap /\ position' = position
      /\ bfs' = bfs /\ nbrs' = nbrs /\ idx' = idx /\ visited_flag' = visited_flag
      /\ frontier_list' = frontier_list /\ build_nbrs # <<>> /\ build_nbrs' = Tail(build_nbrs)
  BY DEF Grow, client
<1>2. Flood(s) /\ Building /\ Found(Old) /\ frontier_flag \subseteq FrontierCells
  BY <1>1 DEF Searching
<1>3. /\ Field' = Field /\ Beside' = Beside /\ Around' = Around /\ FrontierCells' = FrontierCells
  BY <1>1, Unmoved
<1> PICK n : n = Head(build_nbrs)
  OBVIOUS
<1>4. /\ n \in Field /\ n \in Range(build_nbrs) /\ build_nbrs' \in Seq(Field)
      /\ Range(build_nbrs) = {n} \cup Range(build_nbrs')
  BY <1>1, <1>2, InHeadTail DEF Building
<1>5. isNewFrontierCell(n) <=> n \in FrontierCells /\ n \notin frontier_flag
  BY <1>4, NewCell
<1>6. Outputs' = Outputs
  BY <1>3 DEF Outputs
<1> PICK o : o = Old
  OBVIOUS
<1> PICK b : b = CellsOf(output)
  OBVIOUS
<1> PICK i : i = output.initial
  OBVIOUS
<1>7. FrontierOf(i)' = FrontierOf(i) /\ i \in FrontierCells /\ b \subseteq FrontierOf(i)
  BY <1>2, <1>3 DEF FrontierOf, Building
<1>8. ASSUME output' \in Outputs, CellsOf(output') \in {b, b \cup {n}}, output'.initial = i,
             output'.size = Cardinality(CellsOf(output')),
             n \in CellsOf(output') \/ n \notin FrontierCells \/ n \in frontier_flag,
             frontier_flag' = frontier_flag \cup CellsOf(output'),
             n \in CellsOf(output') => n \in FrontierOf(i),
             n \in CellsOf(output') \ b => n \notin frontier_flag,
             build_bfs' \in Seq(Field), Range(build_bfs) \subseteq Range(build_bfs'),
             Range(build_bfs') \subseteq CellsOf(output'), CellsOf(output') \ b \subseteq Range(build_bfs')
      PROVE  Searching(s)'
  <2>1. Flood(s)'
    BY <1>1, <1>2, <1>8, FloodKept
  <2>2. b \subseteq frontier_flag
    BY <1>2 DEF Building
  <2>3. Old' = o
    BY <1>1, <1>8, <2>2 DEF Old
  <2>4. Found(Old)'
    <3>1. Found(o)'
      BY <1>1, <1>2, FoundKept
    <3> QED
      BY <2>3, <3>1 DEF Found
  <2>5. frontier_flag' \subseteq FrontierCells
    <3>1. FrontierOf(i) \subseteq FrontierCells
      BY <1>7, FrontierIs
    <3> QED
      BY <1>2, <1>7, <1>8, <3>1
  <2>6. \A c \in CellsOf(output') :
          \/ c \in Range(build_bfs')
          \/ Around[c] \cap FrontierCells \subseteq Range(build_nbrs') \cup frontier_flag'
    <3> SUFFICES ASSUME NEW c \in CellsOf(output'), c \notin Range(build_bfs'),
                        NEW x \in Around[c] \cap FrontierCells
                 PROVE  x \in Range(build_nbrs') \cup frontier_flag'
      OBVIOUS
    <3>1. c \in b /\ c \notin Range(build_bfs)
      BY <1>8
    <3>2. x \in Range(build_nbrs) \cup frontier_flag
      BY <1>2, <3>1 DEF Building
    <3> QED
      BY <1>4, <1>8, <3>2
  <2>7. \A x \in Range(build_nbrs') : \E c \in CellsOf(output') : x \in Around[c]
    <3>1. \A x \in Range(build_nbrs) : \E c \in b : x \in Around[c]
      BY <1>2 DEF Building
    <3> QED
      BY <1>4, <1>8, <3>1
  <2>8. CellsOf(output)' = CellsOf(output') /\ Beside[i] \cap visited_flag # {}
    BY <1>2 DEF CellsOf, Building
  <2>9. FrontierOf(output.initial)' = FrontierOf(i) /\ CellsOf(output') \subseteq FrontierOf(i)
    BY <1>3, <1>7, <1>8 DEF FrontierOf
  <2>10. Building'
    BY <1>1, <1>3, <1>4, <1>6, <1>7, <1>8, <2>6, <2>7, <2>8, <2>9 DEF Building
  <2> QED
    BY <1>3, <2>1, <2>4, <2>5, <2>10 DEF Searching
<1>9. b = CellsOf(output') /\ output' = output /\ frontier_flag' = frontier_flag /\ build_bfs' = build_bfs
        => Searching(s)' \/ isNewFrontierCell(n)
  <2> SUFFICES ASSUME b = CellsOf(output'), output' = output, frontier_flag' = frontier_flag,
                      build_bfs' = build_bfs, ~isNewFrontierCell(n)
               PROVE  Searching(s)'
    OBVIOUS
  <2>1. output \in Outputs /\ output.size = Cardinality(b) /\ b \subseteq frontier_flag /\ b \subseteq FrontierOf(i)
        /\ build_bfs \in Seq(Field) /\ Range(build_bfs) \subseteq b
    BY <1>2 DEF Building
  <2> QED
    BY <1>5, <1>8, <2>1
<1>10. CASE isNewFrontierCell(n)
  <2> DEFINE away == DistanceSq(position, n)
             m == IF away < output.min_distance THEN away ELSE output.min_distance
  <2>1. /\ frontier_flag' = frontier_flag \cup {n} /\ build_bfs' = Append(build_bfs, n)
        /\ output' = [output EXCEPT !.points = @ \cup {n}, !.size = @ + 1,
                        !.sumx = @ + WorldX(n), !.sumy = @ + WorldY(n), !.min_distance = m]
    BY <1>10 DEF Grow
  <2>2. output \in Outputs /\ output.size = Cardinality(b) /\ b \subseteq frontier_flag
        /\ build_bfs \in Seq(Field) /\ Range(build_bfs) \subseteq b
    BY <1>2 DEF Building
  <2>3. m \in Int
    <3>1. output.min_distance \in Int
      BY <2>2 DEF Outputs
    <3>2. away \in Int
      <4>1. ASSUME NEW c \in Field PROVE WorldX(c) \in Int /\ WorldY(c) \in Int
        <5>1. /\ Columns \in Nat /\ Rows \in Nat
              /\ Col(c) \in 0 .. Columns - 1 /\ Row(c) \in 0 .. Rows - 1
          BY PlaceOf
        <5>2. XOf(costmap, c) \in Int /\ YOf(costmap, c) \in Int
          BY <5>1 DEF Col, Row
        <5> QED
          BY <5>2, SearchAssumption DEF WorldX, WorldY
      <4>2. \A x \in Int, y \in Int : Square(x - y) \in Int
        BY DEF Square
      <4>3. /\ WorldX(position) \in Int /\ WorldY(position) \in Int
            /\ WorldX(n) \in Int /\ WorldY(n) \in Int
        BY <1>4, <4>1
      <4>4. /\ Square(WorldX(position) - WorldX(n)) \in Int
            /\ Square(WorldY(position) - WorldY(n)) \in Int
        BY <4>2, <4>3
      <4> QED
        BY <4>4 DEF DistanceSq
    <3> QED
      BY <3>1, <3>2
  <2> HIDE DEF m
  <2>4. /\ output' \in Outputs /\ CellsOf(output') = b \cup {n}
        /\ output'.initial = i /\ output'.size = output.size + 1
    BY <1>4, <2>1, <2>2, <2>3, OutputGrows
  <2>5. n \in FrontierCells /\ n \notin frontier_flag /\ n \notin b
    BY <1>5, <1>10, <2>2
  <2>6. n \in FrontierOf(i)
    <3>1. PICK c \in b : n \in Around[c]
      BY <1>2, <1>4 DEF Building
    <3>2. Closed(FrontierOf(i), FrontierCells, Around)
      BY <1>7, FrontierIs
    <3> QED
      BY <1>7, <2>5, <3>1, <3>2 DEF Closed
  <2>7. Cardinality(b \cup {n}) = output.size + 1
    <3>1. IsFiniteSet(b)
      <4>1. b \in SUBSET Field
        BY <1>2, <2>2, CellKinds
      <4> QED
        BY <4>1, FieldFinite
    <3> QED
      BY <2>2, <2>5, <3>1, FS_AddElement
  <2>8. build_bfs' \in Seq(Field) /\ Range(build_bfs') = Range(build_bfs) \cup {n}
    BY <1>4, <2>1, <2>2, InAppend
  <2> QED
    BY <1>8, <2>1, <2>2, <2>4, <2>5, <2>6, <2>7, <2>8
<1>11. CASE ~isNewFrontierCell(n)
  <2>1. output' = output /\ frontier_flag' = frontier_flag /\ build_bfs' = build_bfs
    BY <1>11 DEF Grow
  <2> QED
    BY <1>9, <1>11, <2>1
<1> QED
  BY <1>10, <1>11

(* The frontiers of the cells of a set that are large enough.              *)
Large(cells) ==
    {FrontierOf(c) : c \in {x \in cells : Cardinality(FrontierOf(x)) >= min_frontier_size}}

(* When nothing is left to look at, the frontier is whole.                 *)
LEMMA FrontierWhole ==
    ASSUME costmap \in Costs, Building, build_bfs = <<>>, build_nbrs = <<>>,
           NEW old, old = frontier_flag \ CellsOf(output), old \subseteq FrontierCells,
           Closed(old, FrontierCells, Around)
    PROVE  /\ CellsOf(output) = FrontierOf(output.initial)
           /\ \A c \in CellsOf(output) : FrontierOf(c) = CellsOf(output)
<1> DEFINE B == CellsOf(output)
           F == FrontierOf(output.initial)
<1>1. /\ output.initial \in F /\ F \subseteq FrontierCells /\ Closed(F, FrontierCells, Around)
      /\ \A c \in F : FrontierOf(c) = F
  BY FrontierIs DEF Building
<1>2. B \subseteq F /\ output.initial \in B /\ B \subseteq frontier_flag
  BY DEF Building, CellsOf
<1>3. Range(build_bfs) = {} /\ Range(build_nbrs) = {}
  BY NoCell
<1>4. Closed(B, FrontierCells, Around)
  <2> SUFFICES ASSUME NEW c \in B, NEW x \in Around[c] \cap FrontierCells PROVE x \in B
    BY DEF Closed
  <2>1. x \in frontier_flag
    BY <1>3 DEF Building
  <2>2. c \in FrontierCells /\ c \in Field /\ x \in Field /\ c \notin old
    BY <1>1, <1>2, CellKinds
  <2>3. c \in Around[x]
    BY <2>2, Mutual
  <2>4. x \notin old
    BY <2>2, <2>3 DEF Closed
  <2> QED
    BY <2>1, <2>4
<1>5. F \subseteq B
  <2>1. B \in SUBSET FrontierCells /\ output.initial \in B
    BY <1>1, <1>2
  <2> HIDE DEF B
  <2> QED
    BY <1>4, <2>1, ReachLeast DEF FrontierOf
<1> QED
  BY <1>1, <1>2, <1>5

(* Built adds it to the list if it is large, and then the list is complete *)
(* again.                                                                  *)
LEMMA FrontierJoins ==
    ASSUME costmap \in Costs, NEW s, Searching(s), Built, build_bfs = <<>>, build_nbrs = <<>>
    PROVE  Searching(s)'
<1>1. /\ pc = "build" /\ pc' = "search" /\ costmap' = costmap /\ position' = position
      /\ bfs' = bfs /\ nbrs' = nbrs /\ idx' = idx /\ visited_flag' = visited_flag
      /\ frontier_flag' = frontier_flag
      /\ frontier_list' = IF output.size >= min_frontier_size
                          THEN Append(frontier_list, output) ELSE frontier_list
  BY DEF Built, client
<1>2. Flood(s) /\ Building /\ Found(Old) /\ frontier_flag \subseteq FrontierCells
  BY <1>1 DEF Searching
<1>3. /\ Field' = Field /\ Beside' = Beside /\ Around' = Around /\ FrontierCells' = FrontierCells
  BY <1>1, Unmoved
<1>4. \A f : FrontierOf(f)' = FrontierOf(f)
  BY <1>3 DEF FrontierOf
<1>5. Flood(s)'
  BY <1>1, <1>2, FloodKept
<1> PICK o : o = Old
  OBVIOUS
<1> PICK b : b = CellsOf(output)
  OBVIOUS
<1>6. o = frontier_flag \ b /\ b \subseteq frontier_flag /\ o \subseteq FrontierCells
      /\ Closed(o, FrontierCells, Around) /\ Found(o)
  BY <1>1, <1>2 DEF Old, Building, Found
<1>7. b = FrontierOf(output.initial) /\ (\A c \in b : FrontierOf(c) = b) /\ output.initial \in b
  <2>1. output.initial \in b
    BY DEF CellsOf
  <2> QED
    BY <1>2, <1>6, <2>1, FrontierWhole
<1>8. output \in Outputs /\ output.size = Cardinality(b)
  BY <1>2 DEF Building
<1>9. b \notin Listed
  <2> SUFFICES ASSUME b \in Listed PROVE FALSE
    OBVIOUS
  <2>1. PICK c \in o : b = FrontierOf(c)
    BY <1>6 DEF Found
  <2>2. c \in b
    BY <1>6, <2>1, FrontierIs
  <2> QED
    BY <1>6, <2>2
<1>10. /\ frontier_list \in Seq(Outputs) /\ Len(frontier_list) \in Nat
       /\ DOMAIN frontier_list = 1 .. Len(frontier_list)
  BY <1>6 DEF Found
<1>11. /\ frontier_list' \in Seq(Outputs)
       /\ Listed' = Listed \cup (IF output.size >= min_frontier_size THEN {b} ELSE {})
       /\ IsFiniteSet(Listed') /\ Cardinality(Listed') = Len(frontier_list')
       /\ \A k \in DOMAIN frontier_list' :
            frontier_list'[k].size = Cardinality(CellsOf(frontier_list'[k]))
  <2>1. CASE output.size >= min_frontier_size
    <3>1. /\ frontier_list' \in Seq(Outputs) /\ Len(frontier_list') = Len(frontier_list) + 1
          /\ DOMAIN frontier_list' = 1 .. Len(frontier_list) + 1
          /\ \A k \in 1 .. Len(frontier_list) : frontier_list'[k] = frontier_list[k]
          /\ frontier_list'[Len(frontier_list) + 1] = output
      BY <1>1, <1>8, <1>10, <2>1
    <3>2. \A k \in 1 .. Len(frontier_list) + 1 : k \in 1 .. Len(frontier_list) \/ k = Len(frontier_list) + 1
      BY <1>10
    <3>3. Listed' = {CellsOf(frontier_list'[k]) : k \in DOMAIN frontier_list'}
      BY DEF Listed, CellsOf
    <3>4. Listed' = Listed \cup {b}
      <4>1. Listed' \subseteq Listed \cup {b}
        BY <1>10, <3>1, <3>2, <3>3 DEF Listed
      <4>2. Listed \subseteq Listed'
        <5>1. \A k \in 1 .. Len(frontier_list) : k \in DOMAIN frontier_list'
          BY <1>10, <3>1
        <5> QED
          BY <1>10, <3>1, <3>3, <5>1 DEF Listed
      <4>3. b \in Listed'
        <5>1. Len(frontier_list) + 1 \in DOMAIN frontier_list'
          BY <1>10, <3>1
        <5> QED
          BY <3>1, <3>3, <5>1
      <4> QED
        BY <4>1, <4>2, <4>3
    <3>5. IsFiniteSet(Listed \cup {b}) /\ Cardinality(Listed \cup {b}) = Len(frontier_list) + 1
      BY <1>6, <1>9, FS_AddElement DEF Found
    <3>6. \A k \in DOMAIN frontier_list' :
            frontier_list'[k].size = Cardinality(CellsOf(frontier_list'[k]))
      BY <1>6, <1>8, <1>10, <3>1, <3>2 DEF Found
    <3> QED
      BY <2>1, <3>1, <3>4, <3>5, <3>6
  <2>2. CASE ~(output.size >= min_frontier_size)
    <3>1. frontier_list' = frontier_list
      BY <1>1, <2>2
    <3>2. Listed' = Listed
      BY <3>1 DEF Listed, CellsOf
    <3> QED
      BY <1>6, <2>2, <3>1, <3>2 DEF Found
  <2> QED
    BY <2>1, <2>2
<1>12. frontier_flag = o \cup b
  BY <1>6
<1>13. Large(frontier_flag) = Large(o) \cup (IF output.size >= min_frontier_size THEN {b} ELSE {})
  BY <1>7, <1>8, <1>12 DEF Large
<1>14. Listed = Large(o)
  BY <1>6 DEF Found, Large
<1>15. Listed' = {FrontierOf(c) : c \in {x \in frontier_flag : Cardinality(FrontierOf(x)) >= min_frontier_size}}
  BY <1>11, <1>13, <1>14 DEF Large
<1>16. Closed(frontier_flag, FrontierCells, Around)
  <2>1. Closed(b, FrontierCells, Around)
    BY <1>2, <1>7, FrontierIs DEF Building
  <2> QED
    BY <1>6, <1>12, <2>1 DEF Closed
<1>17. \A f \in frontier_flag : \E c \in FrontierOf(f) : Beside[c] \cap visited_flag # {}
  <2>1. \A f \in o : \E c \in FrontierOf(f) : Beside[c] \cap visited_flag # {}
    BY <1>6 DEF Found
  <2>2. Beside[output.initial] \cap visited_flag # {}
    BY <1>2 DEF Building
  <2> QED
    BY <1>7, <1>12, <2>1, <2>2
<1>18. Old' = frontier_flag
  BY <1>1 DEF Old
<1>19. Outputs' = Outputs
  BY <1>3 DEF Outputs
<1>20. Found(Old)'
  BY <1>1, <1>2, <1>3, <1>4, <1>11, <1>15, <1>16, <1>17, <1>18, <1>19 DEF Found
<1> QED
  BY <1>1, <1>2, <1>3, <1>5, <1>20 DEF Searching

(* The flood has been everywhere.                                          *)
LEMMA FloodEnds ==
    ASSUME costmap \in Costs, NEW s, Searching(s), pc = "search", bfs = <<>>, nbrs = <<>>
    PROVE  /\ s \in FreeCells /\ \A c \in FreeCells : Dist[s] <= Dist[c]
           /\ Listed = {f \in FrontiersAround(s) : Cardinality(f) >= min_frontier_size}
<1>1. Flood(s) /\ Found(frontier_flag) /\ frontier_flag \subseteq FrontierCells
  BY DEF Searching, Old
<1>2. Range(bfs) = {} /\ Range(nbrs) = {}
  BY NoCell
<1>3. /\ s \in Region(s) /\ Region(s) \subseteq FreeCells
      /\ Closed(Region(s), FreeCells, Beside)
  BY <1>1, RegionIs DEF Flood
<1>4. \A c \in visited_flag : \A n \in Beside[c] : Known(n)
  BY <1>1, <1>2 DEF Flood
<1>5. visited_flag = Region(s)
  <2>1. visited_flag \in SUBSET FreeCells /\ s \in visited_flag /\ visited_flag \subseteq Region(s)
    BY <1>1, <1>3 DEF Flood
  <2>2. Closed(visited_flag, FreeCells, Beside)
    BY <1>4 DEF Closed, Known
  <2>3. Region(s) \subseteq visited_flag
    BY <2>1, <2>2, ReachLeast DEF Region
  <2> QED
    BY <2>1, <2>3
<1>6. ASSUME NEW d \in FrontierCells, Beside[d] \cap Region(s) # {} PROVE d \in frontier_flag
  <2>1. PICK v \in visited_flag : v \in Beside[d]
    BY <1>5, <1>6
  <2>2. d \in Field /\ v \in Field
    BY <1>3, <1>5, CellKinds
  <2>3. d \in Beside[v]
    BY <2>1, <2>2, Mutual
  <2> QED
    BY <1>4, <2>1, <2>3 DEF Known
<1> DEFINE around == {FrontierOf(c) : c \in {d \in FrontierCells : Beside[d] \cap Region(s) # {}}}
<1>7. around = {FrontierOf(c) : c \in frontier_flag}
  <2>1. around \subseteq {FrontierOf(c) : c \in frontier_flag}
    BY <1>6
  <2>2. ASSUME NEW f \in frontier_flag PROVE FrontierOf(f) \in around
    <3>1. PICK c \in FrontierOf(f) : Beside[c] \cap visited_flag # {}
      BY <1>1 DEF Found
    <3>2. c \in FrontierCells /\ FrontierOf(c) = FrontierOf(f)
      BY <1>1, FrontierIs
    <3> QED
      BY <1>5, <3>1, <3>2
  <2> QED
    BY <2>1, <2>2
<1>8. FrontiersAround(s) = around
  BY DEF FrontiersAround, Region
<1>9. Listed = {FrontierOf(c) : c \in {x \in frontier_flag : Cardinality(FrontierOf(x)) >= min_frontier_size}}
  BY <1>1 DEF Found
<1> HIDE DEF around
<1>10. Listed = {f \in around : Cardinality(f) >= min_frontier_size}
  BY <1>7, <1>9
<1> QED
  BY <1>1, <1>8, <1>10 DEF Flood

(* Sorting leaves the list as a set, and its length, alone.                *)
LEMMA Reordered ==
    ASSUME frontier_list \in Seq(Outputs), NEW t \in Orders(frontier_list)
    PROVE  /\ Len(t) = Len(frontier_list) /\ DOMAIN t = DOMAIN frontier_list
           /\ {CellsOf(t[k]) : k \in DOMAIN t} = Listed
           /\ \A k \in DOMAIN t : \E j \in DOMAIN frontier_list : t[k] = frontier_list[j]
<1>1. /\ t \in [DOMAIN frontier_list -> Range(frontier_list)] /\ Range(t) = Range(frontier_list)
  BY DEF Orders
<1>2. DOMAIN t = DOMAIN frontier_list /\ DOMAIN frontier_list = 1 .. Len(frontier_list) /\ Len(frontier_list) \in Nat
  BY <1>1
<1>3. Len(t) = Len(frontier_list)
  BY <1>1, <1>2
<1>4. \A k \in DOMAIN t : \E j \in DOMAIN frontier_list : t[k] = frontier_list[j]
  BY <1>1 DEF Range
<1>5. \A j \in DOMAIN frontier_list : \E k \in DOMAIN t : t[k] = frontier_list[j]
  BY <1>1 DEF Range
<1>6. {CellsOf(t[k]) : k \in DOMAIN t} = Listed
  BY <1>4, <1>5 DEF Listed
<1> QED
  BY <1>2, <1>3, <1>4, <1>6

Barren ==
    /\ FreeCells = {} /\ pc = "search" /\ frontier_list = <<>>
    /\ bfs \in Seq(Field) /\ nbrs \in Seq(Field)

(* Searched: all free space is flooded, or there is none.                  *)
LEMMA SearchEnds ==
    ASSUME costmap \in Costs, position \in Field, Searched, Barren \/ \E s \in FreeCells : Searching(s)
    PROVE  FindsTheFrontiers'
<1>1. /\ pc = "search" /\ pc' = "done" /\ nbrs = <<>> /\ bfs = <<>>
      /\ frontier_list' \in Orders(frontier_list)
      /\ costmap' = costmap /\ position' = position
  BY DEF Searched, client
<1>2. FreeCells' = FreeCells /\ Around' = Around /\ Beside' = Beside /\ FrontierCells' = FrontierCells
  BY <1>1, Unmoved
<1>3. \A c : FrontiersAround(c)' = FrontiersAround(c)
  BY <1>2 DEF FrontiersAround, FrontierOf
<1>4. \A c, d : Apart(c, d)' = Apart(c, d)
  BY <1>1 DEF Apart, XOf, YOf
<1> DEFINE l == frontier_list'
<1>5. Listed' = {CellsOf(l[k]) : k \in DOMAIN l}
  BY DEF Listed, CellsOf
<1>6. ASSUME frontier_list \in Seq(Outputs), Cardinality(Listed) = Len(frontier_list),
             \A k \in DOMAIN frontier_list :
               frontier_list[k].size = Cardinality(CellsOf(frontier_list[k]))
      PROVE  /\ Listed' = Listed /\ Cardinality(Listed') = Len(frontier_list')
             /\ \A k \in DOMAIN frontier_list' :
                  frontier_list'[k].size = Cardinality(CellsOf(frontier_list'[k]))
  <2> HIDE DEF l
  <2>1. /\ Len(l) = Len(frontier_list) /\ Listed' = Listed
        /\ \A k \in DOMAIN l : \E j \in DOMAIN frontier_list : l[k] = frontier_list[j]
    BY <1>1, <1>5, <1>6, Reordered DEF l
  <2>2. \A k \in DOMAIN l : l[k].size = Cardinality(CellsOf(l[k]))
    BY <1>6, <2>1
  <2> QED
    BY <1>6, <2>1, <2>2 DEF l
<1>7. CASE Barren
  <2>1. frontier_list \in Seq(Outputs) /\ Len(frontier_list) = 0 /\ DOMAIN frontier_list = {} /\ Listed = {}
    BY <1>7 DEF Barren, Listed
  <2>2. Cardinality(Listed) = Len(frontier_list)
    BY <2>1, FS_EmptySet
  <2> QED
    BY <1>1, <1>2, <1>6, <1>7, <2>1, <2>2 DEF FindsTheFrontiers, Barren, CellsOf
<1>8. CASE \E s \in FreeCells : Searching(s)
  <2>1. PICK s \in FreeCells : Searching(s)
    BY <1>8
  <2>2. /\ \A c \in FreeCells : Dist[s] <= Dist[c]
        /\ Listed = {f \in FrontiersAround(s) : Cardinality(f) >= min_frontier_size}
    BY <1>1, <2>1, FloodEnds
  <2>3. \A c \in FreeCells : Apart(position, s) <= Apart(position, c)
    BY <2>2, CellKinds DEF Dist
  <2>4. /\ frontier_list \in Seq(Outputs) /\ Cardinality(Listed) = Len(frontier_list)
        /\ \A k \in DOMAIN frontier_list :
             frontier_list[k].size = Cardinality(CellsOf(frontier_list[k]))
    BY <2>1 DEF Searching, Found
  <2>5. Listed' = {f \in FrontiersAround(s)' : Cardinality(f) >= min_frontier_size}
    BY <1>3, <1>6, <2>2, <2>4
  <2>6. \A c \in FreeCells' : Apart(position, s)' <= Apart(position, c)'
    BY <1>1, <1>2, <1>4, <2>3
  <2> QED
    BY <1>1, <1>2, <1>6, <2>4, <2>5, <2>6 DEF FindsTheFrontiers, CellsOf
<1> QED
  BY <1>7, <1>8

-----------------------------------------------------------------------------
(***************************************************************************)
(* The search runs on a grid of costs.                                     *)
(***************************************************************************)
LEMMA Dropped ==
    ASSUME NEW S, NEW s \in Seq(S), NEW k \in DOMAIN s
    PROVE  /\ RemoveAt(s, k) \in Seq(S)
           /\ \A j \in DOMAIN RemoveAt(s, k) : \E i \in DOMAIN s : RemoveAt(s, k)[j] = s[i]
<1> DEFINE a == SubSeq(s, 1, k - 1)
           b == SubSeq(s, k + 1, Len(s))
<1>1. Len(s) \in Nat /\ DOMAIN s = 1 .. Len(s) /\ k \in 1 .. Len(s) /\ \A i \in 1 .. Len(s) : s[i] \in S
  OBVIOUS
<1>2. /\ a \in Seq(S) /\ Len(a) = k - 1 /\ \A j \in 1 .. k - 1 : a[j] = s[j]
  <2>1. \A i \in 1 .. k - 1 : s[i] \in S
    BY <1>1
  <2>2. /\ a \in Seq(S) /\ Len(a) = (IF 1 <= k - 1 THEN k - 1 - 1 + 1 ELSE 0)
        /\ \A j \in 1 .. k - 1 - 1 + 1 : a[j] = s[1 + j - 1]
    BY <1>1, <2>1, SubSeqProperties
  <2> QED
    BY <1>1, <2>2
<1>3. /\ b \in Seq(S) /\ Len(b) = Len(s) - k /\ \A j \in 1 .. Len(s) - k : b[j] = s[k + j]
  <2>1. \A i \in k + 1 .. Len(s) : s[i] \in S
    BY <1>1
  <2>2. /\ b \in Seq(S) /\ Len(b) = (IF k + 1 <= Len(s) THEN Len(s) - (k + 1) + 1 ELSE 0)
        /\ \A j \in 1 .. Len(s) - (k + 1) + 1 : b[j] = s[k + 1 + j - 1]
    BY <1>1, <2>1, SubSeqProperties
  <2> HIDE DEF b
  <2>3. Len(b) = Len(s) - k
    BY <1>1, <2>2
  <2>4. ASSUME NEW j \in 1 .. Len(s) - k PROVE b[j] = s[k + j]
    <3>1. j \in 1 .. Len(s) - (k + 1) + 1 /\ k + 1 + j - 1 = k + j
      BY <1>1
    <3> QED
      BY <2>2, <3>1
  <2> QED
    BY <2>2, <2>3, <2>4
<1> HIDE DEF a, b
<1>4. RemoveAt(s, k) = a \o b
  BY DEF RemoveAt, a, b
<1>5. /\ a \o b \in Seq(S) /\ Len(a \o b) = Len(a) + Len(b)
      /\ \A j \in 1 .. Len(a) + Len(b) : (a \o b)[j] = IF j <= Len(a) THEN a[j] ELSE b[j - Len(a)]
  BY <1>2, <1>3, ConcatProperties
<1>6. ASSUME NEW j \in DOMAIN (a \o b) PROVE \E i \in DOMAIN s : (a \o b)[j] = s[i]
  <2>1. j \in 1 .. Len(s) - 1
    BY <1>1, <1>2, <1>3, <1>5
  <2>2. CASE j <= k - 1
    BY <1>1, <1>2, <1>3, <1>5, <2>1, <2>2
  <2>3. CASE ~(j <= k - 1)
    <3>1. j - (k - 1) \in 1 .. Len(s) - k /\ j + 1 \in 1 .. Len(s) /\ k + (j - (k - 1)) = j + 1
      BY <1>1, <2>1, <2>3
    <3>2. (a \o b)[j] = b[j - (k - 1)]
      BY <1>1, <1>2, <1>3, <1>5, <2>1, <2>3
    <3>3. b[j - (k - 1)] = s[j + 1]
      BY <1>3, <3>1
    <3> QED
      BY <1>1, <3>1, <3>2, <3>3
  <2> QED
    BY <2>2, <2>3
<1> QED
  BY <1>4, <1>5, <1>6

(* The copy is a grid of costs from the first map on.                      *)
CopyTyped ==
    /\ costmap # <<>> => costmap \in Costs
    /\ subscribed \/ (\E k \in DOMAIN messages : ~messages[k].full) => costmap \in Costs

(* Every occupancy value has a cost.                                       *)
LEMMA CostOf == \A v \in (-1) .. 100 : cost_translation_table(v) \in 0 .. 255
BY DEF cost_translation_table

(* What updateFullMap() and updatePartialMap() leave is a grid of costs.   *)
LEMMA WholeCopied ==
    ASSUME NEW m \in Messages, updateFullMap(m)
    PROVE  costmap' \in Costs
<1>1. m.grid \in Maps
  BY DEF Messages
<1>2. /\ m.grid = [width |-> m.grid.width, height |-> m.grid.height, data |-> m.grid.data]
      /\ m.grid.width \in Nat /\ m.grid.height \in Nat
      /\ m.grid.data \in [0 .. m.grid.width * m.grid.height - 1 -> (-1) .. 100]
  BY <1>1, MapShape
<1> DEFINE d == [i \in Cells(m.grid) |-> cost_translation_table(m.grid.data[i])]
<1>3. d \in [0 .. m.grid.width * m.grid.height - 1 -> 0 .. 255]
  BY <1>2, CostOf DEF Cells
<1>4. costmap' = [m.grid EXCEPT !.data = d]
  BY DEF updateFullMap, Translated
<1> HIDE DEF d
<1>5. costmap' = [width |-> m.grid.width, height |-> m.grid.height, data |-> d]
  BY <1>2, <1>4
<1> QED
  BY <1>2, <1>3, <1>5, CostMade

(* The place of a cell in the data of an update lies within that data.     *)
LEMMA TakenWithin ==
    ASSUME costmap \in Costs, NEW m \in Messages, ~m.full, NEW c \in Cells(costmap), Copies(m, c)
    PROVE  m.grid.data[Taken(m, c)] \in (-1) .. 100
<1>1. m.x \in Nat /\ m.y \in Nat /\ m.grid \in Maps
  BY DEF Messages
<1>2. /\ m.grid.width \in Nat /\ m.grid.height \in Nat
      /\ m.grid.data \in [0 .. m.grid.width * m.grid.height - 1 -> (-1) .. 100]
  BY <1>1, MapShape
<1>3. /\ Columns \in Nat \ {0} /\ Col(c) \in 0 .. Columns - 1 /\ Row(c) \in Nat
  BY PlaceOf DEF Field
<1> PICK w, h, a, b : w = m.grid.width /\ h = m.grid.height /\ a = Col(c) - m.x /\ b = Row(c) - m.y
  OBVIOUS
<1>4. Col(c) \in m.x .. m.x + w - 1 /\ Row(c) \in m.y .. m.y + h - 1
  BY DEF Copies, Col, Row
<1> PICK n : n = (IF m.x + w < Columns THEN m.x + w ELSE Columns) - m.x
  OBVIOUS
<1>5. a \in 0 .. n - 1 /\ n \in Nat \ {0} /\ n <= w /\ b \in 0 .. h - 1 /\ w \in Nat /\ h \in Nat
  <2>1. w \in Nat /\ h \in Nat
    BY <1>2
  <2> QED
    BY <1>1, <1>3, <1>4, <2>1
<1>6. Taken(m, c) = b * n + a
  BY Zenon DEF Taken, Col, Row, Columns
<1>7. b * n + a \in 0 .. n * h - 1
  <2>1. b \in Nat /\ b < h
    BY <1>5
  <2> QED
    BY <1>5, <2>1, RowColumn
<1>8. n * h <= w * h
  <2>1. PICK e \in Nat : w = n + e
    <3>1. w - n \in Nat /\ w = n + (w - n)
      BY <1>5
    <3> QED
      BY <3>1
  <2>2. w * h = n * h + e * h /\ e * h \in Nat /\ n * h \in Nat
    BY <1>5, <2>1
  <2> QED
    BY <2>2
<1>9. b * n + a \in 0 .. w * h - 1
  <2>1. n * h \in Nat /\ w * h \in Nat
    BY <1>5
  <2> QED
    BY <1>7, <1>8, <2>1
<1> QED
  BY <1>2, <1>6, <1>9

LEMMA UpdateCopied ==
    ASSUME costmap \in Costs, NEW m \in Messages, ~m.full, updatePartialMap(m)
    PROVE  costmap' \in Costs
<1>1. /\ costmap = [width |-> costmap.width, height |-> costmap.height, data |-> costmap.data]
      /\ costmap.width \in Nat /\ costmap.height \in Nat
      /\ costmap.data \in [0 .. costmap.width * costmap.height - 1 -> 0 .. 255]
  BY CostShape
<1> DEFINE d == [c \in Cells(costmap) |->
                   IF Copies(m, c) THEN cost_translation_table(m.grid.data[Taken(m, c)])
                   ELSE costmap.data[c]]
<1>2. ASSUME NEW c \in Cells(costmap) PROVE d[c] \in 0 .. 255
  <2>1. CASE Copies(m, c)
    BY <2>1, TakenWithin, CostOf
  <2>2. CASE ~Copies(m, c)
    BY <1>1, <2>2 DEF Cells
  <2> QED
    BY <2>1, <2>2
<1>3. d \in [0 .. costmap.width * costmap.height - 1 -> 0 .. 255]
  BY <1>2 DEF Cells
<1>4. costmap' = [costmap EXCEPT !.data = d]
  BY DEF updatePartialMap
<1> HIDE DEF d
<1>5. costmap' = [width |-> costmap.width, height |-> costmap.height, data |-> d]
  <2>1. PICK w, h, e : costmap = [width |-> w, height |-> h, data |-> e]
    BY <1>1
  <2>2. costmap' = [width |-> w, height |-> h, data |-> d] /\ w = costmap.width /\ h = costmap.height
    BY <1>4, <2>1
  <2> QED
    BY <2>2
<1> QED
  BY <1>1, <1>3, <1>5, CostMade

LEMMA ReceiveTyped == ClientTyped /\ CopyTyped /\ Receive => ClientTyped' /\ CopyTyped'
<1> SUFFICES ASSUME ClientTyped, CopyTyped, Receive PROVE ClientTyped' /\ CopyTyped'
  OBVIOUS
<1>1. messages \in Seq(Messages) /\ UNCHANGED <<subscribed, missed, published, edits>>
  BY DEF Receive, ClientTyped
<1>2. PICK k \in DOMAIN messages :
        /\ IF messages[k].full THEN updateFullMap(messages[k]) ELSE updatePartialMap(messages[k])
        /\ messages' = RemoveAt(messages, k)
  BY DEF Receive
<1>3. messages[k] \in Messages
  BY <1>1
<1>4. costmap' \in Costs
  BY <1>2, <1>3, WholeCopied, UpdateCopied DEF CopyTyped
<1>5. messages' \in Seq(Messages)
  BY <1>1, <1>2, Dropped
<1> QED
  BY <1>1, <1>4, <1>5 DEF ClientTyped, CopyTyped

(* A map stands still while it is searched.                                *)
LEMMA Undisturbed ==
    ASSUME ClientTyped, CopyTyped, UNCHANGED client
    PROVE  ClientTyped' /\ CopyTyped' /\ costmap' = costmap
BY DEF ClientTyped, CopyTyped, client

LEMMA CallbackTyped == ClientTyped /\ CopyTyped /\ ClientNext => ClientTyped' /\ CopyTyped'
<1> SUFFICES ASSUME ClientTyped, CopyTyped, ClientNext PROVE ClientTyped' /\ CopyTyped'
  OBVIOUS
<1>1. CASE PublishUpdate
  <2>1. /\ ClientTyped' /\ UNCHANGED <<subscribed, costmap>>
        /\ ~subscribed => messages' = messages
    BY <1>1, UpdateMade
  <2> QED
    BY <2>1 DEF CopyTyped
<1>2. CASE PublishFull
  <2> PICK m : m = [full |-> TRUE, grid |-> published']
    OBVIOUS
  <2>1. ClientTyped' /\ UNCHANGED <<subscribed, costmap>> /\ messages' = Append(messages, m)
    BY <1>2, WholeMade
  <2>2. m \in Messages /\ m.full
    BY <2>1 DEF ClientTyped, Messages
  <2>3. /\ Len(messages) \in Nat /\ Len(messages') = Len(messages) + 1
        /\ messages'[Len(messages) + 1] = m
        /\ \A k \in 1 .. Len(messages) : messages'[k] = messages[k]
        /\ DOMAIN messages = 1 .. Len(messages) /\ DOMAIN messages' = 1 .. Len(messages')
    BY <2>1, <2>2, Queued DEF ClientTyped
  <2>4. ASSUME NEW k \in DOMAIN messages', ~messages'[k].full
        PROVE  \E j \in DOMAIN messages : ~messages[j].full
    BY <2>2, <2>3, <2>4
  <2> QED
    BY <2>1, <2>4 DEF CopyTyped
<1>3. CASE Receive
  BY <1>3, ReceiveTyped
<1>4. CASE Subscribe
  BY <1>4 DEF Subscribe, ClientTyped, CopyTyped
<1> QED
  BY <1>1, <1>2, <1>3, <1>4 DEF ClientNext

(* What each phase of the search leaves empty or has found.                *)
Rest ==
    /\ position \in Nat /\ pc \in {"idle", "seek", "search", "build", "done"}
    /\ pc # "build" => build_bfs = <<>> /\ build_nbrs = <<>>
    /\ pc \in {"idle", "done"} => nbrs = <<>>
    /\ pc \in {"idle", "seek"} => frontier_list = <<>> /\ frontier_flag = {}
    /\ pc # "idle" => costmap \in Costs
    /\ pc \in {"seek", "search", "build"} => position \in Field

Flooding == pc \in {"search", "build"} => Barren \/ \E s \in FreeCells : Searching(s)

SearchInv == ClientTyped /\ CopyTyped /\ Rest /\ Seeking /\ Flooding /\ FindsTheFrontiers

(* A position below the size of the map is a cell of it.                   *)
LEMMA OnTheMap ==
    ASSUME costmap \in Costs, position \in Nat
    PROVE  position < Size <=> position \in Field
<1>1. costmap.width \in Nat /\ costmap.height \in Nat
  BY CostShape
<1> PICK n : n = costmap.width * costmap.height
  OBVIOUS
<1>2. n \in Nat
  BY <1>1
<1>3. Size = n /\ Field = 0 .. n - 1
  BY DEF Size, Field, Cells
<1> QED
  BY <1>2, <1>3

(* The invariant holds along every action of the search.                   *)
LEMMA SearchBegun == SearchInv /\ searchFrom => SearchInv'
<1> SUFFICES ASSUME SearchInv, searchFrom PROVE SearchInv'
  OBVIOUS
<1>1. /\ pc = "idle" /\ costmap \in Costs /\ UNCHANGED client
      /\ position' = position /\ position \in Nat /\ nbrs' = <<>>
      /\ frontier_flag' = {} /\ frontier_list' = <<>> /\ build_bfs' = <<>> /\ build_nbrs' = <<>>
  BY DEF searchFrom, SearchInv, Rest, CopyTyped
<1>2. ClientTyped' /\ CopyTyped' /\ costmap' = costmap
  BY <1>1, Undisturbed DEF SearchInv
<1>3. Field' = Field /\ Size' = Size
  BY <1>2, Unmoved DEF Size
<1>4. CASE position >= Size
  <2>1. pc' = "done"
    BY <1>4 DEF searchFrom
  <2>2. position \notin Field /\ ~(position < Size)
    <3>1. Size \in Nat
      BY <1>1, CostShape DEF Size
    <3>2. ~(position < Size)
      BY <1>1, <1>4, <3>1
    <3> QED
      BY <1>1, <3>2, OnTheMap
  <2> QED
    BY <1>1, <1>2, <1>3, <2>1, <2>2 DEF SearchInv, Rest, Seeking, Flooding, FindsTheFrontiers
<1>5. CASE ~(position >= Size)
  <2>1. pc' = "seek" /\ bfs' = <<position>> /\ visited_flag' = {position}
    BY <1>5 DEF searchFrom
  <2>2. position \in Field
    <3>1. Size \in Nat
      BY <1>1, CostShape DEF Size
    <3>2. position < Size
      BY <1>1, <1>5, <3>1
    <3> QED
      BY <1>1, <3>2, OnTheMap
  <2>3. Wave(0)'
    BY <1>1, <1>2, <2>1, <2>2, SeekStarts
  <2>4. Seeking'
    BY <2>3 DEF Seeking
  <2> QED
    BY <1>1, <1>2, <1>3, <2>1, <2>2, <2>4 DEF SearchInv, Rest, Flooding, FindsTheFrontiers
<1> QED
  BY <1>4, <1>5

LEMMA SearchSeeks == SearchInv /\ (nearestCell(FREE_SPACE) \/ Seek) => SearchInv'
<1> SUFFICES ASSUME SearchInv, nearestCell(FREE_SPACE) \/ Seek PROVE SearchInv'
  OBVIOUS
<1>1. /\ pc = "seek" /\ costmap \in Costs /\ position \in Field /\ UNCHANGED client
      /\ position' = position /\ position \in Nat
      /\ frontier_flag' = {} /\ frontier_list' = <<>> /\ build_bfs' = <<>> /\ build_nbrs' = <<>>
  BY DEF nearestCell, Seek, SearchInv, Rest
<1>2. ClientTyped' /\ CopyTyped' /\ costmap' = costmap
  BY <1>1, Undisturbed DEF SearchInv
<1>3. Field' = Field /\ FreeCells' = FreeCells
  BY <1>2, Unmoved
<1>4. PICK d \in Nat : Wave(d)
  BY <1>1 DEF SearchInv, Seeking
<1>5. ASSUME pc' = "seek", \E e \in Nat : Wave(e)' PROVE SearchInv'
  BY <1>1, <1>2, <1>3, <1>5 DEF SearchInv, Rest, Seeking, Flooding, FindsTheFrontiers
<1>6. ASSUME pc' = "search", nbrs' = <<>>, Barren' \/ \E s \in FreeCells : Searching(s)'
      PROVE  SearchInv'
  BY <1>1, <1>2, <1>3, <1>6 DEF SearchInv, Rest, Seeking, Flooding, FindsTheFrontiers
<1>7. CASE Seek
  <2>1. pc' = "seek" /\ Wave(d)'
    BY <1>1, <1>4, <1>7, SeekLooks DEF Seek
  <2> QED
    BY <1>5, <2>1
<1>8. CASE nearestCell(FREE_SPACE) /\ bfs # <<>> /\ map(Head(bfs)) # FREE_SPACE
  <2>1. /\ pc' = "seek" /\ nbrs = <<>> /\ nbrs' = nhood8(Head(bfs)) /\ bfs' = Tail(bfs)
        /\ visited_flag' = visited_flag
    BY <1>1, <1>8 DEF nearestCell
  <2>2. \E e \in Nat : Wave(e)'
    BY <1>1, <1>2, <1>4, <1>8, <2>1, SeekTakes
  <2> QED
    BY <1>5, <2>1, <2>2
<1>9. CASE nearestCell(FREE_SPACE) /\ bfs # <<>> /\ map(Head(bfs)) = FREE_SPACE
  <2> PICK s : s = Head(bfs)
    OBVIOUS
  <2>1. /\ pc' = "search" /\ nbrs' = <<>> /\ bfs' = <<s>> /\ visited_flag' = {s}
    BY <1>9 DEF nearestCell
  <2>2. s \in FreeCells /\ \A c \in FreeCells : Dist[s] <= Dist[c]
    BY <1>1, <1>4, <1>9, SeekFinds
  <2>3. Searching(s)'
    BY <1>1, <1>2, <2>1, <2>2, SearchingStarts
  <2> QED
    BY <1>6, <2>1, <2>2, <2>3
<1>10. CASE nearestCell(FREE_SPACE) /\ bfs = <<>>
  <2>1. pc' = "search" /\ nbrs' = <<>> /\ bfs' = <<position>> /\ nbrs = <<>>
    BY <1>10 DEF nearestCell
  <2>2. FreeCells = {}
    BY <1>1, <1>4, <1>10, <2>1, SeekFails
  <2>3. bfs' \in Seq(Field) /\ nbrs' \in Seq(Field)
    BY <1>1, <2>1, OneCell, NoCell
  <2>4. Barren'
    BY <1>1, <1>3, <2>1, <2>2, <2>3 DEF Barren
  <2> QED
    BY <1>6, <2>1, <2>4
<1> QED
  BY <1>7, <1>8, <1>9, <1>10

(* Every step between the start of the flood and its end.                  *)
LEMMA SearchFloods == SearchInv /\ (Pop \/ Visit \/ PopBuild \/ Grow \/ Built) => SearchInv'
<1> SUFFICES ASSUME SearchInv, Pop \/ Visit \/ PopBuild \/ Grow \/ Built PROVE SearchInv'
  OBVIOUS
<1>1. /\ pc \in {"search", "build"} /\ costmap \in Costs /\ position \in Field
      /\ UNCHANGED client /\ position' = position /\ position \in Nat
      /\ pc = "search" => build_bfs = <<>> /\ build_nbrs = <<>>
  BY DEF Pop, Visit, PopBuild, Grow, Built, SearchInv, Rest
<1>2. ClientTyped' /\ CopyTyped' /\ costmap' = costmap
  BY <1>1, Undisturbed DEF SearchInv
<1>3. Field' = Field /\ FreeCells' = FreeCells /\ FrontierCells = FrontierCells'
  BY <1>2, Unmoved
<1>4. Barren \/ \E s \in FreeCells : Searching(s)
  BY <1>1 DEF SearchInv, Flooding
<1>5. ASSUME pc' \in {"search", "build"},
             pc' = "search" => build_bfs' = <<>> /\ build_nbrs' = <<>>,
             Barren' \/ \E s \in FreeCells : Searching(s)'
      PROVE  SearchInv'
  BY <1>1, <1>2, <1>3, <1>5 DEF SearchInv, Rest, Seeking, Flooding, FindsTheFrontiers
<1>6. CASE Barren
  <2>1. /\ FreeCells = {} /\ pc = "search" /\ frontier_list = <<>>
        /\ bfs \in Seq(Field) /\ nbrs \in Seq(Field) /\ build_bfs = <<>> /\ build_nbrs = <<>>
    BY <1>1, <1>6 DEF Barren
  <2>2. CASE Pop
    <3>1. /\ pc' = "search" /\ frontier_list' = frontier_list /\ bfs # <<>>
          /\ bfs' = Tail(bfs) /\ nbrs' = nhood4(Head(bfs))
          /\ build_bfs' = build_bfs /\ build_nbrs' = build_nbrs
      BY <2>2 DEF Pop
    <3>2. Tail(bfs) \in Seq(Field) /\ Head(bfs) \in Field
      BY <2>1, <3>1, InHeadTail
    <3>3. nhood4(Head(bfs)) \in Seq(Field)
      BY <1>1, <3>2, Neighbours
    <3>4. Barren'
      BY <1>3, <2>1, <3>1, <3>2, <3>3 DEF Barren
    <3> QED
      BY <1>5, <2>1, <3>1, <3>4
  <2>3. CASE Visit
    <3> PICK n : n = Head(nbrs)
      OBVIOUS
    <3>1. nbrs # <<>> /\ nbrs' = Tail(nbrs) /\ frontier_list' = frontier_list
          /\ build_nbrs' = build_nbrs
      BY <2>3 DEF Visit
    <3>2. Tail(nbrs) \in Seq(Field) /\ n \in Field
      BY <2>1, <3>1, InHeadTail
    <3>3. n \notin FrontierCells
      BY <1>1, <2>1, <3>2, CellKinds
    <3>4. ~isNewFrontierCell(n)
      BY <1>1, <3>2, <3>3, NewCell
    <3>5. pc' = pc /\ (bfs' = bfs \/ bfs' = Append(bfs, n)) /\ build_bfs' = build_bfs
      BY <2>3, <3>4 DEF Visit
    <3>6. bfs' \in Seq(Field)
      BY <2>1, <3>2, <3>5, InAppend
    <3>7. Barren'
      BY <1>3, <2>1, <3>1, <3>2, <3>5, <3>6 DEF Barren
    <3> QED
      BY <1>5, <2>1, <3>1, <3>5, <3>7
  <2> QED
    BY <2>1, <2>2, <2>3 DEF PopBuild, Grow, Built
<1>7. CASE \E s \in FreeCells : Searching(s)
  <2>1. PICK s \in FreeCells : Searching(s)
    BY <1>7
  <2>2. Searching(s)'
    <3>1. CASE Pop
      BY <1>1, <2>1, <3>1, FloodPops
    <3>2. CASE PopBuild
      BY <1>1, <2>1, <3>2, FrontierPops
    <3>3. CASE Grow
      BY <1>1, <2>1, <3>3, FrontierGrows
    <3>4. CASE Built
      <4>1. build_bfs = <<>> /\ build_nbrs = <<>>
        BY <3>4 DEF Built
      <4> QED
        BY <1>1, <2>1, <3>4, <4>1, FrontierJoins
    <3>5. CASE Visit
      <4> PICK n : n = Head(nbrs)
        OBVIOUS
      <4>1. /\ pc = "search" /\ nbrs # <<>> /\ nbrs' = Tail(nbrs) /\ idx' = idx
            /\ frontier_list' = frontier_list /\ build_nbrs' = <<>>
        BY <1>1, <3>5 DEF Visit
      <4>2. CASE Visitable(n)
        <5>1. /\ visited_flag' = visited_flag \cup {n} /\ bfs' = Append(bfs, n)
              /\ pc' = "search" /\ frontier_flag' = frontier_flag
          BY <3>5, <4>1, <4>2 DEF Visit
        <5> QED
          BY <1>1, <1>2, <2>1, <4>1, <4>2, <5>1, FloodGoesOn
      <4>3. CASE ~Visitable(n) /\ ~isNewFrontierCell(n)
        <5>1. /\ visited_flag' = visited_flag /\ bfs' = bfs
              /\ pc' = "search" /\ frontier_flag' = frontier_flag
          BY <3>5, <4>1, <4>3 DEF Visit
        <5> QED
          BY <1>1, <1>2, <2>1, <4>1, <4>3, <5>1, FloodGoesOn
      <4>4. CASE ~Visitable(n) /\ isNewFrontierCell(n)
        <5>1. /\ visited_flag' = visited_flag /\ bfs' = bfs /\ pc' = "build"
              /\ frontier_flag' = frontier_flag \cup {n} /\ build_bfs' = <<n>>
              /\ output' = [initial |-> n, points |-> {}, size |-> 1, sumx |-> 0, sumy |-> 0,
                            min_distance |-> Infinity]
          BY <3>5, <4>4 DEF Visit
        <5> QED
          BY <1>1, <1>2, <2>1, <4>1, <4>4, <5>1, FrontierBegins
      <4> QED
        BY <4>2, <4>3, <4>4
    <3> QED
      BY <3>1, <3>2, <3>3, <3>4, <3>5
  <2>3. /\ pc' \in {"search", "build"}
        /\ pc' = "search" => build_bfs' = <<>> /\ build_nbrs' = <<>>
    BY <1>1 DEF Pop, Visit, PopBuild, Grow, Built
  <2> QED
    BY <1>5, <2>2, <2>3
<1> QED
  BY <1>4, <1>6, <1>7

LEMMA SearchDone == SearchInv /\ (Searched \/ Again \/ Callback) => SearchInv'
<1>1. ASSUME SearchInv, Searched PROVE SearchInv'
  <2>1. /\ pc = "search" /\ pc' = "done" /\ costmap \in Costs /\ position \in Field
        /\ UNCHANGED client /\ position' = position /\ position \in Nat
        /\ nbrs' = <<>> /\ build_bfs' = <<>> /\ build_nbrs' = <<>>
    BY <1>1 DEF Searched, SearchInv, Rest
  <2>2. ClientTyped' /\ CopyTyped' /\ costmap' = costmap
    BY <1>1, <2>1, Undisturbed DEF SearchInv
  <2>3. FindsTheFrontiers'
    BY <1>1, <2>1, SearchEnds DEF SearchInv, Flooding
  <2> QED
    BY <2>1, <2>2, <2>3 DEF SearchInv, Rest, Seeking, Flooding
<1>2. ASSUME SearchInv, Again PROVE SearchInv'
  <2>1. /\ pc' = "idle" /\ position' \in Nat /\ UNCHANGED client
        /\ nbrs' = <<>> /\ build_bfs' = <<>> /\ build_nbrs' = <<>>
        /\ frontier_list' = <<>> /\ frontier_flag' = {}
    BY <1>2, SearchAssumption DEF Again, SearchInv, Rest
  <2>2. ClientTyped' /\ CopyTyped'
    BY <1>2, <2>1, Undisturbed DEF SearchInv
  <2> QED
    BY <2>1, <2>2 DEF SearchInv, Rest, Seeking, Flooding, FindsTheFrontiers
<1>3. ASSUME SearchInv, Callback PROVE SearchInv'
  <2>1. pc' = "idle" /\ UNCHANGED search /\ pc = "idle"
    BY <1>3 DEF Callback, search
  <2>2. ClientTyped' /\ CopyTyped'
    BY <1>3, CallbackTyped DEF Callback, SearchInv
  <2>3. Rest'
    BY <1>3, <2>1 DEF search, SearchInv, Rest
  <2> QED
    BY <2>1, <2>2, <2>3 DEF SearchInv, Seeking, Flooding, FindsTheFrontiers
<1> QED
  BY <1>1, <1>2, <1>3

LEMMA SearchStands ==
    ASSUME SearchInv, UNCHANGED searchVars
    PROVE  SearchInv'
<1>1. /\ UNCHANGED <<pc, position, bfs, visited_flag, frontier_flag, nbrs, idx, build_bfs,
                     build_nbrs, output, frontier_list>>
      /\ UNCHANGED client
  BY DEF searchVars, search
<1>2. ClientTyped' /\ CopyTyped' /\ costmap' = costmap
  BY <1>1, Undisturbed DEF SearchInv
<1>3. /\ Field' = Field /\ Around' = Around /\ Beside' = Beside /\ FreeCells' = FreeCells
      /\ FrontierCells' = FrontierCells /\ Dist' = Dist
  BY <1>1, <1>2, Unmoved
<1>4. Rest'
  BY <1>1, <1>2, <1>3 DEF SearchInv, Rest
<1>5. Seeking'
  <2>1. ASSUME NEW d, Wave(d) PROVE Wave(d)'
    BY <1>1, <1>2, <1>3, <2>1 DEF Wave
  <2> QED
    BY <1>1, <2>1 DEF SearchInv, Seeking
<1>6. CellsOf(output)' = CellsOf(output) /\ Old' = Old
  BY <1>1 DEF CellsOf, Old
<1>7. \A c : FrontierOf(c)' = FrontierOf(c)
  BY <1>3 DEF FrontierOf
<1>8. ASSUME NEW s, Searching(s) PROVE Searching(s)'
  <2>1. Flood(s)'
    BY <1>1, <1>2, <1>8, FloodKept DEF Searching
  <2>2. Found(Old)'
    <3> PICK o : o = Old
      OBVIOUS
    <3>1. Found(o)'
      BY <1>1, <1>2, <1>8, FoundKept DEF Searching
    <3> QED
      BY <1>6, <3>1 DEF Found
  <2>3. Building => Building'
    BY <1>1, <1>3, <1>7 DEF Building, CellsOf, Outputs
  <2> QED
    BY <1>1, <1>3, <1>8, <2>1, <2>2, <2>3 DEF Searching
<1>9. Flooding'
  <2>1. Barren => Barren'
    BY <1>1, <1>3 DEF Barren
  <2> QED
    BY <1>1, <1>3, <1>8, <2>1 DEF SearchInv, Flooding
<1>10. FindsTheFrontiers'
  <2>1. \A c, d : Apart(c, d)' = Apart(c, d)
    BY <1>2 DEF Apart, XOf, YOf
  <2>2. \A c : FrontiersAround(c)' = FrontiersAround(c)
    BY <1>3, <1>7 DEF FrontiersAround
  <2>3. Listed' = Listed /\ Size' = Size
    BY <1>1, <1>2 DEF Listed, CellsOf, Size
  <2>4. FindsTheFrontiers
    BY DEF SearchInv
  <2> QED
    BY <1>1, <1>3, <2>1, <2>2, <2>3, <2>4 DEF FindsTheFrontiers, CellsOf
<1> QED
  BY <1>2, <1>4, <1>5, <1>9, <1>10 DEF SearchInv

LEMMA SearchInvInit == SearchInit => SearchInv
<1> SUFFICES ASSUME SearchInit PROVE SearchInv
  OBVIOUS
<1>0. ClientInit
  BY DEF SearchInit
<1>1. ClientTyped
  BY <1>0, ClientInvInit DEF ClientInv
<1>2. CopyTyped
  <2>1. \A k \in DOMAIN messages : messages[k].full
    BY <1>0 DEF ClientInit
  <2> QED
    BY <1>0, <2>1 DEF ClientInit, CopyTyped
<1> QED
  BY <1>1, <1>2, SearchAssumption
     DEF SearchInit, SearchInv, Rest, Seeking, Flooding, FindsTheFrontiers

(* searchFrom(), nearestCell() and buildNewFrontier() find what a search   *)
(* is for: on any map the client may hold, from any cell the robot may be  *)
(* in, whatever callbacks ran before, a search that has ended lists each   *)
(* frontier of at least min_frontier_size cells around the free space      *)
(* nearest to the robot, once, whole and with its size, and no other       *)
(* (FindsTheFrontiers).                                                    *)
THEOREM SearchIsComplete == SearchSpec => []FindsTheFrontiers
<1>1. SearchInv /\ [SearchNext]_searchVars => SearchInv'
  BY SearchBegun, SearchSeeks, SearchFloods, SearchDone, SearchStands DEF SearchNext, Search
<1>2. SearchInv => FindsTheFrontiers
  BY DEF SearchInv
<1> QED
  BY <1>1, <1>2, SearchInvInit, PTL DEF SearchSpec

(* A search is no step of the client.                                      *)
LEMMA SearchIsClient == SearchSpec => ClientSpec
<1>1. SearchNext => ClientNext \/ UNCHANGED client
  BY DEF SearchNext, Search, Callback, searchFrom, nearestCell, Seek, Pop, Visit, PopBuild, Grow,
         Built, Searched, Again
<1>2. [SearchNext]_searchVars => [ClientNext]_client
  BY <1>1 DEF searchVars
<1>3. SearchInit => ClientInit
  BY DEF SearchInit
<1> QED
  BY <1>2, <1>3, PTL DEF SearchSpec, ClientSpec

(* The searches disturb no copy: with them running between the callbacks,  *)
(* the copy is still the publisher's map once everything published has     *)
(* arrived (CopyIsCurrent).                                                *)
THEOREM CopyFollowsMapBetweenSearches == Ordered => (SearchSpec => []CopyIsCurrent)
BY SearchIsClient, CopyFollowsMap, PTL

=============================================================================
