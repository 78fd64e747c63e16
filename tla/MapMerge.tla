------------------------------ MODULE MapMerge ------------------------------
(***************************************************************************)
(* The map merging node (map_merge of m-explore-ros2): it discovers the    *)
(* robots' map topics, keeps one map per robot from full maps and partial  *)
(* updates, finds or is given a transform per map, and publishes the       *)
(* merged map.                                                             *)
(*                                                                         *)
(* All timers and subscriptions share one thread, so a callback is one     *)
(* step.  What interleaves is the order of callbacks: a robot may be       *)
(* discovered, its map may arrive and the poses may be estimated in any    *)
(* order, and the two topics of a robot overtake each other.               *)
(*                                                                         *)
(* A map's content is the stamp of the full map it is based on and the     *)
(* stamps of the updates copied into it.                                   *)
(***************************************************************************)
EXTENDS Integers, Sequences, FiniteSets, SequencesExt

CONSTANTS
    Robots,
    have_initial_poses,  \* the values of that member to check: a set of Booleans
    InitPose,            \* InitPose[r]: "identity", "other", or "none" if no parameter is set
    MaxStamp             \* bound: messages published by all robots

ASSUME MapMergeAssumption ==
    /\ IsFiniteSet(Robots)
    /\ have_initial_poses \subseteq BOOLEAN
    /\ InitPose \in [Robots -> {"identity", "other", "none"}]
    /\ MaxStamp \in Nat

VARIABLES
    known,           \* have_initial_poses_
    online,          \* robots whose map topic is on the network
    stamp,           \* the time: one message per stamp
    maps, updates,   \* per robot, the two topics: stamps in flight, oldest first
    subscriptions,   \* robots, the one discovered last in front
    readonly_map,    \* per robot: Null or [stamp, base, patches]
    writable_map,    \* per robot: whether it is set; if so it is readonly_map's object
    images,          \* pipeline_.images_ and grids_: [of, arrived]
    transforms,      \* pipeline_.transforms_: [of, kind]
    merged,          \* the published map: which map was warped by whose transform
    node             \* "up", "threw" out of a callback, or "crashed"

network == <<online, stamp, maps, updates>>
received == <<subscriptions, readonly_map, writable_map>>
pipeline == <<images, transforms>>
vars == <<known, network, received, pipeline, merged, node>>

Null == [stamp |-> 0, base |-> 0, patches |-> {}]
Kinds == {"identity", "other", "none"}

Stamps == 1..MaxStamp
TypeOK ==
    /\ known \in have_initial_poses
    /\ online \subseteq Robots /\ stamp \in 0..MaxStamp
    /\ maps \in [Robots -> Seq(Stamps)] /\ updates \in [Robots -> Seq(Stamps)]
    /\ subscriptions \in Seq(Robots)
    /\ readonly_map \in [Robots -> [stamp : 0..MaxStamp, base : 0..MaxStamp,
                                    patches : SUBSET Stamps]]
    /\ writable_map \in [Robots -> BOOLEAN]
    /\ images \in Seq([of : Robots, arrived : BOOLEAN])
    /\ transforms \in Seq([of : Robots, kind : Kinds])
    /\ merged \subseteq [map : Robots, by : Robots]
    /\ node \in {"up", "threw", "crashed"}

Init ==
    /\ known \in have_initial_poses
    /\ online = {} /\ stamp = 0
    /\ maps = [r \in Robots |-> <<>>] /\ updates = [r \in Robots |-> <<>>]
    /\ subscriptions = <<>>
    /\ readonly_map = [r \in Robots |-> Null] /\ writable_map = [r \in Robots |-> FALSE]
    /\ images = <<>> /\ transforms = <<>>
    /\ merged = {} /\ node = "up"

-----------------------------------------------------------------------------
(* The robots                                                              *)

Appear ==
    /\ \E r \in Robots \ online : online' = online \cup {r}
    /\ UNCHANGED <<known, stamp, maps, updates, received, pipeline, merged, node>>

(* The topics are latched and deep enough to lose nothing.                 *)
Publish ==
    /\ stamp < MaxStamp /\ stamp' = stamp + 1
    /\ \E r \in online :
         \/ maps' = [maps EXCEPT ![r] = Append(@, stamp')] /\ UNCHANGED updates
         \/ updates' = [updates EXCEPT ![r] = Append(@, stamp')] /\ UNCHANGED maps
    /\ UNCHANGED <<known, online, received, pipeline, merged, node>>

-----------------------------------------------------------------------------
(* The callbacks                                                           *)

Orders(S) == {s \in [1..Cardinality(S) -> S] : IsInjective(s)}

(* Subscribe to every robot not yet known; with known poses only to those  *)
(* whose pose is configured.  Each is put in front.                        *)
topicSubscribing ==
    LET new == {r \in online : ~Contains(subscriptions, r) /\ (known => InitPose[r] # "none")}
    IN /\ new # {}
       /\ \E order \in Orders(new) : subscriptions' = order \o subscriptions
       /\ UNCHANGED <<known, network, readonly_map, writable_map, pipeline, merged, node>>

fullMapUpdate(r, t) ==
    IF readonly_map[r].stamp > t THEN UNCHANGED <<readonly_map, writable_map>>
    ELSE /\ readonly_map' = [readonly_map EXCEPT ![r] = [stamp |-> t, base |-> t, patches |-> {}]]
         /\ writable_map' = [writable_map EXCEPT ![r] = FALSE]

(* Variant: an update older than the map is copied into it all the same.   *)
partialMapUpdateAlways(r, t) ==
    IF readonly_map[r] = Null THEN UNCHANGED <<readonly_map, writable_map>>
    ELSE /\ readonly_map' = [readonly_map EXCEPT ![r].stamp = t, ![r].patches = @ \cup {t}]
         /\ writable_map' = [writable_map EXCEPT ![r] = TRUE]

(* Without a writable map the update goes into a copy, which is thrown     *)
(* away if the map in use is newer.  A writable map is the map in use: it  *)
(* is changed and stamped in place, before the comparison with itself.     *)
partialMapUpdate(r, t) ==
    IF readonly_map[r] = Null \/ (~writable_map[r] /\ readonly_map[r].stamp > t)
    THEN UNCHANGED <<readonly_map, writable_map>>
    ELSE /\ readonly_map' = [readonly_map EXCEPT ![r].stamp = t, ![r].patches = @ \cup {t}]
         /\ writable_map' = [writable_map EXCEPT ![r] = TRUE]

Deliver(r) ==
    /\ Contains(subscriptions, r)
    /\ \/ /\ maps[r] # <<>> /\ fullMapUpdate(r, Head(maps[r]))
          /\ maps' = [maps EXCEPT ![r] = Tail(@)] /\ UNCHANGED updates
       \/ /\ updates[r] # <<>> /\ partialMapUpdate(r, Head(updates[r]))
          /\ updates' = [updates EXCEPT ![r] = Tail(@)] /\ UNCHANGED maps
    /\ UNCHANGED <<known, online, stamp, subscriptions, pipeline, merged, node>>

(* Variant of the pipeline's feed(): maps that have not arrived are left   *)
(* out.                                                                    *)
FedArrived ==
    LET there == SelectSeq(subscriptions, LAMBDA r : readonly_map[r] # Null)
    IN [i \in DOMAIN there |-> [of |-> there[i], arrived |-> TRUE]]

Fed == [i \in DOMAIN subscriptions |->
          [of |-> subscriptions[i], arrived |-> readonly_map[subscriptions[i]] # Null]]

Arrived(imgs) == {i \in DOMAIN imgs : imgs[i].arrived}

(* The first map that arrived is the reference, no other one is placed.    *)
Unmatched(imgs) ==
    [i \in DOMAIN imgs |->
       [of |-> imgs[i].of,
        kind |-> IF i \in Arrived(imgs) /\ \A j \in Arrived(imgs) : i <= j
                 THEN "identity" ELSE "none"]]

Matched(imgs, matched, reference) ==
    [i \in DOMAIN imgs |->
       [of |-> imgs[i].of,
        kind |-> IF i = reference THEN "identity" ELSE IF i \in matched THEN "other" ELSE "none"]]

(* estimateTransforms(): no two maps match; or a component of two and more *)
(* maps matches, one of them the reference, unless the bundle adjustment   *)
(* fails.  Which, is up to the maps.                                       *)
estimateTransforms(imgs) ==
    IF imgs = <<>> THEN UNCHANGED transforms
    ELSE \/ transforms' = Unmatched(imgs)
         \/ \E matched \in SUBSET Arrived(imgs) :
              /\ Cardinality(matched) > 1
              /\ \/ \E reference \in matched : transforms' = Matched(imgs, matched, reference)
                 \/ UNCHANGED transforms

poseEstimation ==
    /\ ~known
    /\ images' = Fed /\ estimateTransforms(Fed)
    /\ UNCHANGED <<known, network, received, merged, node>>

(* setTransforms() with the initial poses, if there is one per image.      *)
Poses(imgs) ==
    IF Len(imgs) # Len(subscriptions) THEN transforms
    ELSE [i \in DOMAIN subscriptions |->
            [of |-> subscriptions[i], kind |-> InitPose[subscriptions[i]]]]

Warped(imgs, trs) == {i \in DOMAIN imgs : imgs[i].arrived /\ trs[i].kind # "none"}
Compose(imgs, trs) == {[map |-> imgs[i].of, by |-> trs[i].of] : i \in Warped(imgs, trs)}

(* Variant: the sizes are not compared.                                    *)
composeGridsUnchecked(imgs, trs) ==
    /\ merged' = {[map |-> imgs[i].of, by |-> trs[i].of] :
                    i \in {j \in DOMAIN imgs \cap DOMAIN trs : imgs[j].arrived /\ trs[j].kind # "none"}}
    /\ UNCHANGED node

(* composeGrids(): throws if there is not one transform per image; takes   *)
(* the resolution from the first map with the identity transform, which it *)
(* dereferences without asking whether it has arrived.                     *)
MissingReference(imgs, trs) ==
    \E i \in DOMAIN trs :
       /\ trs[i].kind = "identity" /\ ~imgs[i].arrived
       /\ \A j \in DOMAIN trs : trs[j].kind = "identity" => i <= j

composeGrids(imgs, trs) ==
    IF Len(imgs) # Len(trs) THEN node' = "threw" /\ UNCHANGED merged
    ELSE IF Warped(imgs, trs) = {} THEN UNCHANGED <<merged, node>>
    ELSE IF MissingReference(imgs, trs) THEN node' = "crashed" /\ UNCHANGED merged
    ELSE merged' = Compose(imgs, trs) /\ UNCHANGED node

(* Variant: nothing is merged before every map has arrived.                *)
mapMergingAll ==
    /\ \A r \in Range(subscriptions) : readonly_map[r] # Null
    /\ IF known THEN images' = Fed /\ transforms' = Poses(Fed) ELSE UNCHANGED pipeline
    /\ composeGrids(images', transforms')
    /\ UNCHANGED <<known, network, received>>

mapMerging ==
    /\ IF known THEN images' = Fed /\ transforms' = Poses(Fed) ELSE UNCHANGED pipeline
    /\ composeGrids(images', transforms')
    /\ UNCHANGED <<known, network, received>>

Callback == topicSubscribing \/ (\E r \in Robots : Deliver(r)) \/ poseEstimation \/ mapMerging

Next == Appear \/ Publish \/ (node = "up" /\ Callback)

Spec == Init /\ [][Next]_vars

(* The timers fire and the executor delivers what has arrived.             *)
Fairness ==
    /\ WF_vars(node = "up" /\ topicSubscribing) /\ WF_vars(node = "up" /\ mapMerging)
    /\ \A r \in Robots : WF_vars(node = "up" /\ Deliver(r))

FairSpec == Spec /\ Fairness

-----------------------------------------------------------------------------

(* No update older than the full map beneath it is ever copied into a      *)
(* robot's map, although the map in use is changed in place and compared   *)
(* with itself.                                                            *)
PatchesAreNewer ==
    \A r \in Robots : \A t \in readonly_map[r].patches : t > readonly_map[r].base

(* A map is merged with the transform of its own robot, although robots    *)
(* are put in front of the list that the transforms were estimated for.    *)
OwnTransform == \A m \in merged : m.map = m.by

(* With known poses only one thing brings the node down: a robot placed at *)
(* the identity whose map has not arrived when another one's has.          *)
KnownPosesSurvive ==
    known /\ node # "up" =>
       /\ node = "crashed"
       /\ \E r \in Range(subscriptions) : InitPose[r] = "identity" /\ readonly_map[r] = Null
       /\ \E r \in Range(subscriptions) : readonly_map[r] # Null

(* merging_pipeline.cpp:219, of the resolution of the merged map: "use     *)
(* resolution of identity (works for estimated transforms), or any         *)
(* resolution (works for know_init_positions)".  With known poses the node *)
(* stays up.  The code does not keep this: a known pose may be the         *)
(* identity too, and that robot's map missing.                             *)
AnyResolutionWorks == known => node = "up"

(* With known poses every robot that has a pose and whose map has arrived  *)
(* gets into the merged map, if the node stays up.                         *)
GetsMerged ==
    \A r \in Robots :
       known /\ readonly_map[r] # Null ~> node # "up" \/ \E m \in merged : m.map = r

=============================================================================
