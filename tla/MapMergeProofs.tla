--------------------------- MODULE MapMergeProofs ---------------------------
(***************************************************************************)
(* What holds of the map merging node for every number of robots, every    *)
(* choice of initial poses and every number of messages.                   *)
(*                                                                         *)
(* PatchesAreNewer needs Ordered, which speaks of the messages in flight:  *)
(* a robot's updates arrive in the order of their stamps, no update has    *)
(* the stamp of a full map, and once the map in use is changed in place    *)
(* every update still to come is newer than the full map beneath it.       *)
(* OwnTransform needs AlignedWith: robots are only ever put in front, so   *)
(* that an older list is the end of the present one, and lists of equal    *)
(* length are the same list.                                               *)
(***************************************************************************)
EXTENDS MapMerge, FiniteSetTheorems, TLAPS

(* ups and ms: a robot's updates and full maps in flight; m, w: its map,   *)
(* and whether that is writable; now: the latest stamp.                    *)
Ordered(ups, ms, m, w, now) ==
    /\ \A i \in 1..Len(ups) : ups[i] <= now
    /\ \A i \in 1..Len(ms) : ms[i] <= now
    /\ \A i, j \in 1..Len(ups) : i < j => ups[i] < ups[j]
    /\ \A i \in 1..Len(ups), j \in 1..Len(ms) : ups[i] # ms[j]
    /\ \A i \in 1..Len(ups) : ups[i] # m.base
    /\ w => \A i \in 1..Len(ups) : m.base < ups[i]
    /\ m.base <= m.stamp /\ m.base <= now
    /\ \A t \in m.patches : t > m.base

MapType == [stamp : 0..MaxStamp, base : 0..MaxStamp, patches : SUBSET Stamps]

(* The robots of a list are the last ones of the present list.             *)
AlignedWith(list, robots) ==
    /\ Len(list) <= Len(robots)
    /\ \A i \in 1..Len(list) : list[i].of = robots[i + (Len(robots) - Len(list))]

Lists ==
    /\ subscriptions \in Seq(Robots)
    /\ images \in Seq([of : Robots, arrived : BOOLEAN])
    /\ transforms \in Seq([of : Robots, kind : Kinds])
    /\ AlignedWith(images, subscriptions) /\ AlignedWith(transforms, subscriptions)

Inv ==
    /\ TypeOK
    /\ \A r \in Robots :
         Ordered(updates[r], maps[r], readonly_map[r], writable_map[r], stamp)
    /\ Lists
    /\ OwnTransform
    /\ KnownPosesSurvive

LEMMA HeadTail ==
    ASSUME NEW S, NEW s \in Seq(S), s # <<>>
    PROVE  /\ Head(s) \in S /\ Tail(s) \in Seq(S)
           /\ Len(s) \in Nat /\ Len(s) > 0 /\ Head(s) = s[1]
           /\ Len(Tail(s)) = Len(s) - 1
           /\ \A i \in 1..Len(Tail(s)) : i + 1 \in 1..Len(s) /\ Tail(s)[i] = s[i + 1]
OBVIOUS

LEMMA SequenceFacts ==
    ASSUME NEW S, NEW s \in Seq(S)
    PROVE  Len(s) \in Nat /\ DOMAIN s = 1..Len(s) /\ \A i \in 1..Len(s) : s[i] \in S
OBVIOUS

LEMMA FunctionSequence ==
    ASSUME NEW S, NEW n \in Nat, NEW f \in [1..n -> S]
    PROVE  f \in Seq(S) /\ Len(f) = n
OBVIOUS

LEMMA Appended ==
    ASSUME NEW S, NEW s \in Seq(S), NEW e \in S
    PROVE  /\ Append(s, e) \in Seq(S) /\ Len(s) \in Nat
           /\ Len(Append(s, e)) = Len(s) + 1
           /\ \A i \in 1..Len(s) : Append(s, e)[i] = s[i]
           /\ Append(s, e)[Len(s) + 1] = e
OBVIOUS

-----------------------------------------------------------------------------
(***************************************************************************)
(* One robot's messages and map.                                           *)
(***************************************************************************)

LEMMA MapPublished ==
    ASSUME NEW ups \in Seq(Stamps), NEW ms \in Seq(Stamps), NEW m \in MapType,
           NEW w \in BOOLEAN, NEW now \in 0..MaxStamp, now < MaxStamp,
           Ordered(ups, ms, m, w, now)
    PROVE  Ordered(ups, Append(ms, now + 1), m, w, now + 1)
<1>0. MaxStamp \in Nat /\ now \in Nat /\ now + 1 \in Stamps
  BY MapMergeAssumption DEF Stamps
<1>1. \A i \in 1..Len(ups) : ups[i] \in Nat
  BY <1>0 DEF Stamps
<1>2. \A j \in 1..Len(Append(ms, now + 1)) :
         \/ Append(ms, now + 1)[j] = now + 1
         \/ j \in 1..Len(ms) /\ Append(ms, now + 1)[j] = ms[j]
  <2>1. /\ Len(ms) \in Nat /\ Len(Append(ms, now + 1)) = Len(ms) + 1
        /\ Append(ms, now + 1)[Len(ms) + 1] = now + 1
        /\ \A j \in 1..Len(ms) : Append(ms, now + 1)[j] = ms[j]
    BY <1>0, Appended
  <2>2. \A j \in 1..Len(Append(ms, now + 1)) : j \in 1..Len(ms) \/ j = Len(ms) + 1
    BY <2>1
  <2> QED
    BY <2>1, <2>2
<1>3. \A j \in 1..Len(ms) : ms[j] \in Nat
  BY <1>0 DEF Stamps
<1>4. m.base \in Nat /\ m.stamp \in Nat
  BY <1>0 DEF MapType
<1>5. \A j \in 1..Len(Append(ms, now + 1)) :
         /\ Append(ms, now + 1)[j] <= now + 1
         /\ \A i \in 1..Len(ups) : ups[i] # Append(ms, now + 1)[j]
  <2> SUFFICES ASSUME NEW j \in 1..Len(Append(ms, now + 1))
               PROVE  /\ Append(ms, now + 1)[j] <= now + 1
                      /\ \A i \in 1..Len(ups) : ups[i] # Append(ms, now + 1)[j]
    OBVIOUS
  <2>1. CASE Append(ms, now + 1)[j] = now + 1
    BY <1>0, <1>1, <2>1 DEF Ordered
  <2>2. CASE j \in 1..Len(ms) /\ Append(ms, now + 1)[j] = ms[j]
    BY <1>0, <1>3, <2>2 DEF Ordered
  <2> QED
    BY <1>2, <2>1, <2>2
<1>6. \A i \in 1..Len(ups) : ups[i] <= now + 1
  BY <1>0, <1>1 DEF Ordered
<1>7. m.base <= now + 1
  BY <1>0, <1>4 DEF Ordered
<1> QED
  BY <1>5, <1>6, <1>7 DEF Ordered

LEMMA UpdatePublished ==
    ASSUME NEW ups \in Seq(Stamps), NEW ms \in Seq(Stamps), NEW m \in MapType,
           NEW w \in BOOLEAN, NEW now \in 0..MaxStamp, now < MaxStamp,
           Ordered(ups, ms, m, w, now)
    PROVE  Ordered(Append(ups, now + 1), ms, m, w, now + 1)
<1> DEFINE new == Append(ups, now + 1)
<1>0. MaxStamp \in Nat /\ now \in Nat /\ now + 1 \in Stamps
  BY MapMergeAssumption DEF Stamps
<1>1. \A i \in 1..Len(ups) : ups[i] \in Nat
  BY <1>0 DEF Stamps
<1>2. Len(ups) \in Nat /\ Len(new) = Len(ups) + 1 /\ new[Len(ups) + 1] = now + 1
      /\ \A i \in 1..Len(ups) : new[i] = ups[i]
  BY <1>0, Appended
<1>3. \A j \in 1..Len(ms) : ms[j] \in Nat
  BY <1>0 DEF Stamps
<1>4. m.base \in Nat /\ m.stamp \in Nat
  BY <1>0 DEF MapType
<1>5. \A i \in 1..Len(new) : i \in 1..Len(ups) \/ i = Len(ups) + 1
  BY <1>2
<1> HIDE DEF new
<1>6. \A i, j \in 1..Len(new) : i < j => new[i] < new[j]
  BY <1>0, <1>1, <1>2, <1>5 DEF Ordered
<1>7. \A i \in 1..Len(new) :
         /\ new[i] <= now + 1 /\ new[i] # m.base
         /\ \A j \in 1..Len(ms) : new[i] # ms[j]
         /\ w => m.base < new[i]
  <2> SUFFICES ASSUME NEW i \in 1..Len(new)
               PROVE  /\ new[i] <= now + 1 /\ new[i] # m.base
                      /\ \A j \in 1..Len(ms) : new[i] # ms[j]
                      /\ w => m.base < new[i]
    OBVIOUS
  <2>1. CASE i \in 1..Len(ups)
    BY <1>0, <1>1, <1>2, <2>1 DEF Ordered
  <2>2. CASE i = Len(ups) + 1
    BY <1>0, <1>2, <1>3, <1>4, <2>2 DEF Ordered
  <2> QED
    BY <1>5, <2>1, <2>2
<1>8. \A j \in 1..Len(ms) : ms[j] <= now + 1
  BY <1>0, <1>3 DEF Ordered
<1>9. m.base <= now + 1
  BY <1>0, <1>4 DEF Ordered
<1>10. Ordered(new, ms, m, w, now + 1)
  BY <1>6, <1>7, <1>8, <1>9 DEF Ordered
<1> QED
  BY <1>10 DEF new

LEMMA Later ==
    ASSUME NEW ups \in Seq(Stamps), NEW ms \in Seq(Stamps), NEW m \in MapType,
           NEW w \in BOOLEAN, NEW now \in 0..MaxStamp, Ordered(ups, ms, m, w, now)
    PROVE  Ordered(ups, ms, m, w, now + 1)
<1>0. MaxStamp \in Nat /\ now \in Nat
  BY MapMergeAssumption
<1>1. /\ \A i \in 1..Len(ups) : ups[i] <= now + 1
      /\ \A i \in 1..Len(ms) : ms[i] <= now + 1
  BY <1>0 DEF Ordered, Stamps
<1>2. m.base <= now + 1
  BY <1>0 DEF Ordered, MapType
<1> QED
  BY <1>1, <1>2 DEF Ordered

LEMMA MapTaken ==
    ASSUME NEW ups \in Seq(Stamps), NEW ms \in Seq(Stamps), ms # <<>>, NEW m \in MapType,
           NEW w \in BOOLEAN, NEW now \in 0..MaxStamp, Ordered(ups, ms, m, w, now)
    PROVE  /\ Ordered(ups, Tail(ms), m, w, now)
           /\ Ordered(ups, Tail(ms),
                      [stamp |-> Head(ms), base |-> Head(ms), patches |-> {}], FALSE, now)
<1>0. MaxStamp \in Nat
  BY MapMergeAssumption
<1>1. Head(ms) \in Nat /\ Head(ms) = ms[1] /\ 1 \in 1..Len(ms)
  BY <1>0, HeadTail DEF Stamps
<1>2. \A i \in 1..Len(Tail(ms)) : i + 1 \in 1..Len(ms) /\ Tail(ms)[i] = ms[i + 1]
  BY HeadTail
<1>3. Ordered(ups, Tail(ms), m, w, now)
  BY <1>2 DEF Ordered
<1>4. Ordered(ups, Tail(ms), [stamp |-> Head(ms), base |-> Head(ms), patches |-> {}], FALSE, now)
  BY <1>1, <1>2 DEF Ordered
<1> QED
  BY <1>3, <1>4

LEMMA UpdateTaken ==
    ASSUME NEW ups \in Seq(Stamps), ups # <<>>, NEW ms \in Seq(Stamps), NEW m \in MapType,
           NEW w \in BOOLEAN, NEW now \in 0..MaxStamp, Ordered(ups, ms, m, w, now)
    PROVE  /\ Ordered(Tail(ups), ms, m, w, now)
           /\ w \/ m.stamp <= Head(ups) =>
                Ordered(Tail(ups), ms,
                        [m EXCEPT !.stamp = Head(ups), !.patches = @ \cup {Head(ups)}],
                        TRUE, now)
<1> DEFINE rest == Tail(ups)
           t    == Head(ups)
           new  == [m EXCEPT !.stamp = t, !.patches = @ \cup {t}]
<1>0. MaxStamp \in Nat
  BY MapMergeAssumption
<1>1. t \in Nat /\ t = ups[1] /\ 1 \in 1..Len(ups)
  BY <1>0, HeadTail DEF Stamps
<1>2. \A i \in 1..Len(rest) : i + 1 \in 1..Len(ups) /\ rest[i] = ups[i + 1] /\ 1 < i + 1 /\ i \in Nat
  BY HeadTail
<1>3. m.base \in Nat /\ m.stamp \in Nat
  BY <1>0 DEF MapType
<1>4. \A i \in 1..Len(ups) : ups[i] \in Nat
  BY <1>0 DEF Stamps
<1>5. \A i, j \in 1..Len(rest) : i < j => rest[i] < rest[j]
  BY <1>2 DEF Ordered
<1>6. new.base = m.base /\ new.stamp = t /\ new.patches = m.patches \cup {t}
  BY DEF MapType
<1> HIDE DEF rest, t, new
<1>7. Ordered(rest, ms, m, w, now)
  BY <1>2, <1>5 DEF Ordered
<1>8. ASSUME w \/ m.stamp <= t PROVE Ordered(rest, ms, new, TRUE, now)
  <2>1. m.base < t
    BY <1>1, <1>3, <1>8 DEF Ordered
  <2>2. \A i \in 1..Len(rest) : t < rest[i] /\ rest[i] \in Nat
    BY <1>1, <1>2, <1>4 DEF Ordered
  <2>3. \A i \in 1..Len(rest) : m.base < rest[i] /\ rest[i] # m.base
    BY <1>1, <1>3, <2>1, <2>2
  <2> QED
    BY <1>1, <1>3, <1>6, <1>7, <2>1, <2>3 DEF Ordered
<1> QED
  BY <1>7, <1>8 DEF rest, t, new

-----------------------------------------------------------------------------
(***************************************************************************)
(* The steps.                                                              *)
(***************************************************************************)

Environment == Appear \/ Publish
ReceivedVars == <<subscriptions, readonly_map, writable_map>>

LEMMA FedFacts ==
    ASSUME TypeOK
    PROVE  /\ Fed \in Seq([of : Robots, arrived : BOOLEAN])
           /\ Len(Fed) = Len(subscriptions)
           /\ \A i \in 1..Len(subscriptions) :
                Fed[i] = [of |-> subscriptions[i],
                          arrived |-> readonly_map[subscriptions[i]] # Null]
<1>1. Len(subscriptions) \in Nat /\ DOMAIN subscriptions = 1..Len(subscriptions)
      /\ \A i \in 1..Len(subscriptions) : subscriptions[i] \in Robots
  BY DEF TypeOK
<1>2. Fed \in [1..Len(subscriptions) -> [of : Robots, arrived : BOOLEAN]]
  BY <1>1 DEF Fed
<1>3. Fed \in Seq([of : Robots, arrived : BOOLEAN]) /\ Len(Fed) = Len(subscriptions)
  BY <1>1, <1>2, FunctionSequence
<1> QED
  BY <1>1, <1>3 DEF Fed

(* New transforms are those of the images, in their order.                 *)
LEMMA EstimationAligned ==
    ASSUME NEW imgs \in Seq([of : Robots, arrived : BOOLEAN]), estimateTransforms(imgs)
    PROVE  \/ transforms' = transforms
           \/ /\ transforms' \in Seq([of : Robots, kind : Kinds])
              /\ Len(transforms') = Len(imgs)
              /\ \A i \in 1..Len(imgs) : transforms'[i].of = imgs[i].of
<1>0. Len(imgs) \in Nat /\ DOMAIN imgs = 1..Len(imgs)
      /\ \A i \in 1..Len(imgs) : imgs[i].of \in Robots
  <2>1. Len(imgs) \in Nat /\ DOMAIN imgs = 1..Len(imgs)
        /\ \A i \in 1..Len(imgs) : imgs[i] \in [of : Robots, arrived : BOOLEAN]
    BY SequenceFacts
  <2> QED
    BY <2>1
<1>1. ASSUME NEW trs, trs = Unmatched(imgs) \/ \E m, r : trs = Matched(imgs, m, r)
      PROVE  /\ trs \in Seq([of : Robots, kind : Kinds])
             /\ Len(trs) = Len(imgs)
             /\ \A i \in 1..Len(imgs) : trs[i].of = imgs[i].of
  <2>1. trs \in [1..Len(imgs) -> [of : Robots, kind : Kinds]]
        /\ \A i \in 1..Len(imgs) : trs[i].of = imgs[i].of
    <3>1. CASE trs = Unmatched(imgs)
      BY <1>0, <3>1 DEF Unmatched, Kinds
    <3>2. ASSUME NEW m, NEW r, trs = Matched(imgs, m, r)
          PROVE  trs \in [1..Len(imgs) -> [of : Robots, kind : Kinds]]
                 /\ \A i \in 1..Len(imgs) : trs[i].of = imgs[i].of
      BY <1>0, <3>2 DEF Matched, Kinds
    <3> QED
      BY <1>1, <3>1, <3>2
  <2> QED
    BY <1>0, <2>1, FunctionSequence
<1>2. \/ transforms' = transforms
      \/ transforms' = Unmatched(imgs) \/ \E m, r : transforms' = Matched(imgs, m, r)
  BY Zenon DEF estimateTransforms
<1> QED
  BY <1>1, <1>2

LEMMA OrdersFinite ==
    ASSUME NEW S \in SUBSET Robots, NEW order \in Orders(S)
    PROVE  order \in Seq(Robots)
<1>1. IsFiniteSet(S)
  BY MapMergeAssumption, FS_Subset
<1>2. Cardinality(S) \in Nat
  BY <1>1, FS_CardinalityType
<1>3. order \in [1..Cardinality(S) -> Robots]
  BY DEF Orders
<1> QED
  BY <1>2, <1>3

(* Lists keep their place when robots are put in front.                    *)
LEMMA SubscribingKeepsPlaces ==
    ASSUME TypeOK, topicSubscribing
    PROVE  /\ subscriptions' \in Seq(Robots)
           /\ \A T : \A list \in Seq(T) : 
               AlignedWith(list, subscriptions) => AlignedWith(list, subscriptions')
<1>0. subscriptions \in Seq(Robots)
  BY DEF TypeOK
<1>1. PICK S \in SUBSET Robots : \E order \in Orders(S) : subscriptions' = order \o subscriptions
  BY DEF topicSubscribing, TypeOK
<1>a. PICK order \in Orders(S) : subscriptions' = order \o subscriptions
  BY <1>1
<1>2. order \in Seq(Robots)
  BY OrdersFinite
<1>3. /\ subscriptions' \in Seq(Robots)
      /\ Len(order) \in Nat /\ Len(subscriptions) \in Nat
      /\ Len(subscriptions') = Len(order) + Len(subscriptions)
      /\ \A i \in 1..Len(subscriptions) : subscriptions'[Len(order) + i] = subscriptions[i]
  BY <1>0, <1>a, <1>2
<1>4. ASSUME NEW T, NEW list \in Seq(T), AlignedWith(list, subscriptions)
      PROVE  AlignedWith(list, subscriptions')
  <2>1. Len(list) \in Nat /\ Len(list) <= Len(subscriptions)
    BY <1>4 DEF AlignedWith
  <2>2. ASSUME NEW i \in 1..Len(list)
        PROVE  list[i].of = subscriptions'[i + (Len(subscriptions') - Len(list))]
    <3>1. i + (Len(subscriptions) - Len(list)) \in 1..Len(subscriptions)
      BY <1>3, <2>1
    <3>2. i + (Len(subscriptions') - Len(list))
            = Len(order) + (i + (Len(subscriptions) - Len(list)))
      BY <1>3, <2>1
    <3> QED
      BY <1>3, <1>4, <3>1, <3>2 DEF AlignedWith
  <2> QED
    BY <1>3, <2>1, <2>2 DEF AlignedWith
<1> QED
  BY <1>3, <1>4

(* The steps that touch a robot's messages or its map.                     *)
LEMMA StampsKept ==
    ASSUME TypeOK, [Next]_vars,
           \A r \in Robots :
              Ordered(updates[r], maps[r], readonly_map[r], writable_map[r], stamp)
    PROVE  /\ \A r \in Robots :
                Ordered(updates[r], maps[r], readonly_map[r], writable_map[r], stamp)'
           /\ stamp' \in 0..MaxStamp
           /\ maps' \in [Robots -> Seq(Stamps)] /\ updates' \in [Robots -> Seq(Stamps)]
           /\ readonly_map' \in [Robots -> MapType] /\ writable_map' \in [Robots -> BOOLEAN]
<1> DEFINE All == /\ \A r \in Robots :
                       Ordered(updates[r], maps[r], readonly_map[r], writable_map[r], stamp)
                  /\ stamp \in 0..MaxStamp
                  /\ maps \in [Robots -> Seq(Stamps)] /\ updates \in [Robots -> Seq(Stamps)]
                  /\ readonly_map \in [Robots -> MapType] /\ writable_map \in [Robots -> BOOLEAN]
<1> SUFFICES All'
  OBVIOUS
<1>0. All /\ MaxStamp \in Nat
  BY MapMergeAssumption DEF TypeOK, MapType
<1>1. CASE UNCHANGED <<stamp, maps, updates, readonly_map, writable_map>>
  BY <1>0, <1>1
<1>2. CASE Publish
  <2>1. stamp < MaxStamp /\ stamp' = stamp + 1 /\ stamp' \in Stamps /\ stamp' \in 0..MaxStamp
        /\ readonly_map' = readonly_map /\ writable_map' = writable_map
    BY <1>0, <1>2 DEF Publish, received, Stamps
  <2>2. PICK r \in Robots :
          \/ maps' = [maps EXCEPT ![r] = Append(@, stamp')] /\ UNCHANGED updates
          \/ updates' = [updates EXCEPT ![r] = Append(@, stamp')] /\ UNCHANGED maps
    BY <1>2 DEF Publish, TypeOK
  <2>3. maps' \in [Robots -> Seq(Stamps)] /\ updates' \in [Robots -> Seq(Stamps)]
    <3>1. /\ Append(maps[r], stamp') \in Seq(Stamps)
          /\ Append(updates[r], stamp') \in Seq(Stamps)
      BY <1>0, <2>1, Appended
    <3> QED
      BY <1>0, <2>2, <3>1
  <2>4. ASSUME NEW q \in Robots
        PROVE  Ordered(updates[q], maps[q], readonly_map[q], writable_map[q], stamp)'
    <3>1. Ordered(updates[q], Append(maps[q], stamp + 1), readonly_map[q], writable_map[q], stamp + 1)
      BY <1>0, <2>1, MapPublished
    <3>2. Ordered(Append(updates[q], stamp + 1), maps[q], readonly_map[q], writable_map[q], stamp + 1)
      BY <1>0, <2>1, UpdatePublished
    <3>3. Ordered(updates[q], maps[q], readonly_map[q], writable_map[q], stamp + 1)
      BY <1>0, <2>1, Later
    <3>4. /\ maps'[q] = maps[q] \/ maps'[q] = Append(maps[q], stamp + 1)
          /\ updates'[q] = updates[q] \/ updates'[q] = Append(updates[q], stamp + 1)
          /\ maps'[q] = maps[q] \/ updates'[q] = updates[q]
      BY <1>0, <2>1, <2>2
    <3> QED
      BY <2>1, <3>1, <3>2, <3>3, <3>4
  <2> QED
    BY <1>0, <2>1, <2>3, <2>4
<1>3. ASSUME NEW r \in Robots, Deliver(r)
      PROVE  All'
  <2>1. /\ Ordered(updates[r], maps[r], readonly_map[r], writable_map[r], stamp)
        /\ updates[r] \in Seq(Stamps) /\ maps[r] \in Seq(Stamps)
        /\ readonly_map[r] \in MapType /\ writable_map[r] \in BOOLEAN
        /\ stamp' = stamp
    BY <1>0, <1>3 DEF Deliver
  <2>2. CASE /\ maps[r] # <<>> /\ fullMapUpdate(r, Head(maps[r]))
             /\ maps' = [maps EXCEPT ![r] = Tail(@)] /\ UNCHANGED updates
    <3> DEFINE t   == Head(maps[r])
               new == [stamp |-> t, base |-> t, patches |-> {}]
    <3>1. t \in Stamps /\ Tail(maps[r]) \in Seq(Stamps) /\ new \in MapType
      BY <1>0, <2>1, <2>2, HeadTail DEF MapType, Stamps
    <3>2. Ordered(updates[r], Tail(maps[r]), readonly_map[r], writable_map[r], stamp)
          /\ Ordered(updates[r], Tail(maps[r]), new, FALSE, stamp)
      BY <1>0, <2>1, <2>2, MapTaken
    <3>3. \/ readonly_map' = readonly_map /\ writable_map' = writable_map
          \/ readonly_map' = [readonly_map EXCEPT ![r] = new]
             /\ writable_map' = [writable_map EXCEPT ![r] = FALSE]
      BY <2>2 DEF fullMapUpdate
    <3> HIDE DEF new, t
    <3> QED
      BY <1>0, <2>1, <2>2, <3>1, <3>2, <3>3
  <2>3. CASE /\ updates[r] # <<>> /\ partialMapUpdate(r, Head(updates[r]))
             /\ updates' = [updates EXCEPT ![r] = Tail(@)] /\ UNCHANGED maps
    <3> DEFINE t   == Head(updates[r])
               new == [readonly_map[r] EXCEPT !.stamp = t, !.patches = @ \cup {t}]
    <3>a. t \in Stamps /\ Tail(updates[r]) \in Seq(Stamps)
      BY <2>1, <2>3, HeadTail
    <3>b. {t} \subseteq Stamps /\ t \in 0..MaxStamp
      BY <1>0, <3>a DEF Stamps
    <3>1. t \in Stamps /\ Tail(updates[r]) \in Seq(Stamps) /\ new \in MapType
      <4> HIDE DEF t
      <4> QED
        BY <2>1, <3>a, <3>b DEF MapType
    <3>2. /\ Ordered(Tail(updates[r]), maps[r], readonly_map[r], writable_map[r], stamp)
          /\ writable_map[r] \/ readonly_map[r].stamp <= t =>
               Ordered(Tail(updates[r]), maps[r], new, TRUE, stamp)
      BY <1>0, <2>1, <2>3, UpdateTaken
    <3>3. \/ readonly_map' = readonly_map /\ writable_map' = writable_map
          \/ /\ writable_map[r] \/ ~(readonly_map[r].stamp > t)
             /\ readonly_map' = [readonly_map EXCEPT ![r] = new]
             /\ writable_map' = [writable_map EXCEPT ![r] = TRUE]
      BY <1>0, <2>1, <2>3 DEF partialMapUpdate
    <3>4. ~(readonly_map[r].stamp > t) => readonly_map[r].stamp <= t
      BY <1>0, <2>1, <3>1 DEF MapType, Stamps
    <3> HIDE DEF new, t
    <3> QED
      BY <1>0, <2>1, <2>3, <3>1, <3>2, <3>3, <3>4
  <2> QED
    BY <1>3, <2>2, <2>3 DEF Deliver
<1>4. CASE Appear \/ topicSubscribing \/ poseEstimation \/ mapMerging \/ UNCHANGED vars
  BY <1>1, <1>4 DEF Appear, topicSubscribing, poseEstimation, mapMerging, vars, network, received
<1> QED
  BY <1>2, <1>3, <1>4 DEF Next, Callback

LEMMA FedAligned ==
    ASSUME TypeOK
    PROVE  AlignedWith(Fed, subscriptions)
<1>1. Len(Fed) = Len(subscriptions) /\ Len(subscriptions) \in Nat
      /\ \A i \in 1..Len(subscriptions) : Fed[i].of = subscriptions[i]
  <2>1. \A i \in 1..Len(subscriptions) :
          Fed[i] = [of |-> subscriptions[i], arrived |-> readonly_map[subscriptions[i]] # Null]
    BY FedFacts
  <2>2. Len(Fed) = Len(subscriptions)
    BY FedFacts
  <2>3. Len(subscriptions) \in Nat
    BY DEF TypeOK
  <2>4. ASSUME NEW i \in 1..Len(subscriptions)
        PROVE  Fed[i].of = subscriptions[i]
    <3> DEFINE arrived == readonly_map[subscriptions[i]] # Null
    <3>1. Fed[i] = [of |-> subscriptions[i], arrived |-> arrived]
      BY <2>1
    <3> HIDE DEF arrived
    <3> QED
      BY <3>1
  <2> QED
    BY <2>2, <2>3, <2>4
<1> QED
  BY <1>1 DEF AlignedWith

LEMMA PosesAligned ==
    ASSUME TypeOK
    PROVE  \/ Poses(Fed) = transforms
           \/ /\ Poses(Fed) \in Seq([of : Robots, kind : Kinds])
              /\ AlignedWith(Poses(Fed), subscriptions)
<1>1. Len(Fed) = Len(subscriptions) /\ Len(subscriptions) \in Nat
      /\ DOMAIN subscriptions = 1..Len(subscriptions)
      /\ \A i \in 1..Len(subscriptions) : subscriptions[i] \in Robots
  BY FedFacts DEF TypeOK
<1>2. Poses(Fed) = [i \in 1..Len(subscriptions) |->
                      [of |-> subscriptions[i], kind |-> InitPose[subscriptions[i]]]]
  BY <1>1 DEF Poses
<1>3. Poses(Fed) \in [1..Len(subscriptions) -> [of : Robots, kind : Kinds]]
  BY <1>1, <1>2, MapMergeAssumption DEF Kinds
<1>4. Poses(Fed) \in Seq([of : Robots, kind : Kinds]) /\ Len(Poses(Fed)) = Len(subscriptions)
  BY <1>1, <1>3, FunctionSequence
<1>5. \A i \in 1..Len(subscriptions) : Poses(Fed)[i].of = subscriptions[i]
  BY <1>1, <1>2
<1> QED
  BY <1>1, <1>4, <1>5 DEF AlignedWith

LEMMA ListsKept ==
    ASSUME TypeOK, Lists, [Next]_vars
    PROVE  Lists'
<1> USE DEF Lists
<1>1. CASE UNCHANGED <<subscriptions, images, transforms>>
  BY <1>1 DEF AlignedWith
<1>2. CASE topicSubscribing
  <2>1. images' = images /\ transforms' = transforms
    BY <1>2 DEF topicSubscribing, pipeline
  <2>2. subscriptions' \in Seq(Robots) /\ AlignedWith(images, subscriptions')
        /\ AlignedWith(transforms, subscriptions')
    BY <1>2, SubscribingKeepsPlaces
  <2> QED
    BY <2>1, <2>2
<1>3. CASE poseEstimation
  <2>1. images' = Fed /\ subscriptions' = subscriptions /\ estimateTransforms(Fed)
    BY <1>3 DEF poseEstimation, received
  <2>2. Fed \in Seq([of : Robots, arrived : BOOLEAN]) /\ AlignedWith(Fed, subscriptions)
        /\ Len(Fed) = Len(subscriptions)
    BY FedFacts, FedAligned
  <2>3. \/ transforms' = transforms
        \/ /\ transforms' \in Seq([of : Robots, kind : Kinds])
           /\ Len(transforms') = Len(Fed)
           /\ \A i \in 1..Len(Fed) : transforms'[i].of = Fed[i].of
    BY <2>1, <2>2, EstimationAligned
  <2> QED
    BY <2>1, <2>2, <2>3 DEF AlignedWith
<1>4. CASE mapMerging
  <2>1. /\ subscriptions' = subscriptions
        /\ \/ images' = Fed /\ transforms' = Poses(Fed)
           \/ images' = images /\ transforms' = transforms
    BY <1>4 DEF mapMerging, received, pipeline
  <2>2. Fed \in Seq([of : Robots, arrived : BOOLEAN]) /\ AlignedWith(Fed, subscriptions)
    BY FedFacts, FedAligned
  <2>3. \/ Poses(Fed) = transforms
        \/ Poses(Fed) \in Seq([of : Robots, kind : Kinds]) /\ AlignedWith(Poses(Fed), subscriptions)
    BY PosesAligned
  <2> QED
    BY <2>1, <2>2, <2>3 DEF AlignedWith
<1> QED
  BY <1>1, <1>2, <1>3, <1>4
     DEF Next, Callback, Appear, Publish, Deliver, vars, received, pipeline

LEMMA ComposedAligned ==
    ASSUME NEW imgs \in Seq([of : Robots, arrived : BOOLEAN]),
           NEW trs \in Seq([of : Robots, kind : Kinds]),
           NEW robots, AlignedWith(imgs, robots), AlignedWith(trs, robots),
           Len(imgs) = Len(trs)
    PROVE  /\ Compose(imgs, trs) \subseteq [map : Robots, by : Robots]
           /\ \A m \in Compose(imgs, trs) : m.map = m.by
<1>1. Len(imgs) \in Nat /\ DOMAIN imgs = 1..Len(imgs)
      /\ \A i \in 1..Len(imgs) : imgs[i] \in [of : Robots, arrived : BOOLEAN]
  BY SequenceFacts
<1>2. \A i \in 1..Len(imgs) : trs[i] \in [of : Robots, kind : Kinds]
  BY SequenceFacts
<1>3. \A i \in 1..Len(imgs) : imgs[i].of = trs[i].of /\ imgs[i].of \in Robots
  BY <1>1, <1>2 DEF AlignedWith
<1> QED
  BY <1>1, <1>3 DEF Compose, Warped

(* What mapMerging does to the node when the poses are known.              *)
LEMMA KnownMerging ==
    ASSUME TypeOK, known, composeGrids(Fed, Poses(Fed)), node' # node
    PROVE  /\ node' = "crashed"
           /\ \E r \in Range(subscriptions) : InitPose[r] = "identity" /\ readonly_map[r] = Null
           /\ \E r \in Range(subscriptions) : readonly_map[r] # Null
<1>1. Len(subscriptions) \in Nat /\ DOMAIN subscriptions = 1..Len(subscriptions)
  BY DEF TypeOK
<1>2. Len(Fed) = Len(subscriptions)
  BY FedFacts
<1>3. DOMAIN Fed = 1..Len(subscriptions)
      /\ \A i \in 1..Len(subscriptions) :
           Fed[i].arrived = (readonly_map[subscriptions[i]] # Null)
  BY <1>1 DEF Fed
<1>4. Poses(Fed) = [i \in 1..Len(subscriptions) |->
                      [of |-> subscriptions[i], kind |-> InitPose[subscriptions[i]]]]
  BY <1>1, <1>2 DEF Poses
<1>5. /\ DOMAIN Poses(Fed) = 1..Len(subscriptions)
      /\ \A i \in 1..Len(subscriptions) : Poses(Fed)[i].kind = InitPose[subscriptions[i]]
  BY <1>4
<1>6. Len(Poses(Fed)) = Len(subscriptions)
  BY <1>1, <1>4
<1>7. /\ Warped(Fed, Poses(Fed)) # {} /\ MissingReference(Fed, Poses(Fed))
      /\ node' = "crashed"
  BY <1>2, <1>6 DEF composeGrids
<1>8. PICK i \in 1..Len(subscriptions) : Fed[i].arrived
  BY <1>3, <1>7 DEF Warped
<1>9. PICK j \in 1..Len(subscriptions) : Poses(Fed)[j].kind = "identity" /\ ~Fed[j].arrived
  BY <1>5, <1>7 DEF MissingReference
<1>10. subscriptions[i] \in Range(subscriptions) /\ subscriptions[j] \in Range(subscriptions)
  BY <1>1 DEF Range
<1> QED
  BY <1>3, <1>5, <1>7, <1>8, <1>9, <1>10

LEMMA Initially == Init => Inv
<1> SUFFICES ASSUME Init PROVE Inv
  OBVIOUS
<1>1. Len(subscriptions) = 0 /\ Len(images) = 0 /\ Len(transforms) = 0
      /\ subscriptions \in Seq(Robots)
      /\ images \in Seq([of : Robots, arrived : BOOLEAN])
      /\ transforms \in Seq([of : Robots, kind : Kinds])
  BY DEF Init
<1>2. Lists
  BY <1>1 DEF Lists, AlignedWith
<1>3. /\ maps \in [Robots -> Seq(Stamps)] /\ updates \in [Robots -> Seq(Stamps)]
      /\ \A r \in Robots : Len(maps[r]) = 0 /\ Len(updates[r]) = 0
  BY DEF Init
<1>4. Null \in MapType /\ Null.base = 0 /\ Null.stamp = 0 /\ Null.patches = {}
  BY MapMergeAssumption DEF Null, MapType
<1>5. /\ stamp = 0 /\ stamp \in 0..MaxStamp /\ readonly_map \in [Robots -> MapType]
      /\ \A r \in Robots : readonly_map[r] = Null /\ writable_map[r] = FALSE
  BY <1>4, MapMergeAssumption DEF Init
<1>6. TypeOK
  BY <1>1, <1>3, <1>5 DEF Init, TypeOK, MapType
<1>7. \A r \in Robots :
        Ordered(updates[r], maps[r], readonly_map[r], writable_map[r], stamp)
  BY <1>3, <1>4, <1>5 DEF Ordered
<1>8. OwnTransform /\ KnownPosesSurvive
  BY DEF Init, OwnTransform, KnownPosesSurvive
<1> QED
  BY <1>2, <1>6, <1>7, <1>8 DEF Inv

LEMMA Inductive == Inv /\ [Next]_vars => Inv'
<1> SUFFICES ASSUME Inv, [Next]_vars PROVE Inv'
  OBVIOUS
<1>0. TypeOK /\ Lists /\ OwnTransform /\ KnownPosesSurvive
  BY DEF Inv
<1>1. Lists'
  BY <1>0, ListsKept
<1>2. /\ \A r \in Robots :
           Ordered(updates[r], maps[r], readonly_map[r], writable_map[r], stamp)'
      /\ stamp' \in 0..MaxStamp
      /\ maps' \in [Robots -> Seq(Stamps)] /\ updates' \in [Robots -> Seq(Stamps)]
      /\ readonly_map' \in [Robots -> MapType] /\ writable_map' \in [Robots -> BOOLEAN]
  BY <1>0, StampsKept DEF Inv
<1>3. \/ merged' = merged
      \/ Len(images') = Len(transforms') /\ merged' = Compose(images', transforms')
  <2>1. ASSUME composeGrids(images', transforms')
        PROVE  \/ merged' = merged
               \/ Len(images') = Len(transforms') /\ merged' = Compose(images', transforms')
    BY <2>1 DEF composeGrids
  <2>2. CASE mapMerging
    BY <2>1, <2>2, Zenon DEF mapMerging
  <2> QED
    BY <2>2 DEF Next, Callback, Appear, Publish, topicSubscribing, Deliver, poseEstimation, vars
<1>4. merged' \subseteq [map : Robots, by : Robots] /\ OwnTransform'
  <2>1. CASE merged' = merged
    BY <1>0, <2>1 DEF TypeOK, OwnTransform
  <2>2. CASE Len(images') = Len(transforms') /\ merged' = Compose(images', transforms')
    <3>1. /\ images' \in Seq([of : Robots, arrived : BOOLEAN])
          /\ transforms' \in Seq([of : Robots, kind : Kinds])
          /\ AlignedWith(images', subscriptions') /\ AlignedWith(transforms', subscriptions')
      BY <1>1 DEF Lists
    <3> QED
      BY <2>2, <3>1, ComposedAligned DEF OwnTransform
  <2> QED
    BY <1>3, <2>1, <2>2
<1>5. known' = known /\ online' \subseteq Robots
  BY <1>0 DEF TypeOK, Next, Callback, Appear, Publish, topicSubscribing, Deliver,
              poseEstimation, mapMerging, vars, network
<1>6. node' \in {"up", "threw", "crashed"}
  BY <1>0 DEF TypeOK, Next, Callback, Appear, Publish, topicSubscribing, Deliver,
              poseEstimation, mapMerging, composeGrids, vars
<1>7. KnownPosesSurvive'
  <2>1. CASE UNCHANGED <<subscriptions, readonly_map, known, node>>
    BY <1>0, <2>1 DEF KnownPosesSurvive, Range
  <2>2. CASE node = "up" /\ node' = "up"
    BY <2>2 DEF KnownPosesSurvive
  <2>3. CASE node = "up" /\ mapMerging
    <3>1. /\ subscriptions' = subscriptions /\ readonly_map' = readonly_map
          /\ known => composeGrids(Fed, Poses(Fed))
      BY <2>3 DEF mapMerging, received
    <3> SUFFICES ASSUME known', node' # "up" PROVE KnownPosesSurvive'
      BY DEF KnownPosesSurvive
    <3>2. known /\ node' # node
      BY <1>5, <2>3
    <3> QED
      BY <1>0, <3>1, <3>2, KnownMerging DEF KnownPosesSurvive, Range
  <2> QED
    BY <2>1, <2>2, <2>3
       DEF Next, Callback, Appear, Publish, topicSubscribing, Deliver, poseEstimation,
           vars, received
<1>8. TypeOK'
  BY <1>0, <1>1, <1>2, <1>4, <1>5, <1>6 DEF TypeOK, Lists, MapType
<1> QED
  BY <1>1, <1>2, <1>4, <1>7, <1>8 DEF Inv

LEMMA Invariance == Spec => []Inv
  BY Initially, Inductive, PTL DEF Spec

-----------------------------------------------------------------------------

(* Every variable of the merging node has its type: in particular the node *)
(* keeps one map per robot and lists of robots it knows.                   *)
THEOREM MergingTyped == Spec => []TypeOK
<1>1. Inv => TypeOK
  BY DEF Inv
<1> QED
  BY <1>1, Invariance, PTL

(* However full maps and partial updates overtake each other, no update    *)
(* older than the full map beneath it is copied into a robot's map.        *)
THEOREM UpdatesInOrder == Spec => []PatchesAreNewer
<1>1. Inv => PatchesAreNewer
  BY DEF Inv, Ordered, PatchesAreNewer
<1> QED
  BY <1>1, Invariance, PTL

(* However many robots are discovered between an estimation and a merge,   *)
(* each map is merged with its own robot's transform.                      *)
THEOREM TransformsMatch == Spec => []OwnTransform
<1>1. Inv => OwnTransform
  BY DEF Inv
<1> QED
  BY <1>1, Invariance, PTL

(* With known poses composeGrids() never throws, and what it crashes on is *)
(* a reference map that has not arrived.                                   *)
THEOREM KnownPosesAreSafe == Spec => []KnownPosesSurvive
<1>1. Inv => KnownPosesSurvive
  BY DEF Inv
<1> QED
  BY <1>1, Invariance, PTL

=============================================================================
