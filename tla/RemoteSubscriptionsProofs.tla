--------------------- MODULE RemoteSubscriptionsProofs ----------------------
(***************************************************************************)
(* For any subscribers, clients, limit and number of entries: the count of *)
(* remote subscribers never exceeds the subscriptions in the map, and only *)
(* what the application accepted is acknowledged.                          *)
(***************************************************************************)
EXTENDS RemoteSubscriptions, FiniteSetTheorems, WellFoundedInduction, TLAPS

\* The type of a remote_subscription.
Subscription ==
    [ep : Subscribers, ttl : {0, 1}, ack : Nat, id : Nat, parent : Nat, answers : Nat,
     state : [Clients -> States], expiration : [Clients -> {"none", "fresh", "old"}]]

\* t holds the objects of s, changed in anything but their ids.
SameIds(s, t) ==
    /\ t \in Seq(Subscription)
    /\ Len(t) = Len(s)
    /\ \A o \in 1..Len(s) : t[o].id = s[o].id

ObjectsInv ==
    /\ subs \in Seq(Subscription)
    /\ acks \in Seq([complete : BOOLEAN, done : BOOLEAN])

\* The thread in on_message; in "decide" the newest object has no id yet.
SdInv ==
    /\ sd \in [pc : {"idle", "entries", "decide"}, drop : SUBSET Nat, todo : Seq(Entries),
               existing : Nat, added : SUBSET Clients]
    /\ sd.pc # "decide" => Len(subs) + Len(sd.todo) <= MaxEntries
    /\ sd.pc = "decide" => sd.todo # <<>> /\ Len(subs) + Len(sd.todo) <= MaxEntries + 1

\* Ids are handed out in order, at most one per object.
IdInv ==
    /\ id_ \in Nat
    /\ subscriptions_ \subseteq 1..Len(subs)
    /\ \A o \in subscriptions_ : subs[o].id <= id_
    /\ id_ <= Len(subs)
    /\ sd.pc = "decide" => id_ < Len(subs) /\ Len(subs) \notin subscriptions_

CountInv == remote_subscribers_count_ \in Nat /\ NoFalseRefusal

IInv == ObjectsInv /\ SdInv /\ IdInv /\ CountInv

\* The thread that handles a reply has noted a state.
AnsInv ==
    ans.pc # "idle" =>
        /\ ans = [pc |-> ans.pc, o |-> ans.o, client |-> ans.client, state |-> ans.state, remove |-> ans.remove]
        /\ ans.state \in States

-----------------------------------------------------------------------------
(* remote_subscription                                                     *)

\* reset() and set_ttl() make a well-formed object.
LEMMA NewType ==
    ASSUME NEW e \in Entries, NEW a \in Nat
    PROVE  NewSubscription(e, a) \in Subscription /\ NewSubscription(e, a).id = 0
BY DEF NewSubscription, Subscription, Entries, States

\* set_client_state keeps an object well-formed, and its id.
LEMMA SetType ==
    ASSUME NEW s \in Subscription, NEW c, NEW v \in States
    PROVE  set_client_state(s, c, v) \in Subscription /\ set_client_state(s, c, v).id = s.id
<1> DEFINE state == [s.state EXCEPT ![c] = v]
           expiration == [s.expiration EXCEPT ![c] =
                             IF @ = "none" /\ v \in {"ACKED", "NACKED"} THEN "fresh" ELSE @]
<1>1. state \in [Clients -> States] /\ expiration \in [Clients -> {"none", "fresh", "old"}]
  BY DEF Subscription
<1>2. set_client_state(s, c, v) = s \/ set_client_state(s, c, v) = [s EXCEPT !.state = state, !.expiration = expiration]
  BY DEF set_client_state, Subscription
<1> HIDE DEF state, expiration
<1> QED
  BY <1>1, <1>2 DEF Subscription

\* So does update() when it renews clients ...
LEMMA RenewType ==
    ASSUME NEW s \in Subscription, NEW clients
    PROVE  renew(s, clients) \in Subscription /\ renew(s, clients).id = s.id
BY DEF renew, Subscription, States

\* ... and when it removes them.
LEMMA RemoveType ==
    ASSUME NEW s \in Subscription, NEW clients
    PROVE  remove(s, clients) \in Subscription /\ remove(s, clients).id = s.id
BY DEF remove, Subscription, States

\* Copying the states of another object keeps the id as well.
LEMMA CopyType ==
    ASSUME NEW s \in Subscription, NEW from \in Subscription
    PROVE  CopyStates(s, from) \in Subscription /\ CopyStates(s, from).id = s.id
BY DEF CopyStates, Subscription, States

\* So does changing how many answers it wants.
LEMMA AnswersType ==
    ASSUME NEW s \in Subscription, NEW n \in Nat
    PROVE  [s EXCEPT !.answers = n] \in Subscription /\ [s EXCEPT !.answers = n].id = s.id
BY DEF Subscription

-----------------------------------------------------------------------------
(* The objects, the map and the count                                      *)

\* An element of a sequence.
LEMMA ElementOf ==
    ASSUME NEW R, NEW s \in Seq(R), NEW p \in 1..Len(s)
    PROVE  s[p] \in R
OBVIOUS

\* Replacing an element keeps a sequence one.
LEMMA ReplaceInSeq ==
    ASSUME NEW R, NEW s \in Seq(R), NEW p, NEW r, p \in 1..Len(s) => r \in R
    PROVE  [s EXCEPT ![p] = r] \in Seq(R)
<1> DEFINE t == [s EXCEPT ![p] = r]
<1>1. DOMAIN s = 1..Len(s) /\ Len(s) \in Nat
  OBVIOUS
<1>2. t = [o \in 1..Len(s) |-> t[o]]
  BY <1>1
<1>3. \A o \in 1..Len(s) : t[o] \in R
  BY <1>1
<1> HIDE DEF t
<1>4. t \in [1..Len(s) -> R]
  BY <1>2, <1>3
<1>5. t \in Seq(R)
  BY <1>1, <1>4
<1> QED
  BY <1>5 DEF t

\* Changing objects pointwise without touching their ids keeps all ids.
LEMMA PointwiseKeepsIds ==
    ASSUME NEW s \in Seq(Subscription), NEW t, t = [o \in DOMAIN s |-> t[o]],
           \A o \in 1..Len(s) : t[o] \in Subscription /\ t[o].id = s[o].id
    PROVE  SameIds(s, t)
<1>1. DOMAIN s = 1..Len(s) /\ Len(s) \in Nat
  OBVIOUS
<1>2. t \in [1..Len(s) -> Subscription]
  BY <1>1
<1>3. t \in Seq(Subscription) /\ Len(t) = Len(s)
  BY <1>1, <1>2
<1> QED
  BY <1>3 DEF SameIds

\* Replacing an object by one with its id keeps all ids.
LEMMA ReplaceKeepsIds ==
    ASSUME NEW s \in Seq(Subscription), NEW p, NEW r,
           p \in 1..Len(s) => r \in Subscription /\ r.id = s[p].id
    PROVE  SameIds(s, [s EXCEPT ![p] = r])
<1> DEFINE t == [s EXCEPT ![p] = r]
<1>1. t = [o \in DOMAIN s |-> t[o]]
  OBVIOUS
<1>2. \A o \in 1..Len(s) : t[o] \in Subscription /\ t[o].id = s[o].id
  OBVIOUS
<1> HIDE DEF t
<1>3. SameIds(s, t)
  BY <1>1, <1>2, PointwiseKeepsIds
<1> QED
  BY <1>3 DEF t

\* Two such changes are one.
LEMMA SameIdsTwice ==
    ASSUME NEW s \in Seq(Subscription), NEW t, NEW u, SameIds(s, t), SameIds(t, u)
    PROVE  SameIds(s, u)
BY DEF SameIds

\* The map is finite, since its objects are numbered.
LEMMA MapIsFinite ==
    ASSUME ObjectsInv, IdInv
    PROVE  IsFiniteSet(subscriptions_)
<1>1. Len(subs) \in Nat
  BY DEF ObjectsInv
<1>2. IsFiniteSet(1..Len(subs))
  BY <1>1, FS_Interval
<1> QED
  BY <1>2, FS_Subset DEF IdInv

\* remove_remote_subscription takes one from the count if it takes one from
\* the map, unless the count is zero already.
LEMMA RemoveKeepsCount ==
    ASSUME IInv, NEW o, remove_remote_subscription(o)
    PROVE  CountInv' /\ subscriptions_' \subseteq subscriptions_
<1>1. IsFiniteSet(subscriptions_)
  BY MapIsFinite DEF IInv
<1>2. CASE o \in subscriptions_
  <2>1. Cardinality(subscriptions_ \ {o}) = Cardinality(subscriptions_) - 1 /\ Cardinality(subscriptions_) \in Nat
    BY <1>1, <1>2, FS_RemoveElement, FS_CardinalityType
  <2>2. Cardinality(subscriptions_) > 0
    BY <1>1, <1>2, <2>1, FS_EmptySet, FS_CardinalityType
  <2> QED
    BY <1>2, <2>1, <2>2 DEF IInv, CountInv, NoFalseRefusal, remove_remote_subscription
<1>3. CASE o \notin subscriptions_
  <2>1. subscriptions_ \ {o} = subscriptions_
    BY <1>3
  <2> QED
    BY <1>3, <2>1 DEF IInv, CountInv, NoFalseRefusal, remove_remote_subscription
<1> QED
  BY <1>2, <1>3

\* A new id is not in use: ids do not wrap within the bound on entries.
LEMMA InsertAdds ==
    ASSUME IInv, NEW o \in Nat, o \notin subscriptions_, Insert(o), id_ < MaxEntries
    PROVE  /\ id_' = id_ + 1 /\ update_id = id_ + 1
           /\ subscriptions_' = subscriptions_ \cup {o}
           /\ Cardinality(subscriptions_') = Cardinality(subscriptions_) + 1
           /\ Cardinality(subscriptions_) \in Nat
<1>1. update_id = id_ + 1
  BY IdAssumption DEF update_id, IInv, IdInv
<1>2. WithId(id_ + 1) = {}
  <2> SUFFICES ASSUME NEW p \in subscriptions_ PROVE subs[p].id # id_ + 1
    BY DEF WithId
  <2>1. subs[p].id <= id_ /\ id_ \in Nat /\ p \in 1..Len(subs)
    BY DEF IInv, IdInv
  <2>2. subs[p] \in Subscription
    BY <2>1 DEF IInv, ObjectsInv
  <2>3. subs[p].id \in Nat
    BY <2>2 DEF Subscription
  <2> QED
    BY <2>1, <2>3
<1>3. id_' = id_ + 1 /\ subscriptions_' = subscriptions_ \cup {o}
  BY <1>1, <1>2 DEF Insert
<1> QED
  BY <1>1, <1>3, MapIsFinite, FS_AddElement, FS_CardinalityType DEF IInv

\* A step that keeps ids and adds nothing to the map keeps the invariant, if
\* it keeps the count right and does not begin to decide.
LEMMA FrameKeeps ==
    ASSUME IInv, SameIds(subs, subs'), acks' \in Seq([complete : BOOLEAN, done : BOOLEAN]),
           subscriptions_' \subseteq subscriptions_, id_' = id_, CountInv',
           SdInv', sd'.pc = "decide" => sd.pc = "decide"
    PROVE  IInv'
<1>1. ObjectsInv'
  BY DEF ObjectsInv, SameIds
<1>2. Len(subs') = Len(subs)
  BY DEF SameIds
<1>3. \A o \in subscriptions_' : subs'[o].id <= id_
  BY DEF IInv, IdInv, SameIds
<1>4. IdInv'
  BY <1>2, <1>3 DEF IInv, IdInv
<1> QED
  BY <1>1, <1>4 DEF IInv

\* In particular if the thread of on_message does not move.
LEMMA FrameKeepsSd ==
    ASSUME IInv, SameIds(subs, subs'), acks' \in Seq([complete : BOOLEAN, done : BOOLEAN]),
           subscriptions_' \subseteq subscriptions_, id_' = id_, CountInv', sd' = sd
    PROVE  IInv'
<1>1. SdInv'
  BY DEF IInv, SdInv, SameIds
<1> QED
  BY <1>1, FrameKeeps

\* A step that appends an object and leaves the map alone keeps it too.
LEMMA AppendKeeps ==
    ASSUME IInv, NEW new \in Subscription, SameIds(Append(subs, new), subs'),
           acks' = acks, UNCHANGED mapVars, SdInv'
    PROVE  IInv'
<1>1. subs \in Seq(Subscription) /\ Len(subs) \in Nat
  BY DEF IInv, ObjectsInv
<1>2. Len(subs') = Len(subs) + 1 /\ \A o \in 1..Len(subs) : subs'[o].id = subs[o].id
  BY <1>1 DEF SameIds
<1>3. ObjectsInv'
  BY DEF IInv, ObjectsInv, SameIds
<1>4. IdInv'
  <2>1. id_ \in Nat /\ id_ <= Len(subs) /\ subscriptions_ \subseteq 1..Len(subs)
    BY DEF IInv, IdInv
  <2>2. subscriptions_' \subseteq 1..Len(subs') /\ Len(subs') \notin subscriptions_'
    BY <1>1, <1>2, <2>1 DEF mapVars
  <2>3. \A o \in subscriptions_' : subs'[o].id <= id_'
    BY <1>2 DEF IInv, IdInv, mapVars
  <2>4. id_' \in Nat /\ id_' < Len(subs')
    BY <1>1, <1>2, <2>1 DEF mapVars
  <2> QED
    BY <1>1, <1>2, <2>2, <2>3, <2>4 DEF IdInv
<1>5. CountInv'
  BY DEF IInv, CountInv, NoFalseRefusal, mapVars
<1> QED
  BY <1>3, <1>4, <1>5 DEF IInv

\* A step that enters object o under the new id keeps it, if it counts at most
\* one subscriber more.
LEMMA InsertKeeps ==
    ASSUME IInv, NEW o \in Nat, o \notin subscriptions_, Insert(o), id_ < MaxEntries,
           ObjectsInv', SdInv', sd'.pc # "decide",
           o \in 1..Len(subs'), Len(subs') >= Len(subs), id_ < Len(subs'),
           subs'[o].id = update_id, \A q \in subscriptions_ : subs'[q].id = subs[q].id,
           remote_subscribers_count_' \in Nat, remote_subscribers_count_' <= remote_subscribers_count_ + 1
    PROVE  IInv'
<1>1. /\ id_' = id_ + 1 /\ update_id = id_ + 1
      /\ subscriptions_' = subscriptions_ \cup {o}
      /\ Cardinality(subscriptions_') = Cardinality(subscriptions_) + 1
      /\ Cardinality(subscriptions_) \in Nat
  BY InsertAdds
<1>2. CountInv'
  BY <1>1 DEF IInv, CountInv, NoFalseRefusal
<1>3. Len(subs) \in Nat /\ Len(subs') \in Nat /\ id_ \in Nat
  BY DEF IInv, ObjectsInv, IdInv
<1>4. subscriptions_' \subseteq 1..Len(subs')
  BY <1>1, <1>3 DEF IInv, IdInv
<1>5. \A q \in subscriptions_' : subs'[q].id <= id_'
  <2> SUFFICES ASSUME NEW q \in subscriptions_' PROVE subs'[q].id <= id_'
    OBVIOUS
  <2>1. CASE q = o
    BY <1>1, <1>3, <2>1
  <2>2. CASE q \in subscriptions_
    <3>1. subs[q].id <= id_ /\ q \in 1..Len(subs)
      BY <2>2 DEF IInv, IdInv
    <3>2. subs[q] \in Subscription
      BY <3>1 DEF IInv, ObjectsInv
    <3>3. subs[q].id \in Nat
      BY <3>2 DEF Subscription
    <3> QED
      BY <1>1, <1>3, <2>2, <3>1, <3>3
  <2> QED
    BY <1>1, <2>1, <2>2
<1>6. IdInv'
  BY <1>1, <1>3, <1>4, <1>5 DEF IdInv
<1> QED
  BY <1>2, <1>6 DEF IInv

-----------------------------------------------------------------------------
(* Finding the existing subscription                                       *)

\* A nonempty set of ids has a smallest one.
LEMMA SmallestId ==
    ASSUME NEW T, T \subseteq Nat, T # {}
    PROVE  \E x \in T : \A y \in T : x <= y
<1> DEFINE R == OpToRel(<, Nat)
<1>1. \A x, y \in Nat : <<y, x>> \in R <=> y < x
  BY DEF OpToRel
<1>2. IsWellFoundedOn(R, Nat)
  BY NatLessThanWellFounded
<1> HIDE DEF R
<1>3. \E x \in T : \A y \in T : ~(<<y, x>> \in R)
  BY <1>2, WFMin
<1>4. PICK x \in T : \A y \in T : ~(<<y, x>> \in R)
  BY <1>3
<1>5. ASSUME NEW y \in T PROVE x <= y
  <2>1. x \in Nat /\ y \in Nat /\ ~(y < x)
    BY <1>1, <1>4
  <2> QED
    BY <2>1
<1> QED
  BY <1>5

\* If update_remote_subscription finds an equal subscription, it is one of the
\* map.
LEMMA FirstIsInMap ==
    ASSUME IInv, NEW e, Equal(e) # {}
    PROVE  First(e) \in subscriptions_ /\ First(e) \in 1..Len(subs) /\ subs[First(e)] \in Subscription
<1>1. \A o \in subscriptions_ : o \in 1..Len(subs) /\ subs[o] \in Subscription
  BY DEF IInv, IdInv, ObjectsInv
<1>2. \A o \in Equal(e) : o \in subscriptions_ /\ subs[o].id \in Nat
  BY <1>1 DEF Equal, Subscription
<1> DEFINE T == {subs[o].id : o \in Equal(e)}
<1>3. T \subseteq Nat /\ T # {}
  BY <1>2
<1>4. \E x \in T : \A y \in T : x <= y
  <2> HIDE DEF T
  <2> QED
    BY <1>3, SmallestId
<1>5. \E o \in Equal(e) : \A p \in Equal(e) : subs[o].id <= subs[p].id
  BY <1>4
<1>6. First(e) \in Equal(e)
  <2> DEFINE P(o) == \A p \in Equal(e) : subs[o].id <= subs[p].id
  <2>1. \E o \in Equal(e) : P(o)
    BY <1>5
  <2>2. First(e) = CHOOSE o \in Equal(e) : P(o)
    BY DEF First
  <2> HIDE DEF P
  <2> QED
    BY <2>1, <2>2
<1> QED
  BY <1>1, <1>2, <1>6

\* Withdrawing clients changes two objects, and no id.
LEMMA WithdrawKeepsIds ==
    ASSUME NEW s \in Seq(Subscription), NEW p \in 1..Len(s), NEW o, NEW left \in Subscription, left.id = s[p].id
    PROVE  SameIds(s, Withdraw(s, o, p, left))
<1> DEFINE r == CopyStates(s[o], left)
           t == [s EXCEPT ![o] = r]
<1>1. o \in 1..Len(s) => r \in Subscription /\ r.id = s[o].id
  BY CopyType
<1> HIDE DEF r
<1>2. SameIds(s, t)
  BY <1>1, ReplaceKeepsIds
<1> HIDE DEF t
<1>3. t \in Seq(Subscription) /\ p \in 1..Len(t) /\ t[p].id = s[p].id
  BY <1>2 DEF SameIds
<1>4. SameIds(t, [t EXCEPT ![p] = left])
  BY <1>3, ReplaceKeepsIds
<1>5. SameIds(s, [t EXCEPT ![p] = left])
  BY <1>2, <1>4, SameIdsTwice
<1>6. Withdraw(s, o, p, left) = [t EXCEPT ![p] = left]
  BY DEF t, r, Withdraw
<1> QED
  BY <1>5, <1>6

\* on_remote_unsubscribe changes states, never ids; s is subs, or subs with
\* the object of a StopSubscribe appended.
LEMMA UnsubscribeKeepsIds ==
    ASSUME IInv, NEW o, NEW s \in Seq(Subscription), on_remote_unsubscribe(o, s),
           Len(subs) <= Len(s), \A q \in 1..Len(subs) : s[q] = subs[q]
    PROVE  SameIds(s, subs')
<1>1. CASE Equal(s[o].ep) = {}
  BY <1>1 DEF on_remote_unsubscribe, SameIds
<1>2. CASE Equal(s[o].ep) # {}
  <2> DEFINE p == First(s[o].ep)
             left == remove(s[p], get_clients(s[o]))
  <2>1. p \in 1..Len(subs) /\ Len(subs) \in Nat /\ Len(s) \in Nat
    BY <1>2, FirstIsInMap DEF IInv, ObjectsInv
  <2>2. p \in 1..Len(s) /\ s[p] \in Subscription
    BY <2>1
  <2>3. left \in Subscription /\ left.id = s[p].id
    BY <2>2, RemoveType
  <2>4. subs' = Withdraw(s, o, p, left)
    BY <1>2 DEF on_remote_unsubscribe
  <2> HIDE DEF p, left
  <2> QED
    BY <2>2, <2>3, <2>4, WithdrawKeepsIds
<1> QED
  BY <1>1, <1>2

-----------------------------------------------------------------------------
(* The answer to a message                                                 *)

\* update_acknowledgement changes how many answers objects want, never ids.
LEMMA AcknowledgeKeeps ==
    ASSUME IInv, NEW a, NEW complete, a \in DOMAIN acks => complete \in BOOLEAN,
           update_acknowledgement(a, complete)
    PROVE  SameIds(subs, subs') /\ acks' \in Seq([complete : BOOLEAN, done : BOOLEAN])
<1>1. subs \in Seq(Subscription) /\ acks \in Seq([complete : BOOLEAN, done : BOOLEAN])
  BY DEF IInv, ObjectsInv
<1>2. SameIds(subs, subs)
  BY <1>1 DEF SameIds
<1>3. CASE send_subscription_ack(a)
  <2>1. acks' \in Seq([complete : BOOLEAN, done : BOOLEAN])
    <3>1. acks' = [acks EXCEPT ![a] = [complete |-> TRUE, done |-> TRUE]]
      BY <1>3 DEF send_subscription_ack
    <3> QED
      BY <1>1, <3>1, ReplaceInSeq
  <2>2. ASSUME NEW parent,
               subs' = [p \in DOMAIN subs |->
                          IF parent \in pending_remote_subscriptions_ /\ p # parent /\ subs[p].ack = subs[parent].ack
                          THEN [subs[p] EXCEPT !.answers = @ + 1] ELSE subs[p]]
        PROVE  SameIds(subs, subs')
    <3>1. \A p \in 1..Len(subs) : [subs[p] EXCEPT !.answers = @ + 1] \in Subscription
                                  /\ [subs[p] EXCEPT !.answers = @ + 1].id = subs[p].id
      <4> SUFFICES ASSUME NEW p \in 1..Len(subs)
                   PROVE  [subs[p] EXCEPT !.answers = subs[p].answers + 1] \in Subscription
                          /\ [subs[p] EXCEPT !.answers = subs[p].answers + 1].id = subs[p].id
        OBVIOUS
      <4>1. subs[p] \in Subscription
        BY <1>1
      <4>2. subs[p].answers + 1 \in Nat
        BY <4>1 DEF Subscription
      <4> QED
        BY <4>1, <4>2, AnswersType
    <3>2. \A p \in 1..Len(subs) : subs'[p] \in Subscription /\ subs'[p].id = subs[p].id
      BY <1>1, <2>2, <3>1
    <3>3. subs' = [p \in DOMAIN subs |-> subs'[p]]
      BY <2>2
    <3> QED
      BY <1>1, <3>2, <3>3, PointwiseKeepsIds
  <2> QED
    BY <1>2, <1>3, <2>1, <2>2 DEF send_subscription_ack
<1>4. CASE ~send_subscription_ack(a)
  <2>1. subs' = subs /\ acks' = [acks EXCEPT ![a].complete = complete]
    BY <1>4 DEF update_acknowledgement
  <2>2. acks' \in Seq([complete : BOOLEAN, done : BOOLEAN])
    <3> DEFINE r == [acks[a] EXCEPT !.complete = complete]
    <3>1. ASSUME a \in 1..Len(acks) PROVE r \in [complete : BOOLEAN, done : BOOLEAN]
      <4>1. acks[a] \in [complete : BOOLEAN, done : BOOLEAN]
        BY <1>1, <3>1, ElementOf
      <4>2. a \in DOMAIN acks
        BY <1>1, <3>1
      <4>3. complete \in BOOLEAN
        BY <4>2
      <4> QED
        BY <4>1, <4>3
    <3>2. acks' = [acks EXCEPT ![a] = r]
      BY <2>1
    <3> HIDE DEF r
    <3> QED
      BY <1>1, <3>1, <3>2, ReplaceInSeq
  <2> QED
    BY <1>2, <2>1, <2>2
<1> QED
  BY <1>3, <1>4

-----------------------------------------------------------------------------
(* The thread inside service_discovery_impl::on_message                    *)

\* Taking up the next entry leaves the others.
LEMMA TailKeeps ==
    ASSUME IInv, sd.todo # <<>>
    PROVE  /\ Tail(sd.todo) \in Seq(Entries) /\ Head(sd.todo) \in Entries
           /\ Len(Tail(sd.todo)) = Len(sd.todo) - 1
           /\ Len(sd.todo) \in Nat \ {0} /\ Len(subs) \in Nat
BY DEF IInv, ObjectsInv, SdInv

\* A message that arrives has entries for at most the objects left.
LEMMA MessageStep ==
    ASSUME IInv, NEW m \in Messages, NEW reboot \in BOOLEAN, on_message(m, reboot)
    PROVE  IInv'
<1>1. m \in Seq(Entries)
  <2>1. CASE \E e \in Entries : m = <<e>>
    BY <2>1
  <2>2. CASE \E e, f \in Entries : m = <<e, f>>
    BY <2>2
  <2> QED
    BY <2>1, <2>2 DEF Messages
<1>2. subscriptions_ \subseteq Nat
  BY DEF IInv, IdInv
<1>3. SameIds(subs, subs') /\ acks' \in Seq([complete : BOOLEAN, done : BOOLEAN])
  BY DEF IInv, ObjectsInv, SameIds, on_message
<1>4. sd'.pc = "entries" /\ sd'.todo = m /\ SdInv'
  BY <1>1, <1>2 DEF on_message, Idle, SdInv
<1>5. UNCHANGED mapVars /\ CountInv'
  BY DEF on_message, mapVars, IInv, CountInv, NoFalseRefusal
<1> QED
  BY <1>3, <1>4, <1>5, FrameKeeps DEF mapVars

\* Dropping a subscription after a reboot keeps all ids.
LEMMA DropStep ==
    ASSUME IInv, DropSubscription
    PROVE  IInv'
<1>1. PICK o \in sd.drop : on_remote_unsubscribe(o, subs) /\ sd' = [sd EXCEPT !.drop = @ \ {o}]
  BY DEF DropSubscription
<1>2. SameIds(subs, subs')
  BY <1>1, UnsubscribeKeepsIds DEF IInv, ObjectsInv
<1>3. SdInv' /\ sd'.pc = sd.pc
  BY <1>1, <1>2 DEF IInv, SdInv, SameIds
<1>4. UNCHANGED mapVars /\ acks' = acks /\ CountInv'
  BY DEF DropSubscription, mapVars, ackVars, IInv, CountInv, NoFalseRefusal
<1> QED
  BY <1>2, <1>3, <1>4, FrameKeeps DEF mapVars, IInv, ObjectsInv

\* An entry that makes at most one object leaves room for the others.
LEMMA EntryKeepsSd ==
    ASSUME IInv, sd.pc = "entries", sd.todo # <<>>, sd' = [sd EXCEPT !.todo = Tail(@)],
           Len(subs') \in {Len(subs), Len(subs) + 1}
    PROVE  SdInv' /\ sd'.pc = "entries"
<1>1. sd' = [sd EXCEPT !.todo = sd'.todo] /\ sd'.todo = Tail(sd.todo)
  BY DEF IInv, SdInv
<1>2. sd'.todo \in Seq(Entries) /\ Len(subs') + Len(sd'.todo) <= MaxEntries
  BY <1>1, TailKeeps, IdAssumption DEF IInv, SdInv
<1> QED
  BY <1>1, <1>2 DEF IInv, SdInv

\* Skipping an entry makes no object.
LEMMA SkipStep ==
    ASSUME IInv, SkipEntry
    PROVE  IInv'
<1>1. sd.pc = "entries" /\ sd.todo # <<>> /\ sd' = [sd EXCEPT !.todo = Tail(@)]
  BY DEF SkipEntry, NextEntry
<1>2. UNCHANGED <<subs, mapVars, acks>>
  BY DEF SkipEntry, ackVars
<1>3. SameIds(subs, subs')
  BY <1>2 DEF SameIds, IInv, ObjectsInv
<1>4. SdInv' /\ sd'.pc = sd.pc
  BY <1>1, <1>2, EntryKeepsSd
<1>5. CountInv'
  BY <1>2 DEF mapVars, IInv, CountInv, NoFalseRefusal
<1> QED
  BY <1>2, <1>3, <1>4, <1>5, FrameKeeps DEF mapVars, IInv, ObjectsInv

\* A StopSubscribe makes an object that never enters the map.
LEMMA StopStep ==
    ASSUME IInv, StopSubscribe
    PROVE  IInv'
<1> DEFINE new == NewSubscription(Head(sd.todo), Len(acks))
           s == Append(subs, new)
<1>1. sd.pc = "entries" /\ sd.todo # <<>> /\ sd' = [sd EXCEPT !.todo = Tail(@)]
  BY DEF StopSubscribe, NextEntry
<1>2. Len(acks) \in Nat /\ subs \in Seq(Subscription) /\ Len(subs) \in Nat
  BY DEF IInv, ObjectsInv
<1>3. new \in Subscription
  BY <1>1, <1>2, TailKeeps, NewType
<1>4. on_remote_unsubscribe(Object, s)
  BY DEF StopSubscribe
<1>5. UNCHANGED mapVars /\ acks' = acks
  BY DEF StopSubscribe
<1> HIDE DEF new
<1>6. s \in Seq(Subscription) /\ Len(s) = Len(subs) + 1 /\ \A q \in 1..Len(subs) : s[q] = subs[q]
  BY <1>2, <1>3
<1>7. Len(subs) <= Len(s)
  BY <1>2, <1>6
<1> HIDE DEF s
<1>8. SameIds(s, subs')
  BY <1>4, <1>6, <1>7, UnsubscribeKeepsIds
<1>9. SdInv'
  BY <1>1, <1>6, <1>8, EntryKeepsSd DEF SameIds
<1> QED
  BY <1>3, <1>5, <1>8, <1>9, AppendKeeps DEF s

\* A new subscriber is counted when its object enters the map, and neither
\* happens when the limit is reached.
LEMMA NewStep ==
    ASSUME IInv, SubscribeNew
    PROVE  IInv'
<1> DEFINE new == NewSubscription(Head(sd.todo), Len(acks))
<1>1. sd.pc = "entries" /\ sd.todo # <<>> /\ sd' = [sd EXCEPT !.todo = Tail(@)]
  BY DEF SubscribeNew, NextEntry
<1>2. Len(acks) \in Nat /\ subs \in Seq(Subscription) /\ Len(subs) \in Nat
  BY DEF IInv, ObjectsInv
<1>3. new \in Subscription
  BY <1>1, <1>2, TailKeeps, NewType
<1>4. acks' = acks
  BY DEF SubscribeNew
<1>5. CASE is_remote_subscription_limit_reached
  <2> DEFINE r == [new EXCEPT !.state = [c \in Clients |-> IF @[c] = "absent" THEN "absent" ELSE "NACKED"]]
  <2>1. subs' = Append(subs, r) /\ UNCHANGED mapVars
    BY <1>5 DEF SubscribeNew
  <2> HIDE DEF new
  <2>2. r \in Subscription
    BY <1>3 DEF Subscription, States
  <2> HIDE DEF r
  <2>3. SameIds(Append(subs, r), subs') /\ Len(subs') = Len(subs) + 1
    BY <1>2, <2>1, <2>2 DEF SameIds
  <2>4. SdInv'
    BY <1>1, <2>3, EntryKeepsSd
  <2> QED
    BY <1>4, <2>1, <2>2, <2>3, <2>4, AppendKeeps
<1>6. CASE ~is_remote_subscription_limit_reached
  <2> DEFINE r == [new EXCEPT !.id = update_id]
  <2>1. /\ subs' = Append(subs, r) /\ Insert(Object)
        /\ remote_subscribers_count_' = (remote_subscribers_count_ + 1) % 256
    BY <1>6 DEF SubscribeNew
  <2>2. id_ \in Nat /\ id_ <= Len(subs) /\ subscriptions_ \subseteq 1..Len(subs)
    BY DEF IInv, IdInv
  <2>3. update_id \in Nat
    BY <2>2 DEF update_id
  <2> HIDE DEF new
  <2>4. r \in Subscription /\ r.id = update_id
    BY <1>3, <2>3 DEF Subscription
  <2> HIDE DEF r
  <2>5. /\ subs' \in Seq(Subscription) /\ Len(subs') = Len(subs) + 1
        /\ subs'[Object] = r /\ \A q \in 1..Len(subs) : subs'[q] = subs[q]
    BY <1>2, <2>1, <2>4 DEF Object
  <2>6. ObjectsInv' /\ SdInv' /\ sd'.pc = "entries"
    BY <1>1, <1>4, <2>5, EntryKeepsSd DEF IInv, ObjectsInv
  <2>7. Len(subs) < MaxEntries
    BY <1>1, <1>2, TailKeeps, IdAssumption DEF IInv, SdInv
  <2>8. /\ Object \in Nat /\ Object \notin subscriptions_ /\ Object \in 1..Len(subs')
        /\ id_ < MaxEntries /\ id_ < Len(subs') /\ Len(subs') >= Len(subs)
    BY <1>2, <2>2, <2>5, <2>7, IdAssumption DEF Object
  <2>9. remote_subscribers_count_' \in Nat /\ remote_subscribers_count_' <= remote_subscribers_count_ + 1
    <3>1. \A n \in Nat : n % 256 \in Nat /\ n % 256 <= n
      OBVIOUS
    <3>2. remote_subscribers_count_ + 1 \in Nat
      BY DEF IInv, CountInv
    <3> QED
      BY <2>1, <3>1, <3>2
  <2>10. subs'[Object].id = update_id /\ \A q \in subscriptions_ : subs'[q].id = subs[q].id
    BY <2>2, <2>4, <2>5
  <2>11. sd'.pc # "decide"
    BY <2>6
  <2> QED
    BY <2>1, <2>6, <2>8, <2>9, <2>10, <2>11, InsertKeeps
<1> QED
  BY <1>5, <1>6

\* A known subscriber's object is appended; deciding about it comes next.
LEMMA KnownStep ==
    ASSUME IInv, SubscribeKnown
    PROVE  IInv'
<1> DEFINE new == NewSubscription(Head(sd.todo), Len(acks))
           p == First(new.ep)
           kept == renew(subs[p], get_clients(new))
           copy == CopyStates(new, kept)
           r == [copy EXCEPT !.state = [c \in Clients |-> IF @[c] = "UNKNOWN" THEN "PENDING" ELSE @[c]]]
           added == {c \in get_clients(new) : subs[p].state[c] \in {"absent", "UNKNOWN"}}
           t == [subs EXCEPT ![p] = kept]
<1>1. /\ sd.pc = "entries" /\ sd.todo # <<>>
      /\ sd' = [sd EXCEPT !.pc = "decide", !.existing = p, !.added = added]
      /\ Equal(new.ep) # {} /\ subs' = Append(t, r) /\ UNCHANGED mapVars /\ acks' = acks
  BY DEF SubscribeKnown, NextEntry
<1>2. Len(acks) \in Nat /\ subs \in Seq(Subscription) /\ Len(subs) \in Nat
  BY DEF IInv, ObjectsInv
<1>3. new \in Subscription
  BY <1>1, <1>2, TailKeeps, NewType
<1>4. added \subseteq Clients
  BY DEF get_clients
<1> HIDE DEF new, added
<1>5. p \in 1..Len(subs) /\ subs[p] \in Subscription
  BY <1>1, FirstIsInMap
<1> HIDE DEF p
<1>6. kept \in Subscription /\ kept.id = subs[p].id
  BY <1>5, RenewType
<1> HIDE DEF kept
<1>7. copy \in Subscription
  BY <1>3, <1>6, CopyType
<1> HIDE DEF copy
<1>8. r \in Subscription
  BY <1>7 DEF Subscription, States
<1> HIDE DEF r
<1>9. SameIds(subs, t)
  BY <1>2, <1>6, ReplaceKeepsIds
<1> HIDE DEF t
<1>10. t \in Seq(Subscription) /\ Len(t) = Len(subs) /\ \A q \in 1..Len(subs) : t[q].id = subs[q].id
  BY <1>9 DEF SameIds
<1>11. subs' \in Seq(Subscription) /\ Len(subs') = Len(subs) + 1
  BY <1>1, <1>2, <1>8, <1>10
<1>12. SameIds(Append(subs, r), subs')
  <2>1. \A q \in 1..Len(subs) : subs'[q] = t[q] /\ Append(subs, r)[q] = subs[q]
    BY <1>1, <1>2, <1>8, <1>10
  <2>2. subs'[Len(subs) + 1] = r /\ Append(subs, r)[Len(subs) + 1] = r /\ Len(Append(subs, r)) = Len(subs) + 1
    BY <1>1, <1>2, <1>8, <1>10
  <2>3. \A q \in 1..Len(subs) + 1 : subs'[q].id = Append(subs, r)[q].id
    BY <1>2, <1>10, <2>1, <2>2
  <2> QED
    BY <1>11, <2>2, <2>3 DEF SameIds
<1>13. SdInv'
  <2>1. sd'.pc = "decide" /\ sd'.todo = sd.todo
        /\ sd' \in [pc : {"idle", "entries", "decide"}, drop : SUBSET Nat, todo : Seq(Entries),
                    existing : Nat, added : SUBSET Clients]
    <3>1. p \in Nat /\ added \in SUBSET Clients
      BY <1>2, <1>4, <1>5
    <3>2. sd \in [pc : {"idle", "entries", "decide"}, drop : SUBSET Nat, todo : Seq(Entries),
                  existing : Nat, added : SUBSET Clients]
      BY DEF IInv, SdInv
    <3> QED
      BY <1>1, <3>1, <3>2
  <2>2. Len(subs') + Len(sd.todo) <= MaxEntries + 1
    BY <1>1, <1>2, <1>11, TailKeeps, IdAssumption DEF IInv, SdInv
  <2> QED
    BY <1>1, <2>1, <2>2 DEF SdInv
<1> QED
  BY <1>1, <1>8, <1>12, <1>13, AppendKeeps

\* A child enters the map without being counted; otherwise no id changes.
LEMMA DecideStep ==
    ASSUME IInv, Decide
    PROVE  IInv'
<1> DEFINE o == Len(subs)
<1>1. /\ sd.pc = "decide" /\ acks' = acks
      /\ sd' = [sd EXCEPT !.pc = "entries", !.todo = Tail(@), !.existing = 0, !.added = {}]
  BY DEF Decide, ackVars
<1>2. /\ subs \in Seq(Subscription) /\ id_ \in Nat /\ id_ < o /\ o \notin subscriptions_ /\ sd.todo # <<>>
      /\ sd.existing \in Nat /\ subscriptions_ \subseteq 1..o
  BY <1>1 DEF IInv, ObjectsInv, IdInv, SdInv
<1>3. o \in Nat /\ o \in 1..Len(subs) /\ subs[o] \in Subscription
  BY <1>2
<1>4. sd'.pc = "entries" /\ (Len(subs') = Len(subs) => SdInv')
  <2>1. sd'.pc = "entries" /\ sd'.todo = Tail(sd.todo)
        /\ sd' \in [pc : {"idle", "entries", "decide"}, drop : SUBSET Nat, todo : Seq(Entries),
                    existing : Nat, added : SUBSET Clients]
    BY <1>1, <1>2, TailKeeps DEF IInv, SdInv
  <2>2. Len(subs) + Len(Tail(sd.todo)) <= MaxEntries
    BY <1>1, <1>2, TailKeeps, IdAssumption DEF IInv, SdInv
  <2> QED
    BY <2>1, <2>2 DEF SdInv
<1>5. CASE sd.added # {}
  <2> DEFINE r == [subs[o] EXCEPT !.parent = sd.existing, !.id = update_id]
  <2>1. subs' = [subs EXCEPT ![o] = r] /\ Insert(o) /\ UNCHANGED remote_subscribers_count_
    BY <1>3, <1>5 DEF Decide
  <2>2. update_id \in Nat
    BY <1>2 DEF update_id
  <2>3. r \in Subscription /\ r.id = update_id
    BY <1>2, <1>3, <2>2 DEF Subscription
  <2> HIDE DEF r
  <2>4. subs' \in Seq(Subscription)
    BY <1>2, <2>1, <2>3, ReplaceInSeq
  <2>5. Len(subs') = Len(subs) /\ subs'[o] = r /\ \A q \in 1..Len(subs) : q # o => subs'[q] = subs[q]
    BY <1>2, <1>3, <2>1
  <2>6. ObjectsInv' /\ SdInv' /\ sd'.pc # "decide"
    BY <1>1, <1>4, <2>4, <2>5 DEF IInv, ObjectsInv
  <2>7. id_ < MaxEntries
    <3>1. Len(subs) + Len(sd.todo) <= MaxEntries + 1
      BY <1>1 DEF IInv, SdInv
    <3> QED
      BY <1>2, <1>3, <3>1, TailKeeps, IdAssumption
  <2>8. o \in 1..Len(subs') /\ Len(subs') >= Len(subs) /\ id_ < Len(subs')
    BY <1>2, <1>3, <2>5
  <2>9. subs'[o].id = update_id /\ \A q \in subscriptions_ : subs'[q].id = subs[q].id
    BY <1>2, <2>3, <2>5
  <2>10. remote_subscribers_count_' \in Nat /\ remote_subscribers_count_' <= remote_subscribers_count_ + 1
    BY <2>1 DEF IInv, CountInv
  <2> HIDE DEF o
  <2> QED
    BY <1>2, <1>3, <2>1, <2>6, <2>7, <2>8, <2>9, <2>10, InsertKeeps
<1>6. CASE sd.added = {}
  <2>1. UNCHANGED mapVars
    BY <1>6 DEF Decide
  <2>2. CASE subs' = subs
    <3>1. SameIds(subs, subs')
      BY <1>2, <2>2 DEF SameIds
    <3> QED
      BY <1>1, <1>4, <2>1, <2>2, <3>1, FrameKeeps DEF IInv, ObjectsInv, CountInv, NoFalseRefusal, mapVars
  <2>3. CASE subs' # subs
    <3> DEFINE e == sd.existing
               n == subs[e].answers + 1
               t == [subs EXCEPT ![e] = [subs[e] EXCEPT !.answers = n]]
               r == [t[o] EXCEPT !.parent = e, !.answers = 0]
    <3>1. subs' = [t EXCEPT ![o] = r]
      BY <1>6, <2>3 DEF Decide
    <3>2. e \in 1..Len(subs) => [subs[e] EXCEPT !.answers = n] \in Subscription
                                /\ [subs[e] EXCEPT !.answers = n].id = subs[e].id
      <4>1. SUFFICES ASSUME e \in 1..Len(subs)
                     PROVE  [subs[e] EXCEPT !.answers = n] \in Subscription
                            /\ [subs[e] EXCEPT !.answers = n].id = subs[e].id
        OBVIOUS
      <4>2. subs[e] \in Subscription
        BY <1>2, <4>1
      <4>3. n \in Nat
        BY <4>2 DEF Subscription
      <4> HIDE DEF n
      <4> QED
        BY <4>2, <4>3, AnswersType
    <3> HIDE DEF n
    <3>3. SameIds(subs, t)
      BY <1>2, <3>2, ReplaceKeepsIds
    <3> HIDE DEF t
    <3>4. t \in Seq(Subscription) /\ o \in 1..Len(t) /\ t[o] \in Subscription
      BY <1>3, <3>3 DEF SameIds
    <3>5. r \in Subscription /\ r.id = t[o].id
      BY <1>2, <3>4 DEF Subscription
    <3> HIDE DEF r
    <3>6. SameIds(t, subs')
      BY <3>1, <3>4, <3>5, ReplaceKeepsIds
    <3>7. SameIds(subs, subs')
      BY <1>2, <3>3, <3>6, SameIdsTwice
    <3> QED
      BY <1>1, <1>4, <2>1, <3>7, FrameKeeps DEF IInv, ObjectsInv, CountInv, NoFalseRefusal, mapVars, SameIds
  <2> QED
    BY <2>2, <2>3
<1> QED
  BY <1>5, <1>6

\* Completing a message may answer it.
LEMMA CompleteStep ==
    ASSUME IInv, Complete
    PROVE  IInv'
<1>1. sd' = Idle /\ sd.pc # "decide" /\ update_acknowledgement(Len(acks), TRUE) /\ UNCHANGED mapVars
  BY DEF Complete
<1>2. SameIds(subs, subs') /\ acks' \in Seq([complete : BOOLEAN, done : BOOLEAN])
  BY <1>1, AcknowledgeKeeps
<1>3. Len(subs') = Len(subs) /\ Len(subs) \in Nat /\ Len(subs) <= MaxEntries
  BY <1>1, <1>2, IdAssumption DEF SameIds, IInv, ObjectsInv, SdInv
<1>4. SdInv' /\ sd'.pc = "idle"
  BY <1>1, <1>3, IdAssumption DEF SdInv, Idle
<1>5. CountInv'
  BY <1>1 DEF IInv, CountInv, NoFalseRefusal, mapVars
<1> QED
  BY <1>1, <1>2, <1>4, <1>5, FrameKeeps DEF mapVars

-----------------------------------------------------------------------------
(* The replies of the application and the expiration timer                 *)

\* A step that leaves the objects, and removes one subscription or none.
LEMMA RemovalKeeps ==
    ASSUME IInv, UNCHANGED <<subs, acks, sd, id_>>,
           \/ UNCHANGED mapVars
           \/ \E o : remove_remote_subscription(o)
    PROVE  IInv'
<1>1. SameIds(subs, subs') /\ acks' \in Seq([complete : BOOLEAN, done : BOOLEAN])
  BY DEF SameIds, IInv, ObjectsInv
<1>2. CountInv' /\ subscriptions_' \subseteq subscriptions_
  <2>1. CASE UNCHANGED mapVars
    BY <2>1 DEF mapVars, IInv, CountInv, NoFalseRefusal
  <2>2. CASE \E o : remove_remote_subscription(o)
    BY <2>2, RemoveKeepsCount
  <2> QED
    BY <2>1, <2>2
<1> QED
  BY <1>1, <1>2, FrameKeepsSd

\* Looking a reply up, removing a child and forgetting a subscription.
LEMMA ReplySteps ==
    ASSUME IInv, Reply \/ RemoveChild \/ Finish
    PROVE  IInv'
<1>1. UNCHANGED <<subs, acks, sd, id_>>
  BY DEF Reply, on_unsubscribe_ack, SubscribeReply, RemoveChild, Finish, mapVars, ackVars
<1>2. UNCHANGED mapVars \/ \E o : remove_remote_subscription(o)
  BY DEF Reply, on_unsubscribe_ack, SubscribeReply, RemoveChild, Finish
<1> QED
  BY <1>1, <1>2, RemovalKeeps

\* The reply is noted in the object and its parent.
LEMMA SetStep ==
    ASSUME IInv, AnsInv, SetState
    PROVE  IInv'
<1>1. ans.state \in States /\ subs \in Seq(Subscription)
  BY DEF AnsInv, SetState, IInv, ObjectsInv
<1>2. UNCHANGED <<mapVars, acks, sd>>
  BY DEF SetState, ackVars
<1>3. subs' = [o \in DOMAIN subs |-> IF o \in {ans.o, get_parent(ans.o)}
                                     THEN set_client_state(subs[o], ans.client, ans.state) ELSE subs[o]]
  BY DEF SetState
<1>4. \A o \in 1..Len(subs) : subs'[o] \in Subscription /\ subs'[o].id = subs[o].id
  BY <1>1, <1>3, SetType
<1>5. subs' = [o \in DOMAIN subs |-> subs'[o]]
  BY <1>3
<1>6. SameIds(subs, subs')
  BY <1>1, <1>4, <1>5, PointwiseKeepsIds
<1> QED
  BY <1>2, <1>6, FrameKeepsSd DEF mapVars, IInv, ObjectsInv, CountInv, NoFalseRefusal

\* Service discovery may answer the message.
LEMMA NotifyStep ==
    ASSUME IInv, Notify
    PROVE  IInv'
<1> DEFINE a == subs[ans.o].ack
<1>1. UNCHANGED <<mapVars, sd>>
  BY DEF Notify
<1>2. SameIds(subs, subs') /\ acks' \in Seq([complete : BOOLEAN, done : BOOLEAN])
  <2>1. CASE UNCHANGED <<subs, ackVars>>
    BY <2>1 DEF ackVars, SameIds, IInv, ObjectsInv
  <2>2. CASE update_acknowledgement(a, acks[a].complete)
    <3> HIDE DEF a
    <3>1. ASSUME a \in DOMAIN acks PROVE acks[a].complete \in BOOLEAN
      <4>1. a \in 1..Len(acks)
        BY <3>1 DEF IInv, ObjectsInv
      <4>2. acks[a] \in [complete : BOOLEAN, done : BOOLEAN]
        BY <4>1, ElementOf DEF IInv, ObjectsInv
      <4> QED
        BY <4>2
    <3> QED
      BY <2>2, <3>1, AcknowledgeKeeps
  <2> QED
    BY <2>1, <2>2 DEF Notify
<1> QED
  BY <1>1, <1>2, FrameKeepsSd DEF mapVars, IInv, CountInv, NoFalseRefusal

\* Time passes.
LEMMA ElapseStep ==
    ASSUME IInv, NEW o \in subscriptions_, Elapse(o)
    PROVE  IInv'
<1> DEFINE r == [subs[o] EXCEPT !.expiration = [c \in Clients |-> IF @[c] = "fresh" THEN "old" ELSE @[c]]]
<1>1. subs \in Seq(Subscription) /\ o \in 1..Len(subs) /\ subs[o] \in Subscription
  BY DEF IInv, ObjectsInv, IdInv
<1>2. subs' = [subs EXCEPT ![o] = r] /\ UNCHANGED <<mapVars, acks, sd>>
  BY DEF Elapse, ackVars
<1>3. r \in Subscription /\ r.id = subs[o].id
  BY <1>1 DEF Subscription
<1> HIDE DEF r
<1>4. SameIds(subs, subs')
  BY <1>1, <1>2, <1>3, ReplaceKeepsIds
<1> QED
  BY <1>2, <1>4, FrameKeepsSd DEF mapVars, IInv, ObjectsInv, CountInv, NoFalseRefusal

\* The timer collects, and then removes, what expired.
LEMMA TimerSteps ==
    ASSUME IInv,
           \/ \E force \in BOOLEAN : expire_subscriptions(force)
           \/ \E o \in expiring : ExpireSubscription(o)
    PROVE  IInv'
<1>1. CASE \E force \in BOOLEAN : expire_subscriptions(force)
  <2>1. UNCHANGED <<subs, mapVars, acks, sd>>
    BY <1>1 DEF expire_subscriptions, ackVars
  <2> QED
    BY <2>1, RemovalKeeps DEF mapVars
<1>2. ASSUME NEW o \in expiring, ExpireSubscription(o)
      PROVE  IInv'
  <2> DEFINE e == subs[o].ep
             p == First(e)
             left == remove(subs[p], get_clients(subs[o]))
  <2>1. UNCHANGED <<acks, sd>>
    BY <1>2 DEF ExpireSubscription, ackVars
  <2>2. CASE Equal(e) = {}
    <3>1. UNCHANGED <<subs, mapVars>>
      BY <1>2, <2>2 DEF ExpireSubscription
    <3> QED
      BY <2>1, <3>1, RemovalKeeps DEF mapVars
  <2>3. CASE Equal(e) # {}
    <3>1. subs' = Withdraw(subs, o, p, left) /\ remove_remote_subscription(p) /\ UNCHANGED id_
      BY <1>2, <2>3 DEF ExpireSubscription
    <3>2. p \in 1..Len(subs) /\ subs[p] \in Subscription
      BY <2>3, FirstIsInMap
    <3>3. left \in Subscription /\ left.id = subs[p].id
      BY <3>2, RemoveType
    <3> HIDE DEF left, p
    <3>4. SameIds(subs, subs')
      BY <3>1, <3>2, <3>3, WithdrawKeepsIds DEF IInv, ObjectsInv
    <3>5. CountInv' /\ subscriptions_' \subseteq subscriptions_
      BY <3>1, RemoveKeepsCount
    <3> QED
      BY <2>1, <3>1, <3>4, <3>5, FrameKeepsSd DEF IInv, ObjectsInv
  <2> QED
    BY <2>2, <2>3
<1> QED
  BY <1>1, <1>2

-----------------------------------------------------------------------------
(* The invariant                                                           *)

\* Nothing is there when service discovery starts.
LEMMA InitIInv ==
    Init => IInv /\ AnsInv
<1> SUFFICES ASSUME Init PROVE IInv /\ AnsInv
  OBVIOUS
<1>1. subs = <<>> /\ subscriptions_ = {} /\ id_ = 0 /\ remote_subscribers_count_ = 0 /\ acks = <<>> /\ sd = Idle
      /\ ans = [pc |-> "idle", o |-> 0]
  BY DEF Init
<1>2. ObjectsInv /\ SdInv /\ IdInv
  BY <1>1, IdAssumption DEF ObjectsInv, SdInv, IdInv, Idle
<1>3. CountInv
  BY <1>1, FS_EmptySet DEF CountInv, NoFalseRefusal
<1> QED
  BY <1>1, <1>2, <1>3 DEF IInv, AnsInv

\* A reply carries a state from its lookup to its end.
LEMMA NextAnsInv ==
    ASSUME AnsInv, [Next]_vars
    PROVE  AnsInv'
<1>1. CASE UNCHANGED ans
  BY <1>1 DEF AnsInv
<1>2. CASE \E i \in DOMAIN forwarded, s \in {"ACKED", "NACKED"} : SubscribeReply(i, s)
  <2>1. PICK i \in DOMAIN forwarded, s \in {"ACKED", "NACKED"} : SubscribeReply(i, s)
    BY <1>2
  <2> DEFINE o == CHOOSE o \in WithId(forwarded[i].id) : TRUE
  <2>2. UNCHANGED ans \/ ans' = [pc |-> "found", o |-> o, client |-> forwarded[i].client,
                                  state |-> s, remove |-> forwarded[i].lost]
    BY <2>1 DEF SubscribeReply
  <2> HIDE DEF o
  <2> QED
    BY <1>1, <2>2 DEF AnsInv, States
<1>3. CASE SetState \/ RemoveChild \/ Notify
  BY <1>3 DEF AnsInv, SetState, RemoveChild, Notify
<1>4. CASE Finish
  BY <1>4 DEF AnsInv, Finish
<1> QED
  BY <1>1, <1>2, <1>3, <1>4 DEF Next, SdStep, AnswerStep, TimerStep, Reply, vars, on_message, DropSubscription,
     SkipEntry, StopSubscribe, SubscribeNew, SubscribeKnown, Decide, Complete, on_unsubscribe_ack,
     expire_subscriptions, ExpireSubscription, Elapse

\* Every step keeps the invariant.
LEMMA NextIInv ==
    ASSUME IInv, AnsInv, [Next]_vars
    PROVE  IInv'
<1>1. CASE \E m \in Messages, reboot \in BOOLEAN : on_message(m, reboot)
  BY <1>1, MessageStep
<1>2. CASE SdStep
  BY <1>2, DropStep, SkipStep, StopStep, NewStep, KnownStep, DecideStep, CompleteStep DEF SdStep
<1>3. CASE AnswerStep
  BY <1>3, ReplySteps, SetStep, NotifyStep DEF AnswerStep
<1>4. CASE TimerStep \/ expire_subscriptions(TRUE)
  BY <1>4, TimerSteps DEF TimerStep
<1>5. CASE \E o \in subscriptions_ : Elapse(o)
  BY <1>5, ElapseStep
<1>6. CASE UNCHANGED vars
  <2>1. UNCHANGED <<subs, acks, sd, mapVars>>
    BY <1>6 DEF vars, ackVars
  <2> QED
    BY <2>1, RemovalKeeps DEF mapVars
<1> QED
  BY <1>1, <1>2, <1>3, <1>4, <1>5, <1>6 DEF Next

\* Ids and objects stay in step in every behaviour of service discovery, the
\* replies and the timer.
THEOREM Invariance == Spec => [](IInv /\ AnsInv)
<1>1. Init => IInv /\ AnsInv
  BY InitIInv
<1>2. IInv /\ AnsInv /\ [Next]_vars => (IInv /\ AnsInv)'
  BY NextIInv, NextAnsInv
<1> QED
  BY <1>1, <1>2, PTL DEF Spec

\* The count is_remote_subscription_limit_reached reads never exceeds the
\* subscriptions in the map.
THEOREM CountNeverExceedsMap == Spec => []NoFalseRefusal
<1>1. IInv /\ AnsInv => NoFalseRefusal
  BY DEF IInv, CountInv
<1> QED
  BY <1>1, Invariance, PTL

-----------------------------------------------------------------------------
(* What is acknowledged was accepted                                       *)

\* Every state ACKED stands for a client the application accepted, for the subscriber
\* of the object.
Backed(s, acc) ==
    \A o \in 1..Len(s) : \A c \in Clients : s[o].state[c] = "ACKED" => <<s[o].ep, c>> \in acc

\* A parent is an object of the same subscriber: a reply is noted in both.
Family(s) ==
    \A o \in 1..Len(s) : s[o].parent # 0 => s[o].parent \in 1..Len(s) /\ s[s[o].parent].ep = s[o].ep

\* The objects the threads are at exist; the one that is decided about is of the
\* subscriber of the existing one.
Places ==
    /\ ans.pc # "idle" => ans.o \in 1..Len(subs)
    /\ sd.pc = "decide" => sd.existing \in 1..Len(subs) /\ subs[sd.existing].ep = subs[Len(subs)].ep

Origin == Backed(subs, accepted) /\ Family(subs) /\ Places

\* The objects t are those of s; none gains a state ACKED that acc does not back.
Stays(s, t, acc) ==
    /\ Len(t) = Len(s)
    /\ \A o \in 1..Len(s) : /\ t[o].ep = s[o].ep /\ t[o].parent = s[o].parent
                           /\ \A c \in Clients : t[o].state[c] = "ACKED" => <<s[o].ep, c>> \in acc

\* A reply is noted for its client alone.
LEMMA SetAcked ==
    ASSUME NEW s \in Subscription, NEW c, NEW v
    PROVE  LET t == set_client_state(s, c, v)
           IN  /\ t.ep = s.ep /\ t.parent = s.parent
               /\ \A d \in Clients : t.state[d] = "ACKED" => s.state[d] = "ACKED" \/ (d = c /\ v = "ACKED")
BY DEF set_client_state, Subscription

\* Renewing and removing clients acknowledges none.
LEMMA UpdateAcked ==
    ASSUME NEW s \in Subscription, NEW clients
    PROVE  /\ renew(s, clients).ep = s.ep /\ renew(s, clients).parent = s.parent
           /\ remove(s, clients).ep = s.ep /\ remove(s, clients).parent = s.parent
           /\ \A c \in Clients : renew(s, clients).state[c] = "ACKED" => s.state[c] = "ACKED"
           /\ \A c \in Clients : remove(s, clients).state[c] = "ACKED" => s.state[c] = "ACKED"
BY DEF renew, remove, Subscription

\* States that are copied come from the object that is kept.
LEMMA CopyAcked ==
    ASSUME NEW s \in Subscription, NEW from \in Subscription
    PROVE  /\ CopyStates(s, from).ep = s.ep /\ CopyStates(s, from).parent = s.parent
           /\ \A c \in Clients : CopyStates(s, from).state[c] = "ACKED" => from.state[c] = "ACKED"
BY DEF CopyStates, Subscription

\* Nothing changes.
LEMMA StaysSame ==
    ASSUME NEW s, NEW acc, Backed(s, acc)
    PROVE  Stays(s, s, acc)
BY DEF Stays, Backed

\* An object is replaced.
LEMMA StaysReplaced ==
    ASSUME NEW s \in Seq(Subscription), NEW acc, Backed(s, acc), NEW p, NEW r,
           p \in 1..Len(s) => /\ r.ep = s[p].ep /\ r.parent = s[p].parent
                              /\ \A c \in Clients : r.state[c] = "ACKED" => <<s[p].ep, c>> \in acc
    PROVE  Stays(s, [s EXCEPT ![p] = r], acc)
<1>1. DOMAIN s = 1..Len(s) /\ Len(s) \in Nat
  OBVIOUS
<1>2. Len([s EXCEPT ![p] = r]) = Len(s)
  BY <1>1
<1>3. \A o \in 1..Len(s) : [s EXCEPT ![p] = r][o] = IF o = p THEN r ELSE s[o]
  BY <1>1
<1> QED BY <1>2, <1>3 DEF Stays, Backed

\* One change after the other.
LEMMA StaysTwice ==
    ASSUME NEW s, NEW t, NEW u, NEW acc, Stays(s, t, acc), Stays(t, u, acc)
    PROVE  Stays(s, u, acc)
BY DEF Stays

\* Backing follows.
LEMMA StaysBacked ==
    ASSUME NEW s, NEW t, NEW acc, Stays(s, t, acc)
    PROVE  Backed(t, acc) /\ (Family(s) => Family(t))
BY DEF Stays, Backed, Family

\* A step that changes no subscriber of an object and begins neither to decide nor to
\* handle a reply.
LEMMA StaysKeeps ==
    ASSUME Origin, Stays(subs, subs', accepted'),
           sd'.pc = "decide" => sd' = sd, ans'.pc # "idle" => ans.pc # "idle" /\ ans'.o = ans.o
    PROVE  Origin'
<1>1. Backed(subs', accepted') /\ Family(subs')
  BY StaysBacked DEF Origin
<1>2. Places'
  <2>1. sd'.pc = "decide" => sd'.existing \in 1..Len(subs') /\ subs'[sd'.existing].ep = subs'[Len(subs')].ep
    <3> SUFFICES ASSUME sd'.pc = "decide" PROVE sd'.existing \in 1..Len(subs') /\ subs'[sd'.existing].ep = subs'[Len(subs')].ep
      OBVIOUS
    <3>1. sd' = sd
      OBVIOUS
    <3>2. sd.existing \in 1..Len(subs) /\ subs[sd.existing].ep = subs[Len(subs)].ep
      BY <3>1 DEF Origin, Places
    <3>3. Len(subs) \in 1..Len(subs)
      BY <3>2
    <3> QED BY <3>1, <3>2, <3>3 DEF Stays
  <2>2. ans'.pc # "idle" => ans'.o \in 1..Len(subs')
    BY DEF Stays, Origin, Places
  <2> QED BY <2>1, <2>2 DEF Places
<1> QED BY <1>1, <1>2 DEF Origin

\* The first of the map that equals a subscription of e is one of e.
LEMMA FirstIsOf ==
    ASSUME IInv, NEW e, Equal(e) # {}
    PROVE  First(e) \in 1..Len(subs) /\ subs[First(e)] \in Subscription /\ subs[First(e)].ep = e
<1>1. \A o \in subscriptions_ : o \in 1..Len(subs) /\ subs[o] \in Subscription
  BY DEF IInv, IdInv, ObjectsInv
<1>2. \A o \in Equal(e) : o \in subscriptions_ /\ subs[o].id \in Nat /\ subs[o].ep = e
  BY <1>1 DEF Equal, Subscription
<1> DEFINE T == {subs[o].id : o \in Equal(e)}
<1>3. T \subseteq Nat /\ T # {}
  BY <1>2
<1>4. \E x \in T : \A y \in T : x <= y
  <2> HIDE DEF T
  <2> QED
    BY <1>3, SmallestId
<1>5. \E o \in Equal(e) : \A p \in Equal(e) : subs[o].id <= subs[p].id
  BY <1>4
<1> DEFINE P(o) == \A p \in Equal(e) : subs[o].id <= subs[p].id
<1>6. (\E o \in Equal(e) : P(o)) /\ First(e) = CHOOSE o \in Equal(e) : P(o)
  BY <1>5 DEF First
<1> HIDE DEF P
<1>7. First(e) \in Equal(e)
  BY <1>6
<1> QED BY <1>1, <1>2, <1>7

\* Withdrawing clients of one subscriber from another object of it.
LEMMA WithdrawStays ==
    ASSUME NEW s \in Seq(Subscription), NEW acc, Backed(s, acc), NEW o, NEW p \in 1..Len(s),
           s[o].ep = s[p].ep, NEW clients
    PROVE  Stays(s, Withdraw(s, o, p, remove(s[p], clients)), acc)
<1> DEFINE left == remove(s[p], clients)
           r == CopyStates(s[o], left)
           t == [s EXCEPT ![o] = r]
<1>1. s[p] \in Subscription /\ (o \in 1..Len(s) => s[o] \in Subscription)
  BY ElementOf
<1>2. /\ left \in Subscription /\ left.ep = s[p].ep /\ left.parent = s[p].parent
      /\ \A c \in Clients : left.state[c] = "ACKED" => <<s[p].ep, c>> \in acc
  BY <1>1, RemoveType, UpdateAcked DEF Backed
<1> HIDE DEF left
<1>3. o \in 1..Len(s) => /\ r \in Subscription /\ r.ep = s[o].ep /\ r.parent = s[o].parent
                          /\ \A c \in Clients : r.state[c] = "ACKED" => <<s[o].ep, c>> \in acc
  <2> SUFFICES ASSUME o \in 1..Len(s)
               PROVE  /\ r \in Subscription /\ r.ep = s[o].ep /\ r.parent = s[o].parent
                      /\ \A c \in Clients : r.state[c] = "ACKED" => <<s[o].ep, c>> \in acc
    OBVIOUS
  <2>1. s[o] \in Subscription
    BY <1>1
  <2>2. r \in Subscription
    BY <1>2, <2>1, CopyType
  <2>3. /\ r.ep = s[o].ep /\ r.parent = s[o].parent
        /\ \A c \in Clients : r.state[c] = "ACKED" => left.state[c] = "ACKED"
    BY <1>2, <2>1, CopyAcked
  <2> QED
    BY <1>2, <2>2, <2>3
<1> HIDE DEF r
<1>4. Stays(s, t, acc) /\ t \in Seq(Subscription)
  <2>1. Stays(s, t, acc)
    BY <1>3, StaysReplaced
  <2>2. o \in 1..Len(s) => r \in Subscription
    BY <1>3
  <2>3. t \in Seq(Subscription)
    BY <2>2, ReplaceInSeq
  <2> QED
    BY <2>1, <2>3
<1> HIDE DEF t
<1>5. Backed(t, acc) /\ p \in 1..Len(t) /\ t[p].ep = s[p].ep /\ t[p].parent = s[p].parent
  BY <1>4, StaysBacked DEF Stays
<1>6. Stays(t, [t EXCEPT ![p] = left], acc)
  <2>1. p \in 1..Len(t) => /\ left.ep = t[p].ep /\ left.parent = t[p].parent
                           /\ \A c \in Clients : left.state[c] = "ACKED" => <<t[p].ep, c>> \in acc
    BY <1>2, <1>5
  <2> QED
    BY <1>4, <1>5, <2>1, StaysReplaced
<1>7. Withdraw(s, o, p, left) = [t EXCEPT ![p] = left]
  BY DEF t, r, Withdraw
<1> QED BY <1>4, <1>6, <1>7, StaysTwice DEF left

\* on_remote_unsubscribe, the objects being s.
LEMMA UnsubscribeStays ==
    ASSUME IInv, NEW o, NEW s \in Seq(Subscription), on_remote_unsubscribe(o, s), Backed(s, accepted),
           Len(subs) <= Len(s), \A q \in 1..Len(subs) : s[q] = subs[q]
    PROVE  Stays(s, subs', accepted)
<1>1. CASE Equal(s[o].ep) = {}
  <2>1. subs' = s
    BY <1>1 DEF on_remote_unsubscribe
  <2> QED BY <2>1, StaysSame
<1>2. CASE Equal(s[o].ep) # {}
  <2> DEFINE p == First(s[o].ep)
  <2>1. subs' = Withdraw(s, o, p, remove(s[p], get_clients(s[o])))
    BY <1>2 DEF on_remote_unsubscribe
  <2>2. p \in 1..Len(subs) /\ subs[p].ep = s[o].ep
    BY <1>2, FirstIsOf
  <2> HIDE DEF p
  <2>3. p \in 1..Len(s) /\ s[p].ep = s[o].ep
    <3>1. Len(subs) \in Nat /\ Len(s) \in Nat
      BY DEF IInv, ObjectsInv
    <3>2. s[p] = subs[p]
      BY <2>2
    <3>3. p \in 1..Len(s)
      BY <2>2, <3>1
    <3> QED
      BY <2>2, <3>2, <3>3
  <2> QED BY <2>1, <2>3, WithdrawStays
<1> QED BY <1>1, <1>2

\* What an answer says of an object is what its states say.
LEMMA AcknowledgeStays ==
    ASSUME IInv, Backed(subs, accepted), AcknowledgedWasAccepted, NEW a, NEW complete,
           update_acknowledgement(a, complete), accepted' = accepted
    PROVE  Stays(subs, subs', accepted) /\ AcknowledgedWasAccepted'
<1>1. subs \in Seq(Subscription) /\ DOMAIN subs = 1..Len(subs) /\ Len(subs) \in Nat
  BY DEF IInv, ObjectsInv
<1>2. CASE subs' = subs /\ told' = told
  BY <1>2, StaysSame DEF AcknowledgedWasAccepted
<1>3. CASE subs' = subs /\ told' = told \cup UNION {Answer(o) : o \in {p \in Of(a) : subs[p].ttl > 0}}
  <2>1. ASSUME NEW o \in Of(a), NEW t \in Answer(o), t[3] = "ACKED" PROVE <<t[1], t[2]>> \in accepted
    <3>1. o \in 1..Len(subs)
      BY <1>1 DEF Of
    <3>2. PICK c \in Clients : t = <<subs[o].ep, c, IF subs[o].state[c] = "ACKED" THEN "ACKED" ELSE "NACKED">>
      BY DEF Answer, get_clients
    <3>3. subs[o].state[c] = "ACKED" /\ t[1] = subs[o].ep /\ t[2] = c
      BY <2>1, <3>2
    <3> QED BY <3>1, <3>3 DEF Backed
  <2>2. AcknowledgedWasAccepted'
    BY <1>3, <2>1 DEF AcknowledgedWasAccepted
  <2> QED BY <1>3, <2>2, StaysSame
<1>4. ASSUME told' = told, NEW parent,
             subs' = [p \in DOMAIN subs |->
                        IF parent \in pending_remote_subscriptions_ /\ p # parent /\ subs[p].ack = subs[parent].ack
                        THEN [subs[p] EXCEPT !.answers = @ + 1] ELSE subs[p]]
      PROVE  Stays(subs, subs', accepted) /\ AcknowledgedWasAccepted'
  <2>1. Len(subs') = Len(subs)
    BY <1>1, <1>4
  <2>2. ASSUME NEW p \in 1..Len(subs)
        PROVE  subs'[p].ep = subs[p].ep /\ subs'[p].parent = subs[p].parent /\ subs'[p].state = subs[p].state
    <3>1. subs[p] \in Subscription
      BY <1>1, ElementOf
    <3>2. subs'[p] \in {subs[p], [subs[p] EXCEPT !.answers = @ + 1]}
      BY <1>1, <1>4
    <3> QED BY <3>1, <3>2 DEF Subscription
  <2> QED BY <1>4, <2>1, <2>2 DEF Stays, Backed, AcknowledgedWasAccepted
<1> QED BY <1>2, <1>3, <1>4 DEF update_acknowledgement, send_subscription_ack
\* A step that leaves the objects alone.
LEMMA QuietOrigin ==
    ASSUME Origin, UNCHANGED <<subs, accepted>>,
           sd'.pc = "decide" => sd' = sd, ans'.pc # "idle" => ans.pc # "idle" /\ ans'.o = ans.o
    PROVE  Origin'
<1>1. Stays(subs, subs', accepted')
  BY StaysSame DEF Origin
<1> QED
  BY <1>1, StaysKeeps

\* A new object is acknowledged nothing the application did not accept.
LEMMA AppendBacked ==
    ASSUME NEW s \in Seq(Subscription), NEW new, NEW acc, Backed(s, acc), Family(s), new.parent = 0,
           \A c \in Clients : new.state[c] = "ACKED" => <<new.ep, c>> \in acc
    PROVE  Backed(Append(s, new), acc) /\ Family(Append(s, new))
<1> DEFINE t == Append(s, new)
<1>1. /\ Len(s) \in Nat /\ Len(t) = Len(s) + 1 /\ t[Len(s) + 1] = new
      /\ \A o \in 1..Len(s) : t[o] = s[o]
  OBVIOUS
<1> HIDE DEF t
<1>2. \A o \in 1..Len(t) : o \in 1..Len(s) \/ o = Len(s) + 1
  BY <1>1
<1>3. Backed(t, acc)
  BY <1>1, <1>2 DEF Backed
<1>4. ASSUME NEW o \in 1..Len(t), t[o].parent # 0 PROVE t[o].parent \in 1..Len(t) /\ t[t[o].parent].ep = t[o].ep
  <2>1. o \in 1..Len(s) /\ t[o] = s[o]
    BY <1>1, <1>2, <1>4
  <2>2. s[o].parent \in 1..Len(s) /\ s[s[o].parent].ep = s[o].ep
    BY <1>4, <2>1 DEF Family
  <2>3. s[o].parent \in 1..Len(t)
    BY <1>1, <2>2
  <2> QED
    BY <1>1, <2>1, <2>2, <2>3
<1> QED
  BY <1>3, <1>4 DEF Family, t

\* The object made for an entry is its subscriber's, and acknowledged nothing yet.
LEMMA NewOrigin ==
    ASSUME NEW e \in Entries, NEW a
    PROVE  LET new == NewSubscription(e, a) IN
           new.ep = e.ep /\ new.parent = 0 /\ \A c \in Clients : new.state[c] # "ACKED"
BY DEF NewSubscription

\* Dropping a subscription after a reboot.
LEMMA DropOrigin ==
    ASSUME IInv, Origin, DropSubscription
    PROVE  Origin'
<1>1. PICK o \in sd.drop : on_remote_unsubscribe(o, subs) /\ sd' = [sd EXCEPT !.drop = @ \ {o}]
  BY DEF DropSubscription
<1>2. subs \in Seq(Subscription) /\ Len(subs) <= Len(subs)
  BY DEF IInv, ObjectsInv
<1>3. Stays(subs, subs', accepted) /\ accepted' = accepted /\ ans' = ans
  BY <1>1, <1>2, UnsubscribeStays DEF Origin, DropSubscription
<1>4. sd'.pc # "decide"
  BY <1>1 DEF DropSubscription, IInv, SdInv
<1> QED
  BY <1>3, <1>4, StaysKeeps

\* The object of a StopSubscribe.
LEMMA StopOrigin ==
    ASSUME IInv, Origin, StopSubscribe
    PROVE  Origin'
<1> DEFINE new == NewSubscription(Head(sd.todo), Len(acks))
           s == Append(subs, new)
<1>1. /\ sd.pc = "entries" /\ sd.todo # <<>> /\ on_remote_unsubscribe(Object, s)
      /\ sd' = [sd EXCEPT !.todo = Tail(@)] /\ accepted' = accepted /\ ans' = ans
  BY DEF StopSubscribe, NextEntry
<1>2. Head(sd.todo) \in Entries /\ Len(acks) \in Nat /\ subs \in Seq(Subscription) /\ Len(subs) \in Nat
  BY <1>1, TailKeeps DEF IInv, ObjectsInv
<1>3. new \in Subscription /\ new.parent = 0 /\ \A c \in Clients : new.state[c] # "ACKED"
  BY <1>2, NewType, NewOrigin
<1> HIDE DEF new
<1>4. s \in Seq(Subscription) /\ Len(subs) <= Len(s) /\ \A q \in 1..Len(subs) : s[q] = subs[q]
  BY <1>2, <1>3
<1>5. Backed(s, accepted) /\ Family(s)
  BY <1>2, <1>3, AppendBacked DEF Origin
<1> HIDE DEF s
<1>6. Stays(s, subs', accepted)
  BY <1>1, <1>4, <1>5, UnsubscribeStays
<1>7. Backed(subs', accepted') /\ Family(subs')
  BY <1>1, <1>5, <1>6, StaysBacked
<1>8. sd'.pc # "decide"
  BY <1>1 DEF IInv, SdInv
<1>9. ans.pc # "idle" => ans.o \in 1..Len(subs')
  <2>1. Len(subs') = Len(s) /\ Len(s) \in Nat
    BY <1>4, <1>6 DEF Stays
  <2>2. ans.pc # "idle" => ans.o \in 1..Len(subs)
    BY DEF Origin, Places
  <2> QED
    BY <1>2, <1>4, <2>1, <2>2
<1> QED
  BY <1>1, <1>7, <1>8, <1>9 DEF Origin, Places

\* A step that appends one object, s being the others, and does not begin to decide.
LEMMA AppendOrigin ==
    ASSUME IInv, Origin, NEW s \in Seq(Subscription), Stays(subs, s, accepted), NEW new,
           subs' = Append(s, new), new.parent = 0,
           \A c \in Clients : new.state[c] = "ACKED" => <<new.ep, c>> \in accepted,
           UNCHANGED <<accepted, ans>>
    PROVE  /\ Backed(subs', accepted') /\ Family(subs')
           /\ ans'.pc # "idle" => ans'.o \in 1..Len(subs')
           /\ Len(subs') = Len(subs) + 1 /\ Len(subs) \in Nat
           /\ subs'[Len(subs')] = new /\ \A o \in 1..Len(subs) : subs'[o] = s[o]
<1>1. Len(subs) \in Nat /\ Len(s) = Len(subs)
  BY DEF IInv, ObjectsInv, Stays
<1>2. Backed(s, accepted) /\ Family(s)
  BY StaysBacked DEF Origin
<1>3. Backed(subs', accepted') /\ Family(subs')
  BY <1>2, AppendBacked
<1>4. Len(subs') = Len(subs) + 1 /\ subs'[Len(subs')] = new /\ \A o \in 1..Len(subs) : subs'[o] = s[o]
  BY <1>1
<1>5. ans'.pc # "idle" => ans'.o \in 1..Len(subs')
  BY <1>1, <1>4 DEF Origin, Places
<1> QED
  BY <1>1, <1>3, <1>4, <1>5

\* The object of a new subscriber: pending, or refused.
LEMMA SubscribeNewOrigin ==
    ASSUME IInv, Origin, SubscribeNew
    PROVE  Origin'
<1> DEFINE new == NewSubscription(Head(sd.todo), Len(acks))
           refused == [new EXCEPT !.state = [c \in Clients |-> IF @[c] = "absent" THEN "absent" ELSE "NACKED"]]
           entered == [new EXCEPT !.id = update_id]
<1>1. /\ sd.pc = "entries" /\ sd.todo # <<>> /\ sd' = [sd EXCEPT !.todo = Tail(@)]
      /\ UNCHANGED <<accepted, ans>>
      /\ subs' = Append(subs, refused) \/ subs' = Append(subs, entered)
  BY DEF SubscribeNew, NextEntry
<1>2. Head(sd.todo) \in Entries /\ Len(acks) \in Nat /\ subs \in Seq(Subscription)
  BY <1>1, TailKeeps DEF IInv, ObjectsInv
<1>3. new \in Subscription /\ new.parent = 0 /\ \A c \in Clients : new.state[c] # "ACKED"
  BY <1>2, NewType, NewOrigin
<1> HIDE DEF new
<1>4. /\ refused.parent = 0 /\ \A c \in Clients : refused.state[c] # "ACKED"
      /\ entered.parent = 0 /\ \A c \in Clients : entered.state[c] # "ACKED"
  BY <1>3 DEF Subscription
<1> HIDE DEF refused, entered
<1>5. Stays(subs, subs, accepted)
  BY StaysSame DEF Origin
<1>6. Backed(subs', accepted') /\ Family(subs') /\ (ans'.pc # "idle" => ans'.o \in 1..Len(subs'))
  BY <1>1, <1>2, <1>4, <1>5, AppendOrigin
<1>7. sd'.pc # "decide"
  BY <1>1 DEF IInv, SdInv
<1> QED
  BY <1>6, <1>7 DEF Origin, Places

\* The object of a known subscriber takes its states from the one that is kept.
LEMMA SubscribeKnownOrigin ==
    ASSUME IInv, Origin, SubscribeKnown
    PROVE  Origin'
<1> DEFINE new == NewSubscription(Head(sd.todo), Len(acks))
           p == First(new.ep)
           kept == renew(subs[p], get_clients(new))
           copy == CopyStates(new, kept)
           r == [copy EXCEPT !.state = [c \in Clients |-> IF @[c] = "UNKNOWN" THEN "PENDING" ELSE @[c]]]
           t == [subs EXCEPT ![p] = kept]
<1>1. /\ sd.pc = "entries" /\ sd.todo # <<>> /\ sd'.pc = "decide" /\ sd'.existing = p
      /\ Equal(new.ep) # {} /\ UNCHANGED <<accepted, ans>> /\ subs' = Append(t, r)
  BY DEF SubscribeKnown, NextEntry, IInv, SdInv
<1>2. Head(sd.todo) \in Entries /\ Len(acks) \in Nat /\ subs \in Seq(Subscription)
  <2>1. sd.todo # <<>>
    BY <1>1
  <2> QED
    BY <2>1, TailKeeps DEF IInv, ObjectsInv
<1>3. new \in Subscription /\ new.parent = 0
  BY <1>2, NewType, NewOrigin
<1>4. p \in 1..Len(subs) /\ subs[p] \in Subscription /\ subs[p].ep = new.ep
  BY <1>1, FirstIsOf
<1> HIDE DEF new, p
<1>5. /\ kept \in Subscription /\ kept.ep = subs[p].ep /\ kept.parent = subs[p].parent
      /\ \A c \in Clients : kept.state[c] = "ACKED" => subs[p].state[c] = "ACKED"
  BY <1>4, RenewType, UpdateAcked
<1> HIDE DEF kept
<1>6. copy \in Subscription /\ copy.ep = new.ep /\ copy.parent = new.parent
      /\ \A c \in Clients : copy.state[c] = "ACKED" => kept.state[c] = "ACKED"
  BY <1>3, <1>5, CopyType, CopyAcked
<1> HIDE DEF copy
<1>7. r.ep = copy.ep /\ r.parent = copy.parent /\ \A c \in Clients : r.state[c] = "ACKED" => copy.state[c] = "ACKED"
  BY <1>6 DEF Subscription
<1> HIDE DEF r
<1>8. \A c \in Clients : subs[p].state[c] = "ACKED" => <<subs[p].ep, c>> \in accepted
  BY <1>4 DEF Origin, Backed
<1>9. \A c \in Clients : r.state[c] = "ACKED" => <<r.ep, c>> \in accepted
  BY <1>4, <1>5, <1>6, <1>7, <1>8
<1>10. Stays(subs, t, accepted) /\ t \in Seq(Subscription)
  <2>1. p \in 1..Len(subs) => /\ kept.ep = subs[p].ep /\ kept.parent = subs[p].parent
                              /\ \A c \in Clients : kept.state[c] = "ACKED" => <<subs[p].ep, c>> \in accepted
    BY <1>5, <1>8
  <2>2. Backed(subs, accepted)
    BY DEF Origin
  <2>3. Stays(subs, t, accepted)
    BY <1>2, <2>1, <2>2, StaysReplaced
  <2>4. t \in Seq(Subscription)
    BY <1>2, <1>5, ReplaceInSeq
  <2> QED
    BY <2>3, <2>4
<1> HIDE DEF t
<1>11. /\ Backed(subs', accepted') /\ Family(subs') /\ (ans'.pc # "idle" => ans'.o \in 1..Len(subs'))
       /\ Len(subs') = Len(subs) + 1 /\ Len(subs) \in Nat
       /\ subs'[Len(subs')] = r /\ \A o \in 1..Len(subs) : subs'[o] = t[o]
  BY <1>1, <1>3, <1>6, <1>7, <1>9, <1>10, AppendOrigin
<1>12. sd'.existing \in 1..Len(subs') /\ subs'[sd'.existing].ep = subs'[Len(subs')].ep
  <2>1. subs'[p].ep = subs[p].ep
    BY <1>4, <1>10, <1>11 DEF Stays
  <2>2. p \in 1..Len(subs')
    BY <1>4, <1>11
  <2> QED
    BY <1>1, <1>4, <1>6, <1>7, <1>11, <2>1, <2>2
<1> QED
  BY <1>11, <1>12 DEF Origin, Places

\* Deciding changes no subscriber and no state; the newest object may get its parent.
LEMMA ParentOrigin ==
    ASSUME IInv, Origin, sd.pc = "decide", sd'.pc # "decide", UNCHANGED <<accepted, ans>>, Len(subs') = Len(subs),
           \A q \in 1..Len(subs) :
               /\ subs'[q].ep = subs[q].ep /\ subs'[q].state = subs[q].state
               /\ \/ subs'[q].parent = subs[q].parent
                  \/ q = Len(subs) /\ subs'[q].parent = sd.existing
    PROVE  Origin'
<1>1. Backed(subs', accepted')
  BY DEF Origin, Backed
<1>2. ASSUME NEW q \in 1..Len(subs), subs'[q].parent # 0
      PROVE  subs'[q].parent \in 1..Len(subs) /\ subs'[subs'[q].parent].ep = subs'[q].ep
  <2>1. CASE subs'[q].parent = subs[q].parent
    <3>1. subs[q].parent \in 1..Len(subs) /\ subs[subs[q].parent].ep = subs[q].ep
      BY <1>2, <2>1 DEF Origin, Family
    <3> QED
      BY <2>1, <3>1
  <2>2. CASE q = Len(subs) /\ subs'[q].parent = sd.existing
    <3>1. sd.existing \in 1..Len(subs) /\ subs[sd.existing].ep = subs[q].ep
      BY <2>2 DEF Origin, Places
    <3> QED
      BY <2>2, <3>1
  <2> QED
    BY <2>1, <2>2
<1>3. Family(subs')
  BY <1>2 DEF Family
<1> QED
  BY <1>1, <1>3 DEF Origin, Places

\* The existing object becomes the parent of the newest one, or answers for it.
LEMMA DecideOrigin ==
    ASSUME IInv, Origin, Decide
    PROVE  Origin'
<1> DEFINE o == Len(subs)
           e == sd.existing
<1>1. /\ sd.pc = "decide" /\ sd' = [sd EXCEPT !.pc = "entries", !.todo = Tail(@), !.existing = 0, !.added = {}]
      /\ UNCHANGED <<accepted, ans>> /\ subs \in Seq(Subscription)
      /\ \/ subs' = [subs EXCEPT ![o].parent = e, ![o].id = update_id]
         \/ subs' = [[subs EXCEPT ![e].answers = @ + 1] EXCEPT ![o] = [@ EXCEPT !.parent = e, !.answers = 0]]
         \/ subs' = subs
  BY DEF Decide, IInv, ObjectsInv
<1>2. sd'.pc # "decide" /\ DOMAIN subs = 1..Len(subs)
  BY <1>1 DEF IInv, SdInv
<1>3. \A q \in 1..Len(subs) : subs[q] \in Subscription
  BY <1>1, ElementOf
<1>4. CASE subs' = [subs EXCEPT ![o].parent = e, ![o].id = update_id]
  <2>1. Len(subs') = Len(subs)
    BY <1>1, <1>4
  <2>2. \A q \in 1..Len(subs) :
          subs'[q] = IF q = o THEN [[subs[q] EXCEPT !.parent = e] EXCEPT !.id = update_id] ELSE subs[q]
    BY <1>2, <1>4
  <2> HIDE DEF e
  <2>3. \A q \in 1..Len(subs) :
          /\ subs'[q].ep = subs[q].ep /\ subs'[q].state = subs[q].state
          /\ subs'[q].parent = subs[q].parent \/ (q = Len(subs) /\ subs'[q].parent = e)
    BY <1>3, <2>2 DEF Subscription
  <2> QED
    BY <1>1, <1>2, <2>1, <2>3, ParentOrigin DEF e
<1>5. CASE subs' = [[subs EXCEPT ![e].answers = @ + 1] EXCEPT ![o] = [@ EXCEPT !.parent = e, !.answers = 0]]
  <2> DEFINE t == [subs EXCEPT ![e].answers = @ + 1]
  <2>1. Len(subs') = Len(subs)
    BY <1>1, <1>5
  <2>2. \A q \in 1..Len(subs) : t[q] = IF q = e THEN [subs[q] EXCEPT !.answers = @ + 1] ELSE subs[q]
    BY <1>2
  <2>3. \A q \in 1..Len(subs) :
          subs'[q] = IF q = o THEN [[t[q] EXCEPT !.parent = e] EXCEPT !.answers = 0] ELSE t[q]
    BY <1>2, <1>5
  <2> HIDE DEF e, t
  <2>4. \A q \in 1..Len(subs) :
          /\ t[q].ep = subs[q].ep /\ t[q].state = subs[q].state /\ t[q].parent = subs[q].parent
          /\ DOMAIN t[q] = DOMAIN subs[q]
    BY <1>3, <2>2 DEF Subscription
  <2>5. \A q \in 1..Len(subs) :
          /\ subs'[q].ep = subs[q].ep /\ subs'[q].state = subs[q].state
          /\ subs'[q].parent = subs[q].parent \/ (q = Len(subs) /\ subs'[q].parent = e)
    BY <1>3, <2>3, <2>4 DEF Subscription
  <2> QED
    BY <1>1, <1>2, <2>1, <2>5, ParentOrigin DEF e
<1>6. CASE subs' = subs
  BY <1>1, <1>2, <1>6, ParentOrigin
<1> QED
  BY <1>1, <1>4, <1>5, <1>6

\* The last entry of a message, or a reply, may answer it.
LEMMA AnswerOrigin ==
    ASSUME IInv, AnsInv, Origin, AcknowledgedWasAccepted, Complete \/ Notify
    PROVE  Origin' /\ AcknowledgedWasAccepted'
<1>1. Backed(subs, accepted)
  BY DEF Origin
<1>2. CASE Complete
  <2>1. Stays(subs, subs', accepted) /\ AcknowledgedWasAccepted'
    BY <1>1, <1>2, AcknowledgeStays DEF Complete
  <2>2. accepted' = accepted /\ ans' = ans /\ sd'.pc # "decide"
    BY <1>2 DEF Complete, Idle
  <2> QED
    BY <2>1, <2>2, StaysKeeps
<1>3. CASE Notify
  <2>1. accepted' = accepted /\ sd' = sd /\ ans.pc = "notify" /\ ans' = [ans EXCEPT !.pc = "remove"]
    BY <1>3 DEF Notify
  <2>2. ans'.o = ans.o
    BY <2>1 DEF AnsInv
  <2>3. Stays(subs, subs', accepted) /\ AcknowledgedWasAccepted'
    <3> DEFINE a == subs[ans.o].ack
    <3>1. CASE update_acknowledgement(a, acks[a].complete)
      BY <1>1, <2>1, <3>1, AcknowledgeStays
    <3>2. CASE UNCHANGED <<subs, ackVars>>
      BY <1>1, <2>1, <3>2, StaysSame DEF ackVars, AcknowledgedWasAccepted
    <3> QED
      BY <1>3, <3>1, <3>2 DEF Notify
  <2> QED
    BY <2>1, <2>2, <2>3, StaysKeeps
<1> QED
  BY <1>2, <1>3

\* A reply is looked up: the object it is for is one of the map.
LEMMA ReplyOrigin ==
    ASSUME IInv, Origin, Reply
    PROVE  Origin'
<1>1. PICK i \in DOMAIN forwarded : on_unsubscribe_ack(i) \/ \E s \in {"ACKED", "NACKED"} : SubscribeReply(i, s)
  BY DEF Reply
<1>2. UNCHANGED <<subs, accepted, sd>>
  BY <1>1 DEF on_unsubscribe_ack, SubscribeReply
<1>3. CASE UNCHANGED ans
  BY <1>2, <1>3, QuietOrigin
<1>4. CASE ans' # ans
  <2> DEFINE o == CHOOSE o \in WithId(forwarded[i].id) : TRUE
  <2>1. PICK s \in {"ACKED", "NACKED"} : SubscribeReply(i, s)
    BY <1>1, <1>4 DEF on_unsubscribe_ack
  <2>2. WithId(forwarded[i].id) # {} /\ ans'.o = o
    BY <1>4, <2>1 DEF SubscribeReply
  <2>3. o \in subscriptions_
    BY <2>2 DEF WithId
  <2>4. ans'.o \in 1..Len(subs)
    BY <2>2, <2>3 DEF IInv, IdInv
  <2> QED
    BY <1>2, <2>4 DEF Origin, Places, Backed, Family
<1> QED
  BY <1>3, <1>4

\* The reply is noted in the object and in its parent, which are of the same subscriber.
LEMMA SetStateOrigin ==
    ASSUME IInv, AnsInv, Origin, SetState
    PROVE  Origin'
<1> DEFINE o == ans.o
           c == ans.client
           v == ans.state
           both == {o, get_parent(o)}
<1>1. /\ ans.pc = "found" /\ ans' = [ans EXCEPT !.pc = "set"] /\ sd' = sd
      /\ subs' = [q \in DOMAIN subs |-> IF q \in both THEN set_client_state(subs[q], c, v) ELSE subs[q]]
      /\ accepted' = IF v = "ACKED" THEN accepted \cup {<<subs[o].ep, c>>} ELSE accepted
  BY DEF SetState
<1>2. o \in 1..Len(subs) /\ ans'.o = o
  BY <1>1 DEF Origin, Places, AnsInv
<1>3. DOMAIN subs = 1..Len(subs) /\ Len(subs) \in Nat /\ subs \in Seq(Subscription)
  BY DEF IInv, ObjectsInv
<1>4. ASSUME NEW q \in 1..Len(subs), q \in both PROVE subs[q].ep = subs[o].ep
  <2>1. CASE q = o
    BY <2>1
  <2>2. CASE q # o
    <3>1. q = subs[o].parent /\ subs[o].parent # 0
      <4>1. q = get_parent(o) /\ q # 0
        BY <1>4, <2>2
      <4> QED
        BY <4>1 DEF get_parent
    <3> QED
      BY <1>2, <3>1 DEF Origin, Family
  <2> QED
    BY <2>1, <2>2
<1>5. Len(subs') = Len(subs)
  BY <1>1, <1>3
<1> HIDE DEF both
<1>6. ASSUME NEW q \in 1..Len(subs)
      PROVE  /\ subs'[q].ep = subs[q].ep /\ subs'[q].parent = subs[q].parent
             /\ \A d \in Clients : subs'[q].state[d] = "ACKED" => <<subs[q].ep, d>> \in accepted'
  <2>1. subs[q] \in Subscription /\ accepted \subseteq accepted'
    BY <1>1, <1>3, ElementOf
  <2>2. \A d \in Clients : subs[q].state[d] = "ACKED" => <<subs[q].ep, d>> \in accepted'
    BY <2>1 DEF Origin, Backed
  <2>3. CASE q \notin both
    BY <1>1, <1>3, <2>2, <2>3
  <2>4. CASE q \in both
    <3>1. subs'[q] = set_client_state(subs[q], c, v)
      BY <1>1, <1>3, <2>4
    <3>2. /\ subs'[q].ep = subs[q].ep /\ subs'[q].parent = subs[q].parent
          /\ \A d \in Clients : subs'[q].state[d] = "ACKED" =>
                subs[q].state[d] = "ACKED" \/ (d = c /\ v = "ACKED")
      BY <2>1, <3>1, SetAcked
    <3>3. v = "ACKED" => <<subs[q].ep, c>> \in accepted'
      BY <1>1, <1>4, <2>4
    <3> QED
      BY <2>2, <3>2, <3>3
  <2> QED
    BY <2>3, <2>4
<1>7. Stays(subs, subs', accepted')
  BY <1>5, <1>6 DEF Stays
<1> QED
  BY <1>1, <1>2, <1>7, StaysKeeps

\* Time passes.
LEMMA ElapseOrigin ==
    ASSUME IInv, Origin, NEW o \in subscriptions_, Elapse(o)
    PROVE  Origin'
<1> DEFINE r == [subs[o] EXCEPT !.expiration = [c \in Clients |-> IF @[c] = "fresh" THEN "old" ELSE @[c]]]
<1>1. subs' = [subs EXCEPT ![o] = r] /\ UNCHANGED <<accepted, sd, ans>>
  BY DEF Elapse
<1>2. subs \in Seq(Subscription) /\ o \in 1..Len(subs) /\ subs[o] \in Subscription
  BY DEF IInv, IdInv, ObjectsInv
<1>3. r.ep = subs[o].ep /\ r.parent = subs[o].parent /\ r.state = subs[o].state
  BY <1>2 DEF Subscription
<1> HIDE DEF r
<1>4. o \in 1..Len(subs) => /\ r.ep = subs[o].ep /\ r.parent = subs[o].parent
                            /\ \A c \in Clients : r.state[c] = "ACKED" => <<subs[o].ep, c>> \in accepted
  BY <1>3 DEF Origin, Backed
<1>5. Stays(subs, subs', accepted)
  BY <1>1, <1>2, <1>4, StaysReplaced DEF Origin
<1> QED
  BY <1>1, <1>5, StaysKeeps

\* The timer withdraws the clients of an expired subscription from the first that equals it.
LEMMA ExpireOrigin ==
    ASSUME IInv, Origin, NEW o, ExpireSubscription(o)
    PROVE  Origin'
<1> DEFINE p == First(subs[o].ep)
<1>1. UNCHANGED <<accepted, sd, ans>> /\ subs \in Seq(Subscription) /\ Backed(subs, accepted)
  BY DEF ExpireSubscription, IInv, ObjectsInv, Origin
<1>2. CASE Equal(subs[o].ep) = {}
  BY <1>1, <1>2, QuietOrigin DEF ExpireSubscription
<1>3. CASE Equal(subs[o].ep) # {}
  <2>1. subs' = Withdraw(subs, o, p, remove(subs[p], get_clients(subs[o])))
    BY <1>3 DEF ExpireSubscription
  <2>2. p \in 1..Len(subs) /\ subs[p].ep = subs[o].ep
    BY <1>3, FirstIsOf
  <2> HIDE DEF p
  <2>3. Stays(subs, subs', accepted)
    BY <1>1, <2>1, <2>2, WithdrawStays
  <2> QED
    BY <1>1, <2>3, StaysKeeps
<1> QED
  BY <1>2, <1>3

\* Every step keeps the origin of the states, and of what was told.
LEMMA NextOrigin ==
    ASSUME IInv, AnsInv, Origin, AcknowledgedWasAccepted, [Next]_vars
    PROVE  Origin' /\ AcknowledgedWasAccepted'
<1>1. CASE Complete \/ Notify
  BY <1>1, AnswerOrigin
<1>2. CASE ~(Complete \/ Notify)
  <2>1. told' = told /\ accepted \subseteq accepted'
    BY <1>2 DEF Next, SdStep, AnswerStep, TimerStep, Reply, vars, ackVars, on_message, DropSubscription,
       SkipEntry, StopSubscribe, SubscribeNew, SubscribeKnown, Decide, SubscribeReply, on_unsubscribe_ack,
       SetState, RemoveChild, Finish, expire_subscriptions, ExpireSubscription, Elapse
  <2>2. AcknowledgedWasAccepted'
    BY <2>1 DEF AcknowledgedWasAccepted
  <2>3. CASE \E m \in Messages, reboot \in BOOLEAN : on_message(m, reboot)
    <3>1. UNCHANGED <<subs, accepted>> /\ sd'.pc # "decide" /\ ans' = ans
      BY <2>3 DEF on_message, Idle
    <3> QED
      BY <2>2, <3>1, QuietOrigin
  <2>4. CASE SkipEntry
    <3>1. UNCHANGED <<subs, accepted>> /\ sd'.pc # "decide" /\ ans' = ans
      BY <2>4 DEF SkipEntry, NextEntry, IInv, SdInv
    <3> QED
      BY <2>2, <3>1, QuietOrigin
  <2>5. CASE RemoveChild \/ Finish
    <3>1. UNCHANGED <<subs, accepted>> /\ sd' = sd /\ (ans'.pc # "idle" => ans.pc # "idle" /\ ans'.o = ans.o)
      BY <2>5 DEF RemoveChild, Finish, AnsInv
    <3> QED
      BY <2>2, <3>1, QuietOrigin
  <2>6. CASE expire_subscriptions(FALSE) \/ expire_subscriptions(TRUE)
    <3>1. UNCHANGED <<subs, accepted>> /\ sd' = sd /\ ans' = ans
      BY <2>6 DEF expire_subscriptions
    <3> QED
      BY <2>2, <3>1, QuietOrigin
  <2>7. CASE UNCHANGED vars
    <3>1. UNCHANGED <<subs, accepted>> /\ sd' = sd /\ ans' = ans
      BY <2>7 DEF vars
    <3> QED
      BY <2>2, <3>1, QuietOrigin
  <2>8. Origin'
    BY <1>2, <2>3, <2>4, <2>5, <2>6, <2>7, DropOrigin, StopOrigin, SubscribeNewOrigin, SubscribeKnownOrigin,
       DecideOrigin, ReplyOrigin, SetStateOrigin, ElapseOrigin, ExpireOrigin
       DEF Next, SdStep, AnswerStep, TimerStep
  <2> QED
    BY <2>2, <2>8
<1> QED
  BY <1>1, <1>2

\* However messages, replies, reboots and the timer are interleaved, no answer
\* (send_subscription_ack) acknowledges a client of a subscriber that the application
\* did not accept for that subscriber (on_subscribe_ack): states only travel between
\* objects of one subscriber.
THEOREM AcknowledgedIsAccepted == Spec => []AcknowledgedWasAccepted
<1>1. Init => Origin /\ AcknowledgedWasAccepted
  BY DEF Init, Idle, Origin, Backed, Family, Places, AcknowledgedWasAccepted
<1>2. IInv /\ AnsInv /\ Origin /\ AcknowledgedWasAccepted /\ [Next]_vars => (Origin /\ AcknowledgedWasAccepted)'
  BY NextOrigin
<1> QED
  BY <1>1, <1>2, Invariance, PTL DEF Spec
============================================================================
