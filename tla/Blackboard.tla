----------------------------- MODULE Blackboard -----------------------------
(***************************************************************************)
(* The blackboard of one host: modules subscribe to categories of items,   *)
(* publishers call publishBBItem, and the blackboard calls every matching  *)
(* subscriber, then those of the parent categories.                        *)
(*                                                                         *)
(* A publication is a nest of calls: a subscriber may publish from its     *)
(* callback.  The calls in progress are a stack of frames, each a step of  *)
(* the loop of publishBBItem.  An item is passed by reference: a           *)
(* subscriber reads its present value.  Subscribing and unsubscribing      *)
(* happen outside of callbacks, as in every module of the framework.       *)
(***************************************************************************)
EXTENDS Integers, SequencesExt

CONSTANTS
    Client,
    Class, Parent, BBItem,   \* Parent[k] is the base class of k, BBItem the root
    Item, ClassOf, ScopeOf,  \* items published, each by its one owner
    Scope, AnyScope,         \* module ids; -1
    MaxChanges,              \* bound: changes of an item
    MaxDepth,                \* bound: publications in progress
    MaxSubscribers           \* bound: entries of all the lists

ASSUME BlackboardAssumption ==
    /\ BBItem \notin Class /\ Parent \in [Class -> Class \cup {BBItem}]
    /\ ClassOf \in [Item -> Class]
    /\ AnyScope \notin Scope /\ ScopeOf \in [Item -> Scope]
    /\ MaxChanges \in Nat /\ MaxDepth \in Nat /\ MaxSubscribers \in Nat

VARIABLES
    categoryDescriptions, \* the class of each category
    clientVector,         \* its subscribers, in the order they subscribed
    parentVector,         \* the category of its base class, 0 for none
    calls,                \* publications in progress: item, category, position
    stopped,              \* error(): the simulation ended
    value,                \* of each item, as a count of its changes
    seen,                 \* value of an item when a client last was called with it
    wants,                \* subscriptions the clients hold, in their own view
    due                   \* who had to be told of an item when it last changed

tables == <<categoryDescriptions, clientVector, parentVector>>
blackboardVars == <<tables, calls, stopped, value, seen, wants, due>>

BlackboardInit ==
    /\ categoryDescriptions = <<>> /\ clientVector = <<>> /\ parentVector = <<>>
    /\ calls = <<>> /\ stopped = FALSE
    /\ value = [i \in Item |-> 0]
    /\ seen = [ci \in Client \X Item |-> 0]
    /\ wants = {} /\ due = {}

\* A class and its base classes
Lineage[k \in Class] ==
    <<k>> \o IF Parent[k] = BBItem THEN <<>> ELSE Lineage[Parent[k]]

Known(k) == k \in Range(categoryDescriptions)
CategoryOf(descriptions, k) == CHOOSE n \in DOMAIN descriptions : descriptions[n] = k

\* Those of k and its base classes that are no categories yet
Missing[k \in Class] ==
    (IF Known(k) THEN <<>> ELSE <<k>>) \o
    (IF Parent[k] = BBItem THEN <<>> ELSE Missing[Parent[k]])

\* findAndCreateDescription and, if k is new, fillParentVector: k and its missing
\* base classes become categories, and each of them is linked to its parent
Created(k) ==
    LET new == Missing[k]
        all == categoryDescriptions \o new
    IN  [descriptions |-> all,
         clients      |-> clientVector \o [n \in DOMAIN new |-> <<>>],
         parents      |-> [n \in DOMAIN all |->
             IF ~ Known(k) /\ all[n] \in Range(Lineage[k]) /\ Parent[all[n]] # BBItem
             THEN CategoryOf(all, Parent[all[n]])
             ELSE IF n \in DOMAIN parentVector THEN parentVector[n] ELSE 0]]

getCategory(k) ==
    /\ ~ stopped /\ calls = <<>>
    /\ categoryDescriptions' = Created(k).descriptions
    /\ clientVector' = Created(k).clients
    /\ parentVector' = Created(k).parents
    /\ UNCHANGED <<calls, stopped, value, seen, wants, due>>

Subscribes(c, list) == \E n \in DOMAIN list : list[n].client = c

\* subscribe, with the class of the item: a client already in the list stops the
\* simulation
subscribe(c, k, s) ==
    LET made == Created(k)
        category == CategoryOf(made.descriptions, k)
    IN  /\ ~ stopped /\ calls = <<>>
        /\ Len(FlattenSeq(clientVector)) < MaxSubscribers
        /\ \A w \in wants : w[1] # c \/ w[2] # k
        /\ wants' = wants \cup {<<c, k, s>>}
        /\ categoryDescriptions' = made.descriptions
        /\ parentVector' = made.parents
        /\ stopped' = Subscribes(c, made.clients[category])
        /\ clientVector' = IF stopped' THEN made.clients
              ELSE [made.clients EXCEPT ![category] = Append(@, [client |-> c, scope |-> s])]
        /\ UNCHANGED <<calls, value, seen, due>>

Matches(s, i) == s \in {AnyScope, ScopeOf[i]}

\* Who is to be told of item i, if the clients hold subscriptions ws
MustHear(ws, i) == {c \in Client : \E w \in ws :
                       w[1] = c /\ w[2] \in Range(Lineage[ClassOf[i]]) /\ Matches(w[3], i)}

\* unsubscribe: the loop ends after the first subscriber, whoever it is
unsubscribe(c, k) ==
    /\ ~ stopped /\ calls = <<>>
    /\ \E w \in wants : w[1] = c /\ w[2] = k
    /\ wants' = {w \in wants : w[1] # c \/ w[2] # k}
    /\ clientVector' = [clientVector EXCEPT ![CategoryOf(categoryDescriptions, k)] =
                           IF @ # <<>> /\ @[1].client = c THEN Tail(@) ELSE @]
    /\ due' = {d \in due : d[1] \in MustHear(wants', d[2])}
    /\ UNCHANGED <<categoryDescriptions, parentVector, calls, stopped, value, seen>>

\* The owner of item i changes it and calls publishBBItem, from an event or from
\* the callback of another publication
Change(i, stack) ==
    /\ Known(ClassOf[i])
    /\ value[i] < MaxChanges /\ Len(stack) < MaxDepth
    /\ value' = [value EXCEPT ![i] = @ + 1]
    /\ due' = due \cup (MustHear(wants, i) \X {i})
    /\ calls' = Append(stack, [item |-> i, next |-> 1,
                    category |-> CategoryOf(categoryDescriptions, ClassOf[i])])

publishBBItem(i) ==
    /\ ~ stopped /\ calls = <<>>
    /\ Change(i, calls)
    /\ UNCHANGED <<tables, stopped, seen, wants>>

current == Last(calls)
subscribers == clientVector[current.category]
advanced == [calls EXCEPT ![Len(calls)].next = @ + 1]

\* One subscriber is called; it may publish an item of its own
Notify ==
    /\ calls # <<>> /\ current.next <= Len(subscribers)
    /\ Matches(subscribers[current.next].scope, current.item)
    /\ seen' = [seen EXCEPT ![<<subscribers[current.next].client, current.item>>] =
                   value[current.item]]
    /\ \/ calls' = advanced /\ UNCHANGED <<value, due>>
       \/ \E i \in Item : Change(i, advanced)
    /\ UNCHANGED <<tables, stopped, wants>>

SkipOtherScope ==
    /\ calls # <<>> /\ current.next <= Len(subscribers)
    /\ ~ Matches(subscribers[current.next].scope, current.item)
    /\ calls' = advanced
    /\ UNCHANGED <<tables, stopped, value, seen, wants, due>>

\* Seeded fault: the subscribers of the base classes are not called
PublishHereOnly ==
    /\ calls # <<>> /\ current.next > Len(subscribers)
    /\ calls' = Front(calls)
    /\ UNCHANGED <<tables, stopped, value, seen, wants, due>>

\* The list is done: go on with the parent category, or return
PublishToParent ==
    /\ calls # <<>> /\ current.next > Len(subscribers)
    /\ calls' = IF parentVector[current.category] # 0
                THEN [calls EXCEPT ![Len(calls)] = [item |-> current.item, next |-> 1,
                                                    category |-> parentVector[current.category]]]
                ELSE Front(calls)
    /\ UNCHANGED <<tables, stopped, value, seen, wants, due>>

BlackboardNext ==
    \/ \E k \in Class : getCategory(k)
    \/ \E c \in Client, k \in Class :
          \/ unsubscribe(c, k)
          \/ \E s \in Scope \cup {AnyScope} : subscribe(c, k, s)
    \/ \E i \in Item : publishBBItem(i)
    \/ Notify \/ SkipOtherScope \/ PublishToParent

BlackboardSpec == BlackboardInit /\ [][BlackboardNext]_blackboardVars
-----------------------------------------------------------------------------
(* Properties                                                               *)

\* When all calls have returned, everyone who had to be told of the last change of
\* an item, through its class or a base class, has seen its present value: an
\* item that a subscriber changed again from its callback included.
EveryoneTold ==
    calls = <<>> /\ ~ stopped => \A d \in due : seen[d] = value[d[2]]
=============================================================================
