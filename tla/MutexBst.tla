------------------------------ MODULE MutexBst ------------------------------
(***************************************************************************)
(* zisc/structure/mutex_bst-inl.hpp: a map of bounded capacity.  Nodes live*)
(* in a pool of storages, a list of pointers to them is kept in the order  *)
(* of the keys, a stack holds the free indexes.  add, remove, contain and  *)
(* findMinKey run under a mutex, clear and setCapacity while nobody else   *)
(* uses the map, so each is one step.                                      *)
(***************************************************************************)
EXTENDS Naturals, Sequences, FiniteSets

CONSTANTS
  Keys,
  MapSizes,  \* the arguments of setCapacity and of the constructor
  NoKey        \* a storage without a value
ASSUME BstAssumption == Keys \subseteq Nat /\ MapSizes \subseteq Nat /\ NoKey \notin Keys

VARIABLES
  indexStack,  \* index_stack_, the top last
  nodePool,    \* node_pool_: index -> key stored there
  nodeList,    \* node_list_, as indexes
  reply        \* what the last call answered

bstVars == <<indexStack, nodePool, nodeList, reply>>

Largest(c) == IF c = 0 THEN 1 ELSE c
capacityOf == Cardinality(DOMAIN nodePool)
KeyAt(i) == nodePool[nodeList[i]]
KeysIn == {KeyAt(i) : i \in DOMAIN nodeList}

Reply(kind) == [kind |-> kind]
ReplyAt(kind, index) == [kind |-> kind, index |-> index]
ReplyKey(kind, key) == [kind |-> kind, key |-> key]

\* std::iota(rbegin, rend, 0) over a stack of n indexes: 0 comes to the top.
Iota(n) == [i \in 1..n |-> n - i]

bstInit ==
  \E c \in MapSizes :
    /\ indexStack = Iota(Largest(c))
    /\ nodePool = [i \in 0..(Largest(c) - 1) |-> NoKey]
    /\ nodeList = <<>> /\ reply = Reply("none")

\* std::lower_bound in the sorted list, and the test for equality behind it.
LowerBound(key) == Cardinality({i \in DOMAIN nodeList : KeyAt(i) < key}) + 1
IsAt(pos, key) == pos <= Len(nodeList) /\ KeyAt(pos) = key

\* list.emplace(pos, ...) and list.erase(pos)
Emplaced(pos, node) ==
  SubSeq(nodeList, 1, pos - 1) \o <<node>> \o SubSeq(nodeList, pos, Len(nodeList))
Erased(pos) == SubSeq(nodeList, 1, pos - 1) \o SubSeq(nodeList, pos + 1, Len(nodeList))

\* MUTANT: the new node is put behind the place lower_bound found.
AddBehind(key) ==
  LET pos == LowerBound(key)
      node == indexStack[Len(indexStack)] IN
  CASE IsAt(pos, key) -> reply' = Reply("present") /\ UNCHANGED <<indexStack, nodePool, nodeList>>
    [] ~IsAt(pos, key) /\ indexStack = <<>> ->
         reply' = ReplyKey("overflow", key) /\ UNCHANGED <<indexStack, nodePool, nodeList>>
    [] OTHER -> /\ indexStack' = SubSeq(indexStack, 1, Len(indexStack) - 1)
                /\ nodePool' = [nodePool EXCEPT ![node] = key]
                /\ nodeList' = IF pos > Len(nodeList) THEN Append(nodeList, node)
                                                      ELSE Emplaced(pos + 1, node)
                /\ reply' = ReplyAt("added", node)
Add(key) ==
  LET pos == LowerBound(key)
      node == indexStack[Len(indexStack)] IN  \* issueStorageIndex()
  CASE IsAt(pos, key) -> reply' = Reply("present") /\ UNCHANGED <<indexStack, nodePool, nodeList>>
    [] ~IsAt(pos, key) /\ indexStack = <<>> ->
         reply' = ReplyKey("overflow", key) /\ UNCHANGED <<indexStack, nodePool, nodeList>>
    [] OTHER -> /\ indexStack' = SubSeq(indexStack, 1, Len(indexStack) - 1)
                /\ nodePool' = [nodePool EXCEPT ![node] = key]
                /\ nodeList' = Emplaced(pos, node)
                /\ reply' = ReplyAt("added", node)

\* MUTANT: the position of the node is given back, not its index in the pool.
RemovePosition(key) ==
  LET pos == LowerBound(key) IN
  IF IsAt(pos, key)
    THEN /\ nodePool' = [nodePool EXCEPT ![nodeList[pos]] = NoKey]
         /\ nodeList' = Erased(pos)
         /\ indexStack' = Append(indexStack, pos - 1)
         /\ reply' = ReplyAt("removed", pos - 1)
    ELSE reply' = Reply("absent") /\ UNCHANGED <<indexStack, nodePool, nodeList>>
Remove(key) ==
  LET pos == LowerBound(key) IN
  IF IsAt(pos, key)
    THEN /\ nodePool' = [nodePool EXCEPT ![nodeList[pos]] = NoKey]
         /\ nodeList' = Erased(pos)
         /\ indexStack' = Append(indexStack, nodeList[pos])
         /\ reply' = ReplyAt("removed", nodeList[pos])
    ELSE reply' = Reply("absent") /\ UNCHANGED <<indexStack, nodePool, nodeList>>

Contain(key) ==
  /\ reply' = IF IsAt(LowerBound(key), key) THEN ReplyAt("present", nodeList[LowerBound(key)])
                                            ELSE Reply("absent")
  /\ UNCHANGED <<indexStack, nodePool, nodeList>>

FindMinKey ==
  /\ reply' = IF nodeList = <<>> THEN Reply("none") ELSE ReplyKey("min", KeyAt(1))
  /\ UNCHANGED <<indexStack, nodePool, nodeList>>

\* clear() numbers what is left of the stack anew: the indexes of the nodes it
\* destroys do not come back before setCapacity() resizes the stack.
Destroyed == [i \in DOMAIN nodePool |->
  IF \E n \in DOMAIN nodeList : nodeList[n] = i THEN NoKey ELSE nodePool[i]]
ClearMap ==
  /\ nodePool' = Destroyed /\ nodeList' = <<>>
  /\ indexStack' = Iota(Len(indexStack))
  /\ reply' = Reply("none")

ResizeMap(c) ==
  /\ nodePool' = [i \in 0..(Largest(c) - 1) |-> IF i < capacityOf THEN Destroyed[i] ELSE NoKey]
  /\ nodeList' = <<>>
  /\ indexStack' = Iota(Largest(c))
  /\ reply' = Reply("none")

bstNext == \/ \E key \in Keys : Add(key) \/ Remove(key) \/ Contain(key)
           \/ FindMinKey
           \/ ClearMap
           \/ \E c \in MapSizes : ResizeMap(c)
bstSpec == bstInit /\ [][bstNext]_bstVars

-----------------------------------------------------------------------------
(* Properties                                                              *)

\* The list is sorted without duplicates; a storage holds a value exactly while
\* the list points to it; and no index is handed out twice: the free indexes
\* are distinct and none of them belongs to a node of the list.
NodesAccounted ==
  /\ \A i, j \in DOMAIN nodeList : i < j => KeyAt(i) < KeyAt(j)
  /\ {i \in DOMAIN nodePool : nodePool[i] # NoKey} = {nodeList[i] : i \in DOMAIN nodeList}
  /\ \A i, j \in DOMAIN indexStack : i # j => indexStack[i] # indexStack[j]
  /\ \A i \in DOMAIN indexStack :
       indexStack[i] \in DOMAIN nodePool /\ nodePool[indexStack[i]] = NoKey

\* A map refuses a new key only when it holds capacity() keys.  clear() breaks
\* this: it does NOT hold.
OverflowOnlyWhenFull == reply.kind = "overflow" => Len(nodeList) = capacityOf

\* The place of a key in the pool, as the list has it.
PlaceOf == [key \in KeysIn |-> nodeList[CHOOSE i \in DOMAIN nodeList : KeyAt(i) = key]]

\* The sorted list and the pool implement a set of keys with indexes: an index
\* that was answered stays good while its key is in the map, and overflow means
\* that the free indexes are used up (those that clear() lost do not count).
Set == INSTANCE KeySet WITH Sizes <- MapSizes, place <- PlaceOf,
         room <- Len(indexStack) + Len(nodeList), outcome <- reply
IsKeySet == Set!keySetSpec
=============================================================================
