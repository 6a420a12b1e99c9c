------------------------------- MODULE KeySet -------------------------------
(***************************************************************************)
(* What a map of the library promises (zisc/structure/map.hpp): a set of   *)
(* keys, each at an index of its own that is answered by add, contain and  *)
(* remove and that does not change while the key stays; a new key is       *)
(* refused only when there is no room; findMinKey answers the least key.   *)
(***************************************************************************)
EXTENDS Naturals, FiniteSets

CONSTANTS Keys, Sizes

VARIABLES
  place,   \* key -> its index, for the keys of the set
  room,    \* how many keys there is room for
  outcome  \* what the last call answered

keySetVars == <<place, room, outcome>>

Answer(kind) == [kind |-> kind]
AnswerAt(kind, index) == [kind |-> kind, index |-> index]
AnswerKey(kind, key) == [kind |-> kind, key |-> key]

AtLeastOne(c) == IF c = 0 THEN 1 ELSE c
Indexes == UNION {0..(AtLeastOne(c) - 1) : c \in Sizes}
KeysOf == DOMAIN place
Taken == {place[k] : k \in KeysOf}
Nobody == [k \in {} |-> 0]

keySetInit == place = Nobody /\ outcome = Answer("none") /\ \E c \in Sizes : room = AtLeastOne(c)

Insert(key) ==
  /\ \/ key \in KeysOf /\ outcome' = Answer("present") /\ UNCHANGED place
     \/ /\ key \notin KeysOf /\ Cardinality(KeysOf) < room
        /\ \E index \in Indexes \ Taken :
             /\ place' = [k \in KeysOf \cup {key} |-> IF k = key THEN index ELSE place[k]]
             /\ outcome' = AnswerAt("added", index)
     \/ /\ key \notin KeysOf /\ Cardinality(KeysOf) = room
        /\ outcome' = AnswerKey("overflow", key) /\ UNCHANGED place
  /\ UNCHANGED room

Erase(key) ==
  /\ IF key \in KeysOf
       THEN /\ place' = [k \in KeysOf \ {key} |-> place[k]]
            /\ outcome' = AnswerAt("removed", place[key])
       ELSE outcome' = Answer("absent") /\ UNCHANGED place
  /\ UNCHANGED room

Find(key) ==
  /\ outcome' = IF key \in KeysOf THEN AnswerAt("present", place[key]) ELSE Answer("absent")
  /\ UNCHANGED <<place, room>>

FindLeast ==
  /\ \/ KeysOf = {} /\ outcome' = Answer("none")
     \/ \E key \in KeysOf : (\A k \in KeysOf : key <= k) /\ outcome' = AnswerKey("min", key)
  /\ UNCHANGED <<place, room>>

\* The room of the keys that clear() drops is not given back.
Empty == place' = Nobody /\ room' = room - Cardinality(KeysOf) /\ outcome' = Answer("none")

Resize(c) == place' = Nobody /\ room' = AtLeastOne(c) /\ outcome' = Answer("none")

keySetNext == \/ FindLeast
              \/ Empty
              \/ \E key \in Keys : Insert(key) \/ Erase(key) \/ Find(key)
              \/ \E c \in Sizes : Resize(c)
keySetSpec == keySetInit /\ [][keySetNext]_keySetVars
=============================================================================
