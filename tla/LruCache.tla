------------------------------ MODULE LruCache ------------------------------
(***************************************************************************)
(* lru_cache of common/lru_cache.h: a list of nodes, the one used last     *)
(* first, and a map from keys to nodes of the list.  A node is a key and a *)
(* value; values differ, so a value stands for the iterator to its node.   *)
(***************************************************************************)
EXTENDS Naturals, FiniteSets, Sequences, SequencesExt, Functions

CONSTANT Capacity

ASSUME LruAssumption == Capacity \in Nat \ {0}

Empty == [list |-> <<>>, map |-> <<>>]

Keys(c) == DOMAIN c.map
Nodes(c) == ToSet(c.list)

(* Where the iterator that the map has for a key leads. *)
NodeOf(c, key) == CHOOSE i \in DOMAIN c.list : c.list[i] = <<key, c.map[key]>>

(* splice(): the node of the key goes to the front. *)
Touched(c, key) ==
    LET i == NodeOf(c, key)
    IN [list |-> <<c.list[i]>> \o RemoveAt(c.list, i), map |-> c.map]

Pushed(c, key, value) == [list |-> <<<<key, value>>>> \o c.list, map |-> c.map]

Linked(c, key, value) ==
    [list |-> c.list,
     map |-> [k \in Keys(c) \cup {key} |-> IF k = key THEN value ELSE c.map[k]]]

(* The last node goes, and the map's entry of its key. *)
Trimmed(c) ==
    IF Len(c.list) <= Capacity THEN c
    ELSE [list |-> Front(c.list), map |-> Restrict(c.map, Keys(c) \ {Last(c.list)[1]})]

(* put(), of a key the cache holds and of one it does not. *)
Put(c, key, value) ==
    IF key \in Keys(c)
    THEN LET i == NodeOf(c, key)
             renewed == [list |-> [c.list EXCEPT ![i] = <<key, value>>], map |-> c.map]
         IN Touched(Linked(renewed, key, value), key)
    ELSE Trimmed(Linked(Pushed(c, key, value), key, value))

(* put() when the map cannot grow: the node that was pushed is popped.     *)
PutFailsDirty(c, key, value) == Pushed(c, key, value)  (* faulty: it stays *)
PutFails(c, key, value) ==
    [list |-> Tail(Pushed(c, key, value).list), map |-> c.map]

(* Every key is in one node, which the map knows, and there is room.       *)
ListAndMapAgree(c) ==
    /\ Len(c.list) <= Capacity
    /\ Cardinality(Nodes(c)) = Len(c.list)
    /\ Nodes(c) = {<<k, c.map[k]>> : k \in Keys(c)}
=============================================================================
