---------------------------- MODULE KeyValueMap ----------------------------
(***************************************************************************)
(* What a ZkTrie promises to the state code above it: a map from hashed    *)
(* keys to values, whose reads answer with the last value put.             *)
(***************************************************************************)
CONSTANTS Key, Value, NoValue

VARIABLES
    map,     \* the value of every key
    answer   \* the result of the last read

mapVars == <<map, answer>>

MapInit == map = [k \in Key |-> NoValue] /\ answer = NoValue

MapPut(k, v) == map' = [map EXCEPT ![k] = v] /\ UNCHANGED answer
MapRemove(k) == map' = [map EXCEPT ![k] = NoValue] /\ UNCHANGED answer
MapRead(k)   == answer' = map[k] /\ UNCHANGED map

MapNext ==
    \E k \in Key : MapRead(k) \/ MapRemove(k) \/ \E v \in Value : MapPut(k, v)

MapSpec == MapInit /\ [][MapNext]_mapVars
=============================================================================
