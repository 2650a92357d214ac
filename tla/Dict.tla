-------------------------------- MODULE Dict --------------------------------
(* What hashtable.h promises its callers (HashMap, DictMap): a finite map.  *)
CONSTANTS Key, Val, Absent
VARIABLES dict, answer

vars == <<dict, answer>>

Init == dict = [k \in Key |-> Absent] /\ answer = Absent

Put(k, v) == dict' = [dict EXCEPT ![k] = v] /\ UNCHANGED answer
Get(k) == answer' = dict[k] /\ UNCHANGED dict
Remove(k) == dict' = [dict EXCEPT ![k] = Absent] /\ UNCHANGED answer
Clear == dict' = [k \in Key |-> Absent] /\ UNCHANGED answer

Next ==
  \/ \E k \in Key : Get(k) \/ Remove(k) \/ \E v \in Val : Put(k, v)
  \/ Clear

Spec == Init /\ [][Next]_vars
=============================================================================
