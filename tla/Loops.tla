-------------------------------- MODULE Loops --------------------------------
(***************************************************************************)
(* for x in c, for k, v in d and for i in first..last..by: the opcodes     *)
(* lbl_iter_next, lbl_iter_next_pair and lbl_iter_range, which are run at  *)
(* the head of every iteration, and bodies that change what is looped      *)
(* over.  A loop remembers where it is in the words it keeps on the value  *)
(* stack only: [col, idx], or [cur, end, step] from which the direction is *)
(* inferred each time.                                                     *)
(***************************************************************************)
EXTENDS HashTable, Sequences, Functions

CONSTANTS
  Bound,       \* the values of a range's bounds, far from the limits of a long long
  Step,        \* the values of the step expression
  NotInteger,  \* a bound or a step of another type
  ItemMax      \* bound: items of an array, and deletions behind the loop

ASSUME LoopsAssumption ==
  /\ Bound \subseteq Int /\ Step \subseteq Int /\ NotInteger \notin Int /\ ItemMax \in Nat

VARIABLES
  kind,     \* what is looped over: a range, or the type of the collection
  pair,     \* for k, v in
  range,    \* the words of a range loop, and its first value
  idx,      \* the index word of the other loops
  items,    \* the array's items, or the string's characters, told apart by numbers
  at,       \* "before", "head", "body", "done", "error", or "left" by a break
  seen,     \* history: what the loop pushed; of a range each value once, of a dict until
            \* it is reshaped
  reshaped  \* history: deletions from the array up to idx; whether keys came to or left the dict

loopVars == <<kind, pair, range, idx, items, at, seen, reshaped>>
allVars == <<vars, loopVars>>

Kind == {"range", "array", "string", "dict", "other"}
NoRange == [first |-> 0, cur |-> 0, end |-> 0, step |-> 1]
Ranges == [first : Bound \cup {NotInteger}, cur : Int \cup {NotInteger},
           end : Bound \cup {NotInteger}, step : Step \cup {1, NotInteger}]

LoopTypeOK ==
  /\ TypeOK
  /\ kind \in Kind /\ pair \in BOOLEAN
  /\ kind = "range" => range \in Ranges
  /\ idx \in Nat /\ items \in Seq(1 .. ItemMax) /\ reshaped \in Nat
  /\ at \in {"before", "head", "body", "done", "error", "left"}

NoTable ==
  /\ hash = [k \in Key |-> Min(HashValue)] /\ buckets = <<>> /\ capacity = 0 /\ count = 0
  /\ pc = "idle" /\ pos = 0 /\ answer = Absent

(* parse_for pushes the words, with a step of 1 if none is written.  The   *)
(* hashes matter to a dict only.                                           *)
LoopInit ==
  /\ kind \in Kind /\ (IF kind = "dict" THEN Init ELSE NoTable)
  /\ pair \in BOOLEAN /\ (kind = "range" => ~pair)
  /\ IF kind = "range"
     THEN \E first, end \in Bound \cup {NotInteger}, step \in Step \cup {1, NotInteger} :
            range = [first |-> first, cur |-> first, end |-> end, step |-> step]
     ELSE range = NoRange
  /\ idx = 0 /\ at = "before" /\ seen = <<>> /\ reshaped = 0
  /\ \E n \in 0 .. ItemMax :
       items = IF kind \in {"array", "string"} THEN [i \in 1 .. n |-> i] ELSE <<>>

Begin ==
  /\ at = "before" /\ pc = "idle" /\ at' = "head"
  /\ UNCHANGED <<vars, kind, pair, range, idx, items, seen, reshaped>>

-----------------------------------------------------------------------------
(* The head of an iteration.                                               *)

Integers3 == NotInteger \notin {range.cur, range.end, range.step}
ascending == range.cur < range.end

(* Mutants: an inclusive end; the step is not taken.                       *)
RangeEndInclusive == IF ascending THEN range.cur > range.end ELSE range.cur < range.end
SteppedNot == range.cur

RangeEnd == IF ascending THEN range.cur >= range.end ELSE range.cur <= range.end
Stepped == range.cur + (IF ascending THEN range.step ELSE -range.step)

(* The buckets the while loop of lbl_iter_next stops at.                   *)
BucketsAhead == {j \in idx .. capacity - 1 : buckets[j] # Absent}

(* The error exits, which drop the words like the normal one.              *)
Refused ==
  \/ kind = "range" /\ (IF Integers3 THEN range.step <= 0 ELSE TRUE)
  \/ kind = "other" \/ (pair /\ kind # "dict")

Ends ==
  CASE kind = "range" -> RangeEnd
    [] kind = "dict" -> BucketsAhead = {}
    [] OTHER -> idx >= Len(items)

Refuse ==
  /\ at = "head" /\ Refused /\ at' = "error"
  /\ UNCHANGED <<vars, kind, pair, range, idx, items, seen, reshaped>>

Finish ==
  /\ at = "head" /\ ~Refused /\ Ends /\ at' = "done"
  /\ UNCHANGED <<vars, kind, pair, range, idx, items, seen, reshaped>>

Yielding == at = "head" /\ ~Refused /\ ~Ends /\ at' = "body"

YieldNumber ==
  /\ Yielding /\ kind = "range"
  /\ seen' = IF range.cur \in Range(seen) THEN seen ELSE Append(seen, range.cur)
  /\ range' = [range EXCEPT !.cur = Stepped]
  /\ UNCHANGED <<vars, kind, pair, idx, items, reshaped>>

YieldItem ==
  /\ Yielding /\ kind \in {"array", "string"}
  /\ seen' = Append(seen, items[idx + 1]) /\ idx' = idx + 1
  /\ UNCHANGED <<vars, kind, pair, range, items, reshaped>>

YieldKey ==
  /\ Yielding /\ kind = "dict" /\ idx' = Min(BucketsAhead) + 1
  /\ seen' = IF reshaped = 0 THEN Append(seen, buckets[Min(BucketsAhead)].key) ELSE seen
  /\ UNCHANGED <<vars, kind, pair, range, items, reshaped>>

(* The end of the body and the jump of finish_loop; a break.               *)
Body ==
  /\ at = "body" /\ pc = "idle" /\ at' = "head"
  /\ UNCHANGED <<vars, kind, pair, range, idx, items, seen, reshaped>>

Break ==
  /\ at = "body" /\ pc = "idle" /\ at' = "left"
  /\ UNCHANGED <<vars, kind, pair, range, idx, items, seen, reshaped>>

-----------------------------------------------------------------------------
(* What bodies do, and programs before the loop.                           *)

Changing == at \in {"before", "body"}

ArrayAppend ==
  /\ Changing /\ kind = "array"
  /\ LET new == Max(Range(items) \cup Range(seen) \cup {0}) + 1
     IN new <= ItemMax /\ items' = Append(items, new)
  /\ UNCHANGED <<vars, kind, pair, range, idx, at, seen, reshaped>>

(* Mutant: the last item is put where the deleted one was.                 *)
ArrayDeleteSwapping ==
  /\ Changing /\ kind = "array"
  /\ \E i \in DOMAIN items :
       /\ items' = SubSeq([items EXCEPT ![i] = items[Len(items)]], 1, Len(items) - 1)
       /\ i <= idx => reshaped < ItemMax
       /\ reshaped' = IF i <= idx THEN reshaped + 1 ELSE reshaped
  /\ UNCHANGED <<vars, kind, pair, range, idx, at, seen>>

ArrayDelete ==
  /\ Changing /\ kind = "array"
  /\ \E i \in DOMAIN items :
       /\ items' = SubSeq(items, 1, i - 1) \o SubSeq(items, i + 1, Len(items))
       /\ i <= idx => reshaped < ItemMax
       /\ reshaped' = IF i <= idx THEN reshaped + 1 ELSE reshaped
  /\ UNCHANGED <<vars, kind, pair, range, idx, at, seen>>

Present(k) == Found(k) # {}
Reshapes(does) == reshaped' = IF at = "body" /\ does THEN 1 ELSE reshaped

(* Mutant: d[k] = v always goes through dictmap_put.                       *)
IndexSetPutting(k, v) ==
  /\ Changing /\ kind = "dict"
  /\ Put(k, v) /\ Reshapes(~Present(k))
  /\ UNCHANGED <<kind, pair, range, idx, items, at, seen>>

(* d[k] = v: a key that is there is updated in place, so that the table    *)
(* is not grown by the put of a key it already has.                        *)
IndexSet(k, v) ==
  /\ Changing /\ kind = "dict"
  /\ IF Present(k)
     THEN /\ pc = "idle"
          /\ buckets' = [j \in DOMAIN buckets |->
                           IF KeyAt(buckets, j, k) THEN [key |-> k, val |-> v] ELSE buckets[j]]
          /\ UNCHANGED <<hash, capacity, count, pc, pos, answer>>
     ELSE Put(k, v)
  /\ Reshapes(~Present(k))
  /\ UNCHANGED <<kind, pair, range, idx, items, at, seen>>

Delete(k) ==
  /\ Changing /\ kind = "dict"
  /\ Remove(k) /\ Reshapes(Present(k))
  /\ UNCHANGED <<kind, pair, range, idx, items, at, seen>>

LoopRepair == Repair /\ UNCHANGED loopVars

Ended == at \in {"done", "error", "left"} /\ UNCHANGED allVars

Iterate == Begin \/ Refuse \/ Finish \/ YieldNumber \/ YieldItem \/ YieldKey \/ Body \/ LoopRepair

LoopNext ==
  \/ Iterate \/ Break \/ ArrayAppend \/ ArrayDelete \/ Ended
  \/ \E k \in Key : Delete(k) \/ \E v \in Val : IndexSet(k, v)

(* The interpreter goes on as long as there is an instruction to execute;  *)
(* nothing forces a program to break.                                      *)
LoopSpec == LoopInit /\ [][LoopNext]_allVars /\ WF_allVars(Iterate)

-----------------------------------------------------------------------------
(* Properties.                                                             *)

(* A loop whose body assigns to the keys that are there, the one being     *)
(* visited or any other, sees every key exactly once, although the table   *)
(* may be at the load at which the next put grows it.                      *)
VisitsEachKeyOnce ==
  kind = "dict" /\ pc = "idle" /\ at # "before" /\ reshaped = 0 =>
    /\ IsInjective(seen)
    /\ at # "left" => {k \in Key : Present(k)} =
                      Range(seen) \cup {buckets[j].key : j \in BucketsAhead}

(* A loop over an array sees its items in order and none of them twice,    *)
(* those that the body appends too; each deletion of an item it has come   *)
(* past makes it miss at most one of those that stay.                      *)
VisitsItemsInOrder ==
  kind \in {"array", "string"} =>
    /\ \A i, j \in DOMAIN seen : i < j => seen[i] < seen[j]
    /\ LET behind == {i \in DOMAIN items : i <= idx \/ at = "done"}
       IN Cardinality({i \in behind : items[i] \notin Range(seen)}) <= reshaped

(* What the loop ranges over, by the manual: first, then every step-th     *)
(* value towards end, end excluded.                                        *)
Progression ==
  IF range.first <= range.end
  THEN {x \in range.first .. range.end - 1 : (x - range.first) % range.step = 0}
  ELSE {x \in range.end + 1 .. range.first : (range.first - x) % range.step = 0}

(* The one value behind the end that a step which does not divide the      *)
(* distance leads to.                                                      *)
Beyond ==
  IF range.first <= range.end
  THEN {x \in range.end + 1 .. range.end + range.step - 1 : (x - range.first) % range.step = 0}
  ELSE {x \in range.end - range.step + 1 .. range.end - 1 : (range.first - x) % range.step = 0}

(* lbl_iter_range tests against the end in a direction that it infers      *)
(* anew at every head.  A loop whose step divides the distance gives its   *)
(* progression, and all of it if it runs to its end.  Any other passes its *)
(* end unnoticed and turns round: after the whole progression the body     *)
(* sees the value behind the end and no third one, and the loop is never   *)
(* done.                                                                   *)
RangeExact ==
  kind = "range" /\ ~Refused =>
    /\ Range(seen) \subseteq Progression \cup Beyond
    /\ Range(seen) \cap Beyond # {} => Progression \subseteq Range(seen)
    /\ at = "done" => Beyond = {} /\ Range(seen) = Progression

(* A range loop is left, by an error or by its end, if its step divides    *)
(* the distance.                                                           *)
DividedRangeStops ==
  kind = "range" /\ (Refused \/ Beyond = {}) => <>(at \in {"done", "error", "left"})

(* What the comment on the test of lbl_iter_range promises: steps that     *)
(* overshoot the end end the loop too.  It does not hold (README, 4).      *)
RangeStops == kind = "range" => <>(at \in {"done", "error", "left"})
=============================================================================
