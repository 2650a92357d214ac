----------------------------- MODULE Environment -----------------------------
(***************************************************************************)
(* What AER promises about variables, with nothing said about how they are *)
(* stored.  A binding is a location; a name is looked up in the scopes of  *)
(* the running call, innermost first, and then in the global scope; a      *)
(* closure holds locations, so it and the enclosing call share them for as *)
(* long as the closure lives.                                              *)
(***************************************************************************)
EXTENDS Integers, Sequences, FiniteSets

CONSTANTS Name, Value, Null, Loc, NoLoc, Closure, MaxScopes

VARIABLES
  env,        \* the stack of scopes: for every scope, name -> location
  store,      \* the value of every location in use
  frames,     \* the calls in progress: [floor, ups]
  closures,   \* closure -> (captured name -> location)
  acc         \* the value most recently read

vars == <<env, store, frames, closures, acc>>

Unbound == [n \in Name |-> NoLoc]

InUse(e, fs, cl) ==
  ({e[i][n] : i \in DOMAIN e, n \in Name}
     \cup {fs[i].ups[n] : i \in DOMAIN fs, n \in Name}
     \cup {cl[k][n] : k \in Closure, n \in Name}) \ {NoLoc}

Floor == IF frames = <<>> THEN 1 ELSE frames[Len(frames)].floor

Binding(n) ==
  LET found == {i \in {1} \cup (Floor .. Len(env)) : env[i][n] # NoLoc}
  IN IF found = {} THEN NoLoc ELSE env[CHOOSE i \in found : \A k \in found : k <= i][n]

(* Locations that are no longer in use lose their value.                    *)
Keep(newStore) ==
  store' = [l \in InUse(env', frames', closures') |-> newStore[l]]

Init ==
  /\ env = <<Unbound>> /\ store = <<>> /\ frames = <<>>
  /\ closures = [k \in Closure |-> Unbound]
  /\ acc = Null

(* Reading a name that is not defined gives null (and ends the program).    *)
Read(n) ==
  /\ acc' = IF Binding(n) = NoLoc THEN Null ELSE store[Binding(n)]
  /\ UNCHANGED <<env, store, frames, closures>>

(* A new binding of n in the innermost scope.                               *)
Bind(n, v) ==
  /\ env[Len(env)][n] = NoLoc
  /\ \E l \in Loc \ InUse(env, frames, closures) :
       /\ env' = [env EXCEPT ![Len(env)][n] = l]
       /\ UNCHANGED <<frames, closures, acc>>
       /\ Keep([k \in Loc |-> IF k = l THEN v ELSE IF k \in DOMAIN store THEN store[k] ELSE v])

Update(l, v) ==
  /\ l \in DOMAIN store
  /\ store' = [store EXCEPT ![l] = v]
  /\ UNCHANGED <<env, frames, closures, acc>>

(* Assignment updates the binding in force, or makes one.                   *)
Assign(n, v) == IF Binding(n) # NoLoc THEN Update(Binding(n), v) ELSE Bind(n, v)

(* A loop variable belongs to the innermost scope whatever else has its name. *)
Define(n, v) ==
  IF env[Len(env)][n] # NoLoc THEN Update(env[Len(env)][n], v) ELSE Bind(n, v)

PushScope ==
  /\ Len(env) < MaxScopes
  /\ env' = Append(env, Unbound)
  /\ UNCHANGED <<store, frames, closures, acc>>

Truncate(depth) ==
  /\ env' = SubSeq(env, 1, depth)
  /\ UNCHANGED <<closures, acc>>
  /\ Keep(store)

PopScope ==
  /\ Len(env) > Floor
  /\ UNCHANGED frames
  /\ Truncate(Len(env) - 1)

(* A call of a function with parameter p, or of a closure.                  *)
Call(p, v, ups) ==
  /\ Len(env) < MaxScopes
  /\ \E l \in Loc \ InUse(env, frames, closures) :
       /\ env' = Append(env, [Unbound EXCEPT ![p] = l])
       /\ frames' = Append(frames, [floor |-> Len(env) + 1, ups |-> ups])
       /\ UNCHANGED <<closures, acc>>
       /\ Keep([k \in Loc |-> IF k = l THEN v ELSE IF k \in DOMAIN store THEN store[k] ELSE v])

CallClosure(k) ==
  /\ Len(env) < MaxScopes
  /\ env' = Append(env, Unbound)
  /\ frames' = Append(frames, [floor |-> Len(env) + 1, ups |-> closures[k]])
  /\ UNCHANGED <<store, closures, acc>>

Return ==
  /\ frames # <<>>
  /\ frames' = SubSeq(frames, 1, Len(frames) - 1)
  /\ Truncate(Floor - 1)

(* A closure captures the bindings in force where it is created.            *)
MakeClosure(k, names) ==
  /\ \A n \in names : Binding(n) # NoLoc
  /\ closures' = [closures EXCEPT ![k] =
                    [n \in Name |-> IF n \in names THEN Binding(n) ELSE NoLoc]]
  /\ UNCHANGED <<env, frames, acc>>
  /\ Keep(store)

ReadCaptured(n) ==
  /\ frames # <<>>
  /\ frames[Len(frames)].ups[n] # NoLoc
  /\ acc' = store[frames[Len(frames)].ups[n]]
  /\ UNCHANGED <<env, store, frames, closures>>

WriteCaptured(n, v) ==
  /\ frames # <<>>
  /\ frames[Len(frames)].ups[n] # NoLoc
  /\ Update(frames[Len(frames)].ups[n], v)

(* After an error only the global scope is left.                            *)
Restart ==
  /\ frames' = <<>>
  /\ Truncate(1)

Next ==
  \/ \E n \in Name :
       \/ Read(n) \/ ReadCaptured(n)
       \/ \E v \in Value : Assign(n, v) \/ Define(n, v) \/ WriteCaptured(n, v)
                             \/ Call(n, v, Unbound)
  \/ \E k \in Closure, names \in SUBSET Name : MakeClosure(k, names)
  \/ \E k \in Closure : CallClosure(k)
  \/ PushScope \/ PopScope \/ Return \/ Restart

Spec == Init /\ [][Next]_vars
=============================================================================
