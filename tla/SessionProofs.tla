---------------------------- MODULE SessionProofs ---------------------------
(***************************************************************************)
(* Proofs about what a session of the interpreter goes through: the files  *)
(* it imports (Modules) and the lines it reads (Terminal).                 *)
(*                                                                         *)
(* Modules, for any set of files and any limit of nested calls.            *)
(* That no module's VM is entered twice has two reasons.  A file that is   *)
(* being loaded is not registered, so nothing can call it.  And a chain of *)
(* calls goes down: a module can call only what it has imported, and its   *)
(* imports were registered before it was.  The invariant says what nests   *)
(* look like: parses, at most one run that loads a file or is the main     *)
(* program, then calls, each of a module registered before its caller.     *)
(*                                                                         *)
(* Terminal, for any characters and any sizes of a line, of the ring and   *)
(* of the file.  The arrows read the ring where the file's end is expected *)
(* to be; it is there because history_position is, whenever a line is      *)
(* entered, at the end, and whenever one is recalled, at a line's start    *)
(* that the ring still has.  The line is read as a C string; it ends where *)
(* the text does because nothing is behind the text but what was erased.   *)
(***************************************************************************)
EXTENDS Modules, Terminal, DataFacts

Files == Len(loading_stack)     \* active[Files + 1] is the innermost parse, or its run

(* What is being loaded is not registered, and nothing is either twice.     *)
Registered ==
  /\ \A i, j \in DOMAIN modules : modules[i] = modules[j] => i = j
  /\ \A i, j \in DOMAIN loading_stack : loading_stack[i] = loading_stack[j] => i = j
  /\ \A i \in DOMAIN modules, j \in DOMAIN loading_stack : modules[i] # loading_stack[j]

(* A registered module has imported only modules registered before it, a    *)
(* file in the making only registered ones.                                 *)
ImportsBefore ==
  /\ \A i \in DOMAIN modules : \A m \in imported[modules[i]] :
       \E j \in DOMAIN modules : j < i /\ modules[j] = m
  /\ \A m \in imported[Main] : m \in ToSet(modules)
  /\ \A i \in DOMAIN loading_stack : \A m \in imported[loading_stack[i]] : m \in ToSet(modules)

(* The nest of parses and runs, from the outside in.                        *)
Nest ==
  /\ active[1].vm = Main
  /\ \A i \in DOMAIN loading_stack : active[i].kind = "parse" /\ active[i + 1].vm = loading_stack[i]
  /\ active[Files + 1].kind \in {"parse", "main", "load"}
  /\ active[Files + 1].kind = "main" => Files = 0
  /\ active[Files + 1].kind = "load" => Files > 0
  /\ active[Files + 1].kind = "parse" => Len(active) = Files + 1

(* The calls at its end, each below the one before in the order of modules. *)
CallChain ==
  /\ \A i \in DOMAIN active : i > Files + 1 =>
       active[i].kind = "call" /\ \E p \in DOMAIN modules : modules[p] = active[i].vm
  /\ \A i, j \in DOMAIN active : Files + 1 < i /\ i < j =>
       \A p, q \in DOMAIN modules :
         modules[p] = active[i].vm /\ modules[q] = active[j].vm => q < p

(* The collector is suppressed once for each call and once for a load.      *)
Suppressions ==
  suppress = Len(active) - Files - 1 + (IF active[Files + 1].kind = "load" THEN 1 ELSE 0)

ModulesInv ==
  /\ TypeOK /\ Registered /\ ImportsBefore
  /\ active = <<>> => loading_stack = <<>> /\ suppress = 0
  /\ active # <<>> => Len(active) > Files /\ Nest /\ CallChain /\ Suppressions

-----------------------------------------------------------------------------
(* What the innermost activity is in a nest.                                *)

LEMMA TypeFacts ==
  ASSUME TypeOK
  PROVE  /\ Len(active) \in Nat /\ DOMAIN active = 1 .. Len(active)
         /\ \A i \in 1 .. Len(active) : active[i] \in Activity
         /\ active # <<>> <=> Len(active) > 0
         /\ Files \in Nat /\ DOMAIN loading_stack = 1 .. Files
         /\ \A i \in 1 .. Files : loading_stack[i] \in Module
         /\ Len(modules) \in Nat /\ DOMAIN modules = 1 .. Len(modules)
         /\ \A i \in 1 .. Len(modules) : modules[i] \in Module
BY SeqFacts DEF TypeOK, Files

LEMMA ParsingTop ==
  ASSUME ModulesInv, Parsing
  PROVE  /\ Len(active) = Files + 1 /\ Top = active[Files + 1] /\ suppress = 0
         /\ Top \in Activity
         /\ Files = 0 => Top.vm = Main
         /\ Files > 0 => Top.vm = loading_stack[Files] /\ Top.vm \in Module
<1>1. Len(active) = Files + 1
  BY TypeFacts DEF ModulesInv, Nest, CallChain, Parsing, Top, Last
<1>2. Top = active[Files + 1] /\ Top.kind = "parse"
  BY <1>1 DEF Parsing, Top, Last
<1>3. suppress = 0
  BY <1>1, <1>2, TypeFacts DEF ModulesInv, Suppressions, Parsing
<1>4. /\ Top \in Activity
      /\ Files = 0 => Top.vm = Main
      /\ Files > 0 => Top.vm = loading_stack[Files] /\ Top.vm \in Module
  BY <1>1, <1>2, TypeFacts DEF ModulesInv, Nest, Parsing
<1> QED BY <1>1, <1>2, <1>3, <1>4

LEMMA LoadTop ==
  ASSUME ModulesInv, Running, Top.kind = "load"
  PROVE  /\ Len(active) = Files + 1 /\ Top = active[Files + 1] /\ suppress = 1
         /\ Top \in Activity
         /\ Files > 0 /\ Top.vm = loading_stack[Files] /\ Top.vm \in Module
<1>1. Len(active) = Files + 1
  BY TypeFacts DEF ModulesInv, Nest, CallChain, Running, Top, Last
<1>2. Top = active[Files + 1]
  BY <1>1 DEF Top, Last
<1>3. suppress = 1
  BY <1>1, <1>2, TypeFacts DEF ModulesInv, Suppressions, Running
<1>4. /\ Top \in Activity
      /\ Files > 0 /\ Top.vm = loading_stack[Files] /\ Top.vm \in Module
  BY <1>1, <1>2, TypeFacts DEF ModulesInv, Nest, Running
<1> QED BY <1>1, <1>2, <1>3, <1>4

LEMMA MainTop ==
  ASSUME ModulesInv, Running, Top.kind = "main"
  PROVE  Len(active) = 1 /\ Files = 0 /\ loading_stack = <<>> /\ suppress = 0
<1>1. Len(active) = Files + 1
  BY TypeFacts DEF ModulesInv, Nest, CallChain, Running, Top, Last
<1>2. Top = active[Files + 1]
  BY <1>1 DEF Top, Last
<1>3. Files = 0
  BY <1>1, <1>2 DEF ModulesInv, Nest, Running
<1>4. loading_stack = <<>>
  BY <1>3, SeqFacts DEF ModulesInv, TypeOK, Files
<1> QED BY <1>1, <1>2, <1>3, <1>4, TypeFacts DEF ModulesInv, Suppressions, Running

LEMMA CallTop ==
  ASSUME ModulesInv, Running, Top.kind = "call"
  PROVE  /\ Len(active) > Files + 1 /\ Top = active[Len(active)] /\ suppress > 0
         /\ Top \in Activity
<1>1. Top = active[Len(active)]
  BY DEF Top, Last
<1> QED BY <1>1, TypeFacts DEF ModulesInv, Nest, Suppressions, Running

-----------------------------------------------------------------------------
(* The initial state, and the steps one by one.                             *)

LEMMA InitNested == Init => ModulesInv
<1> SUFFICES ASSUME Init PROVE ModulesInv
  OBVIOUS
<1>1. TypeOK
  <2>1. call_depth \in [Vm -> 0 .. CallMax] /\ imported \in [Vm -> SUBSET Module]
    BY ModulesAssumption DEF Init
  <2>2. parse_failed \in [Vm -> BOOLEAN]
    BY DEF Init
  <2>3. /\ active \in Seq(Activity) /\ loading_stack \in Seq(Module) /\ modules \in Seq(Module)
        /\ suppress \in Nat
    BY DEF Init
  <2>4. runtime_had_error \in BOOLEAN
    BY DEF Init
  <2> QED BY <2>1, <2>2, <2>3, <2>4, Zenon DEF TypeOK
<1>2. Registered /\ ImportsBefore
  BY ModulesAssumption DEF Init, Registered, ImportsBefore, Vm
<1> QED BY <1>1, <1>2 DEF Init, ModulesInv

(* Steps that change only what is counted or reported.                      *)
LEMMA SameNest ==
  ASSUME ModulesInv, TypeOK',
         UNCHANGED <<active, loading_stack, modules, imported, suppress>>
  PROVE  ModulesInv'
BY DEF ModulesInv, Registered, ImportsBefore, Nest, CallChain, Suppressions, Files

LEMMA ParseErrorNested == ModulesInv /\ ParseError => ModulesInv'
<1> SUFFICES ASSUME ModulesInv, ParseError PROVE ModulesInv'
  OBVIOUS
<1>1. TypeOK'
  BY ParsingTop DEF ModulesInv, TypeOK, ParseError, Activity
<1> QED BY <1>1, SameNest DEF ParseError

LEMMA ImportCircularNested ==
  ASSUME ModulesInv, NEW m \in Module, ImportCircular(m)
  PROVE  ModulesInv'
<1>1. TypeOK'
  BY ParsingTop DEF ModulesInv, TypeOK, ImportCircular, Activity
<1> QED BY <1>1, SameNest DEF ImportCircular

LEMMA CallNested == ModulesInv /\ Call => ModulesInv'
<1> SUFFICES ASSUME ModulesInv, Call PROVE ModulesInv'
  OBVIOUS
<1>1. Top \in Activity
  BY TypeFacts DEF ModulesInv, Call, Executing, Running, Top, Last
<1>2. call_depth' \in [Vm -> 0 .. CallMax] /\ runtime_had_error' \in BOOLEAN
  <2>1. CASE call_depth[Top.vm] < CallMax
    <3>1. Top.vm \in Vm /\ call_depth[Top.vm] + 1 \in 0 .. CallMax
      BY <1>1, <2>1, ModulesAssumption DEF ModulesInv, TypeOK, Activity
    <3>2. /\ call_depth' = [call_depth EXCEPT ![Top.vm] = @ + 1]
          /\ runtime_had_error' = runtime_had_error
      BY <2>1 DEF Call
    <3>3. call_depth' \in [Vm -> 0 .. CallMax]
      BY <3>1, <3>2 DEF ModulesInv, TypeOK
    <3> QED BY <3>2, <3>3 DEF ModulesInv, TypeOK
  <2>2. CASE ~(call_depth[Top.vm] < CallMax)
    BY <2>2 DEF ModulesInv, TypeOK, Call
  <2> QED BY <2>1, <2>2
<1>3. TypeOK'
  BY <1>2 DEF ModulesInv, TypeOK, Call
<1> QED BY <1>3, SameNest DEF Call

LEMMA ReturnNested == ModulesInv /\ Return => ModulesInv'
<1> SUFFICES ASSUME ModulesInv, Return PROVE ModulesInv'
  OBVIOUS
<1>1. Top \in Activity
  BY TypeFacts DEF ModulesInv, Return, Executing, Running, Top, Last
<1>2. TypeOK'
  BY <1>1, ModulesAssumption DEF ModulesInv, TypeOK, Return, Activity
<1> QED BY <1>2, SameNest DEF Return

LEMMA RuntimeErrorNested == ModulesInv /\ RuntimeError => ModulesInv'
<1> SUFFICES ASSUME ModulesInv, RuntimeError PROVE ModulesInv'
  OBVIOUS
<1>1. TypeOK'
  BY DEF ModulesInv, TypeOK, RuntimeError
<1> QED BY <1>1, SameNest DEF RuntimeError

(* The main program's parse and run.                                        *)
LEMMA NewInputNested == ModulesInv /\ NewInput => ModulesInv'
<1> SUFFICES ASSUME ModulesInv, NewInput PROVE ModulesInv'
  OBVIOUS
<1> DEFINE a == [kind |-> "parse", vm |-> Main, base |-> 0]
<1>1. /\ active' = <<a>> /\ loading_stack = <<>> /\ suppress = 0
      /\ UNCHANGED <<loading_stack, modules, imported, suppress>>
  BY DEF NewInput, ModulesInv
<1>2. a \in Activity
  BY ModulesAssumption DEF Activity, Vm
<1>3. Files' = 0
  BY <1>1 DEF Files
<1>4. Len(active') = 1 /\ DOMAIN active' = {1} /\ active'[1] = a
  BY <1>1
<1>5. TypeOK'
  <2>1. active' \in Seq(Activity)
    BY <1>1, <1>2
  <2> QED BY <2>1, ModulesAssumption DEF NewInput, ModulesInv, TypeOK, Vm
<1>6. Registered' /\ ImportsBefore'
  BY <1>1 DEF ModulesInv, Registered, ImportsBefore
<1>7. Nest' /\ CallChain' /\ Suppressions'
  BY <1>1, <1>3, <1>4 DEF Nest, CallChain, Suppressions
<1> QED BY <1>1, <1>3, <1>4, <1>5, <1>6, <1>7 DEF ModulesInv

LEMMA RunMainNested == ModulesInv /\ RunMain => ModulesInv'
<1> SUFFICES ASSUME ModulesInv, RunMain PROVE ModulesInv'
  OBVIOUS
<1> DEFINE a == [Top EXCEPT !.kind = "main"]
<1>1. /\ Parsing /\ Top.vm = Main /\ active' = <<a>>
      /\ UNCHANGED <<loading_stack, modules, imported, suppress>>
  BY DEF RunMain
<1>2. a \in Activity /\ a.kind = "main" /\ a.vm = Main
  BY <1>1, ParsingTop DEF Activity
<1>3. Files = 0 /\ suppress = 0
  BY <1>1, ParsingTop, ModulesAssumption, TypeFacts DEF ModulesInv
<1>4. Len(active') = 1 /\ DOMAIN active' = {1} /\ active'[1] = a
  BY <1>1
<1>5. TypeOK'
  <2>1. active' \in Seq(Activity)
    BY <1>1, <1>2
  <2> QED BY <2>1 DEF RunMain, ModulesInv, TypeOK
<1>6. Files' = 0 /\ loading_stack' = <<>>
  BY <1>1, <1>3, SeqFacts DEF Files, ModulesInv, TypeOK
<1>7. Registered' /\ ImportsBefore'
  BY <1>1 DEF ModulesInv, Registered, ImportsBefore
<1>8. Nest' /\ CallChain' /\ Suppressions'
  <2> HIDE DEF a
  <2>1. active'[Files' + 1] = a /\ DOMAIN loading_stack' = {} /\ suppress' = 0
    BY <1>1, <1>3, <1>4, <1>6
  <2> QED BY <2>1, <1>2, <1>4, <1>6 DEF Nest, CallChain, Suppressions
<1> QED BY <1>4, <1>5, <1>6, <1>7, <1>8 DEF ModulesInv

LEMMA MainDoneNested == ModulesInv /\ MainDone => ModulesInv'
<1> SUFFICES ASSUME ModulesInv, MainDone PROVE ModulesInv'
  OBVIOUS
<1>1. /\ active' = <<>> /\ loading_stack' = <<>> /\ suppress' = 0
      /\ UNCHANGED <<loading_stack, modules, imported, suppress>>
  BY MainTop DEF MainDone
<1>2. TypeOK'
  BY <1>1 DEF MainDone, ModulesInv, TypeOK
<1>3. Registered' /\ ImportsBefore'
  BY <1>1 DEF ModulesInv, Registered, ImportsBefore
<1> QED BY <1>1, <1>2, <1>3 DEF ModulesInv

(* Imports.                                                                 *)
LEMMA ImportLoadedNested ==
  ASSUME ModulesInv, NEW m \in Module, ImportLoaded(m)
  PROVE  ModulesInv'
<1>1. /\ Parsing /\ m \in ToSet(modules) /\ Top.vm \in Vm
      /\ imported' = [imported EXCEPT ![Top.vm] = @ \cup {m}]
      /\ UNCHANGED <<active, loading_stack, modules, suppress>>
  BY ParsingTop DEF ImportLoaded, find_module, Activity
<1>2. TypeOK'
  BY <1>1 DEF ImportLoaded, ModulesInv, TypeOK
<1>3. \A i \in DOMAIN modules : imported'[modules[i]] = imported[modules[i]]
  BY <1>1, ParsingTop, TypeFacts, ModulesAssumption, SMTT(30) DEF ModulesInv, TypeOK, Registered, Vm
<1>4. \A v \in Vm : imported'[v] \subseteq imported[v] \cup {m}
  BY <1>1 DEF ModulesInv, TypeOK
<1>5. Registered' /\ ImportsBefore'
  <2>1. Registered'
    BY <1>1 DEF ModulesInv, Registered
  <2>2. \A i \in DOMAIN modules : \A n \in imported'[modules[i]] :
          \E j \in DOMAIN modules : j < i /\ modules[j] = n
    BY <1>3 DEF ModulesInv, ImportsBefore
  <2>3. \A n \in imported'[Main] : n \in ToSet(modules)
    BY <1>1, <1>4 DEF ModulesInv, ImportsBefore, Vm
  <2>4. \A i \in DOMAIN loading_stack : \A n \in imported'[loading_stack[i]] : n \in ToSet(modules)
    BY <1>1, <1>4, TypeFacts DEF ModulesInv, ImportsBefore, Vm
  <2> QED BY <1>1, <2>1, <2>2, <2>3, <2>4 DEF ImportsBefore
<1> QED BY <1>1, <1>2, <1>5 DEF ModulesInv, Nest, CallChain, Suppressions, Files

LEMMA ImportFileNested ==
  ASSUME ModulesInv, NEW m \in Module, ImportFile(m)
  PROVE  ModulesInv'
<1> DEFINE a == [kind |-> "parse", vm |-> m, base |-> 0]
<1>1. /\ Parsing /\ m \notin ToSet(modules) /\ m \notin ToSet(loading_stack)
      /\ loading_stack' = Append(loading_stack, m) /\ active' = Append(active, a)
      /\ imported' = [imported EXCEPT ![m] = {}] /\ UNCHANGED <<modules, suppress>>
  BY DEF ImportFile, find_module
<1>2. a \in Activity /\ a.kind = "parse" /\ a.vm = m
  BY ModulesAssumption DEF Activity, Vm
<1> HIDE DEF a
<1>3. /\ Len(active) = Files + 1 /\ suppress = 0 /\ active[Files + 1].kind = "parse"
  BY <1>1, ParsingTop DEF Parsing
<1>4. /\ active' \in Seq(Activity) /\ Len(active') = Len(active) + 1
      /\ DOMAIN active' = 1 .. Len(active) + 1
      /\ \A i \in 1 .. Len(active) : active'[i] = active[i]
      /\ active'[Len(active) + 1] = a
  BY <1>1, <1>2, AppendFacts DEF ModulesInv, TypeOK
<1>5. /\ loading_stack' \in Seq(Module) /\ Files' = Files + 1
      /\ DOMAIN loading_stack' = 1 .. Files + 1
      /\ \A i \in 1 .. Files : loading_stack'[i] = loading_stack[i]
      /\ loading_stack'[Files + 1] = m
  BY <1>1, AppendFacts DEF ModulesInv, TypeOK, Files
<1>6. TypeOK'
  <2>1. /\ call_depth' \in [Vm -> 0 .. CallMax] /\ imported' \in [Vm -> SUBSET Module]
    BY ModulesAssumption DEF ImportFile, ModulesInv, TypeOK, Vm
  <2>2. parse_failed' \in [Vm -> BOOLEAN]
    BY DEF ImportFile, ModulesInv, TypeOK, Vm
  <2> QED BY <1>1, <1>4, <1>5, <2>1, <2>2 DEF ImportFile, ModulesInv, TypeOK
<1>7. Registered'
  BY <1>1, <1>5, TypeFacts DEF ModulesInv, Registered, ToSet
<1>8. ImportsBefore'
  <2>1. imported'[m] = {} /\ \A v \in Vm : v # m => imported'[v] = imported[v]
    BY <1>1 DEF ModulesInv, TypeOK, Vm
  <2>2. \A i \in DOMAIN modules : modules[i] # m /\ modules[i] \in Vm
    BY <1>1, TypeFacts DEF ModulesInv, ToSet, Vm
  <2>3. Main # m /\ Main \in Vm
    BY ModulesAssumption DEF Vm
  <2>4. \A i \in 1 .. Files : loading_stack[i] # m /\ loading_stack[i] \in Vm
    BY <1>1, TypeFacts DEF ModulesInv, ToSet, Vm
  <2>5. \A i \in DOMAIN loading_stack' : \A n \in imported'[loading_stack'[i]] : n \in ToSet(modules)
    BY <1>5, <2>1, <2>4, TypeFacts DEF ModulesInv, ImportsBefore
  <2> QED BY <1>1, <2>1, <2>2, <2>3, <2>5 DEF ModulesInv, ImportsBefore
<1>9. Nest' /\ CallChain' /\ Suppressions'
  <2>1. Nest'
    BY <1>2, <1>3, <1>4, <1>5, TypeFacts DEF ModulesInv, Nest
  <2>2. CallChain'
    BY <1>3, <1>4, <1>5, TypeFacts DEF ModulesInv, CallChain
  <2>3. Suppressions'
    <3>1. active'[Files' + 1] = a /\ Len(active') - Files' - 1 = 0 /\ suppress' = 0
      BY <1>1, <1>3, <1>4, <1>5, TypeFacts DEF ModulesInv
    <3> QED BY <3>1, <1>2 DEF Suppressions
  <2> QED BY <2>1, <2>2, <2>3
<1>10. active' # <<>> /\ Len(active') > Files'
  BY <1>3, <1>4, <1>5, TypeFacts DEF ModulesInv
<1> QED BY <1>6, <1>7, <1>8, <1>9, <1>10 DEF ModulesInv

(* The end of a file's parse or load, whether it failed or not, goes back   *)
(* to the parse of the file that imports it.                                *)
LEMMA BackToImporter ==
  ASSUME ModulesInv, Len(active) = Files + 1, Files > 0, suppress' = 0,
         active' = Front(active), loading_stack' = Front(loading_stack)
  PROVE  /\ Nest' /\ CallChain' /\ Suppressions'
         /\ active' \in Seq(Activity) /\ active' # <<>>
         /\ Files' = Files - 1 /\ Len(active') > Files' /\ Files' \in Nat
         /\ loading_stack' \in Seq(Module) /\ DOMAIN loading_stack' = 1 .. Files - 1
         /\ \A i \in 1 .. Files - 1 : loading_stack'[i] = loading_stack[i]
         /\ Last(Front(active)).vm \in Vm
         /\ Last(Front(active)).vm \in Module =>
              Files > 1 /\ Last(Front(active)).vm = loading_stack[Files - 1]
<1>1. active # <<>> /\ loading_stack # <<>> /\ Files \in Nat
  BY TypeFacts, SeqFacts DEF ModulesInv, TypeOK, Files
<1>2. /\ active' \in Seq(Activity) /\ Len(active') = Files /\ DOMAIN active' = 1 .. Files
      /\ \A i \in 1 .. Files : active'[i] = active[i]
  <2>1. active \in Seq(Activity) /\ Len(active) - 1 = Files
    BY <1>1 DEF ModulesInv, TypeOK
  <2> QED BY <1>1, <2>1, FrontFacts
<1>3. /\ loading_stack' \in Seq(Module) /\ Files' = Files - 1
      /\ DOMAIN loading_stack' = 1 .. Files - 1
      /\ \A i \in 1 .. Files - 1 : loading_stack'[i] = loading_stack[i]
  BY <1>1, FrontFacts DEF ModulesInv, TypeOK, Files
<1>4. active'[Files].kind = "parse"
  BY <1>1, <1>2, TypeFacts DEF ModulesInv, Nest
<1>5. Nest'
  BY <1>1, <1>2, <1>3, <1>4, TypeFacts DEF ModulesInv, Nest
<1>6. CallChain'
  BY <1>1, <1>2, <1>3 DEF CallChain
<1>7. Suppressions'
  <2>1. Files' + 1 = Files /\ Len(active') - Files' - 1 = 0
    BY <1>1, <1>2, <1>3
  <2> QED BY <2>1, <1>4 DEF Suppressions
<1>8. active' # <<>> /\ Len(active') > Files' /\ Files' \in Nat
  BY <1>1, <1>2, <1>3
<1>9. Last(Front(active)) = active[Files]
  BY <1>1, <1>2 DEF Last
<1>10. /\ active[Files].vm \in Vm
       /\ active[Files].vm \in Module => Files > 1 /\ active[Files].vm = loading_stack[Files - 1]
  <2>1. active[Files] \in Activity
    BY <1>1, TypeFacts DEF ModulesInv
  <2>2. CASE Files = 1
    BY <2>1, <2>2, <1>1, ModulesAssumption DEF ModulesInv, Nest, Activity
  <2>3. CASE Files > 1
    <3>1. Files - 1 \in DOMAIN loading_stack /\ (Files - 1) + 1 = Files
      BY <2>3, <1>1, TypeFacts DEF ModulesInv
    <3>2. active[(Files - 1) + 1].vm = loading_stack[Files - 1]
      BY <3>1, <1>1 DEF ModulesInv, Nest
    <3> QED BY <2>1, <2>3, <3>1, <3>2 DEF Activity
  <2> QED BY <2>2, <2>3, <1>1
<1> QED BY <1>2, <1>3, <1>5, <1>6, <1>7, <1>8, <1>9, <1>10

LEMMA ImportFailsNested ==
  ASSUME ModulesInv, Len(active) = Files + 1, Files > 0, suppress' = 0, ImportFails
  PROVE  ModulesInv'
<1>1. /\ active' = Front(active) /\ loading_stack' = Front(loading_stack)
      /\ UNCHANGED <<modules, imported>>
  BY DEF ImportFails
<1>2. Registered'
  <2>1. /\ DOMAIN loading_stack' = 1 .. Files - 1 /\ 1 .. Files - 1 \subseteq DOMAIN loading_stack
        /\ \A i \in 1 .. Files - 1 : loading_stack'[i] = loading_stack[i]
    BY <1>1, BackToImporter, TypeFacts DEF ModulesInv
  <2> QED BY <1>1, <2>1 DEF ModulesInv, Registered
<1>3. ImportsBefore'
  <2>1. \A i \in 1 .. Files - 1 : i \in DOMAIN loading_stack
    BY TypeFacts DEF ModulesInv
  <2> QED BY <2>1, <1>1, BackToImporter DEF ModulesInv, ImportsBefore
<1>4. TypeOK'
  BY <1>1, BackToImporter DEF ImportFails, ModulesInv, TypeOK
<1> QED BY <1>1, <1>2, <1>3, <1>4, BackToImporter DEF ModulesInv

LEMMA LoadUnparsedNested == ModulesInv /\ LoadUnparsed => ModulesInv'
<1> SUFFICES ASSUME ModulesInv, LoadUnparsed PROVE ModulesInv'
  OBVIOUS
<1>1. Len(active) = Files + 1 /\ Files > 0 /\ suppress' = 0
  BY ParsingTop, TypeFacts, ModulesAssumption DEF ModulesInv, LoadUnparsed
<1> QED BY <1>1, ImportFailsNested DEF LoadUnparsed

LEMMA LoadAbortedNested == ModulesInv /\ LoadAborted => ModulesInv'
<1> SUFFICES ASSUME ModulesInv, LoadAborted PROVE ModulesInv'
  OBVIOUS
<1>1. Len(active) = Files + 1 /\ Files > 0 /\ suppress' = 0
  BY LoadTop DEF LoadAborted
<1> QED BY <1>1, ImportFailsNested DEF LoadAborted

LEMMA RunLoadNested == ModulesInv /\ RunLoad => ModulesInv'
<1> SUFFICES ASSUME ModulesInv, RunLoad PROVE ModulesInv'
  OBVIOUS
<1> DEFINE a == [Top EXCEPT !.kind = "load"]
<1>1. /\ Len(active) = Files + 1 /\ Files > 0 /\ Files \in Nat /\ suppress' = 1
      /\ Top = active[Files + 1] /\ Top \in Activity
      /\ active' = Append(Front(active), a)
      /\ UNCHANGED <<loading_stack, modules, imported, call_depth, parse_failed>>
  BY ParsingTop, TypeFacts, ModulesAssumption DEF ModulesInv, RunLoad
<1>2. a \in Activity /\ a.kind = "load" /\ a.vm = Top.vm
  BY <1>1 DEF Activity
<1> HIDE DEF a
<1>3. /\ Front(active) \in Seq(Activity) /\ Len(Front(active)) = Files
      /\ \A i \in 1 .. Files : Front(active)[i] = active[i]
  <2>1. active \in Seq(Activity) /\ Len(active) - 1 = Files /\ active # <<>>
    BY <1>1, TypeFacts DEF ModulesInv, TypeOK
  <2> QED BY <2>1, FrontFacts
<1>4. /\ active' \in Seq(Activity) /\ Len(active') = Files + 1
      /\ DOMAIN active' = 1 .. Files + 1
      /\ \A i \in 1 .. Files : active'[i] = active[i]
      /\ active'[Files + 1] = a
  BY <1>1, <1>2, <1>3, AppendFacts
<1>5. Files' = Files
  BY <1>1 DEF Files
<1>6. TypeOK'
  <2>1. suppress' \in Nat
    BY <1>1
  <2>2. runtime_had_error' \in BOOLEAN
    BY DEF RunLoad
  <2> QED BY <1>1, <1>4, <2>1, <2>2 DEF ModulesInv, TypeOK
<1>7. Registered' /\ ImportsBefore'
  BY <1>1 DEF ModulesInv, Registered, ImportsBefore
<1>8. Nest'
  BY <1>1, <1>2, <1>4, <1>5, TypeFacts DEF ModulesInv, Nest
<1>9. CallChain'
  BY <1>1, <1>4, <1>5 DEF CallChain
<1>10. Suppressions'
  <2>1. active'[Files' + 1] = a /\ Len(active') - Files' - 1 = 0
    BY <1>1, <1>4, <1>5
  <2> QED BY <2>1, <1>1, <1>2 DEF Suppressions
<1> QED BY <1>1, <1>4, <1>5, <1>6, <1>7, <1>8, <1>9, <1>10 DEF ModulesInv

LEMMA LoadDoneNested == ModulesInv /\ LoadDone => ModulesInv'
<1> SUFFICES ASSUME ModulesInv, LoadDone PROVE ModulesInv'
  OBVIOUS
<1> DEFINE v == Top.vm
           P == Last(Front(active)).vm
<1>1. /\ Running /\ Top.kind = "load" /\ active' = Front(active)
      /\ loading_stack' = Front(loading_stack) /\ modules' = Append(modules, v)
      /\ imported' = [imported EXCEPT ![P] = @ \cup {v}]
      /\ UNCHANGED <<call_depth, parse_failed, runtime_had_error>>
  BY DEF LoadDone, Executing
<1>2. /\ Len(active) = Files + 1 /\ Files > 0 /\ suppress' = 0
      /\ v = loading_stack[Files] /\ v \in Module /\ Files \in DOMAIN loading_stack
  BY <1>1, LoadTop, TypeFacts DEF LoadDone, ModulesInv
<1>3. P \in Vm /\ (P \in Module => Files > 1 /\ P = loading_stack[Files - 1])
  BY <1>1, <1>2, BackToImporter
<1> HIDE DEF v, P
<1>4. /\ modules' \in Seq(Module) /\ Len(modules) \in Nat
      /\ Len(modules') = Len(modules) + 1 /\ DOMAIN modules' = 1 .. Len(modules) + 1
      /\ \A i \in 1 .. Len(modules) : modules'[i] = modules[i]
      /\ modules'[Len(modules) + 1] = v
  BY <1>1, <1>2, AppendFacts DEF ModulesInv, TypeOK
<1>5. /\ DOMAIN loading_stack' = 1 .. Files - 1 /\ 1 .. Files - 1 \subseteq DOMAIN loading_stack
      /\ \A i \in 1 .. Files - 1 : loading_stack'[i] = loading_stack[i]
      /\ Files \notin 1 .. Files - 1 /\ Files - 1 # Files
  BY <1>1, <1>2, BackToImporter, TypeFacts DEF ModulesInv
<1>6. TypeOK'
  <2>1. imported' \in [Vm -> SUBSET Module]
    BY <1>1, <1>2, <1>3 DEF ModulesInv, TypeOK
  <2>2. /\ active' \in Seq(Activity) /\ loading_stack' \in Seq(Module) /\ suppress' \in Nat
    BY <1>1, <1>2, BackToImporter
  <2> QED BY <1>1, <1>4, <2>1, <2>2 DEF ModulesInv, TypeOK
<1>7. Registered'
  <2>1. \A i \in DOMAIN modules : modules[i] # v
    BY <1>2 DEF ModulesInv, Registered
  <2>2. \A i \in 1 .. Files - 1 : loading_stack[i] # v
    BY <1>2, <1>5 DEF ModulesInv, Registered
  <2>3. \A i, j \in DOMAIN modules' : modules'[i] = modules'[j] => i = j
    BY <1>4, <2>1, TypeFacts DEF ModulesInv, Registered
  <2>4. \A i, j \in DOMAIN loading_stack' : loading_stack'[i] = loading_stack'[j] => i = j
    BY <1>5 DEF ModulesInv, Registered
  <2>5. \A i \in DOMAIN modules', j \in DOMAIN loading_stack' : modules'[i] # loading_stack'[j]
    BY <1>4, <1>5, <2>2, TypeFacts DEF ModulesInv, Registered
  <2> QED BY <2>3, <2>4, <2>5 DEF Registered
<1>8. ImportsBefore'
  <2>1. \A i \in DOMAIN modules : modules[i] # P
    BY <1>3, <1>5, TypeFacts DEF ModulesInv, Registered
  <2>2. v # P
    BY <1>2, <1>3, <1>5, TypeFacts DEF ModulesInv, Registered
  <2>3. \A u \in Vm : u # P => imported'[u] = imported[u]
    BY <1>1 DEF ModulesInv, TypeOK
  <2>4. \A u \in Vm : imported'[u] \subseteq imported[u] \cup {v}
    BY <1>1 DEF ModulesInv, TypeOK
  <2>5. \A m \in ToSet(modules) \cup {v} : m \in ToSet(modules')
    BY <1>4, TypeFacts DEF ModulesInv, ToSet
  <2>6. \A i \in DOMAIN modules' : \A m \in imported'[modules'[i]] :
          \E j \in DOMAIN modules' : j < i /\ modules'[j] = m
    <3> SUFFICES ASSUME NEW i \in DOMAIN modules', NEW m \in imported'[modules'[i]]
                 PROVE  \E j \in DOMAIN modules' : j < i /\ modules'[j] = m
      OBVIOUS
    <3>1. CASE i = Len(modules) + 1
      <4>1. m \in imported[loading_stack[Files]]
        BY <3>1, <1>2, <1>4, <2>2, <2>3 DEF Vm
      <4>2. m \in ToSet(modules)
        BY <4>1, <1>2 DEF ModulesInv, ImportsBefore
      <4>3. PICK j \in DOMAIN modules : modules[j] = m
        BY <4>2 DEF ToSet
      <4> QED BY <3>1, <4>3, <1>4, TypeFacts DEF ModulesInv
    <3>2. CASE i \in DOMAIN modules
      <4>1. m \in imported[modules[i]]
        BY <3>2, <1>4, <2>1, <2>3, TypeFacts DEF ModulesInv, Vm
      <4>2. PICK j \in DOMAIN modules : j < i /\ modules[j] = m
        BY <3>2, <4>1 DEF ModulesInv, ImportsBefore
      <4> QED BY <4>2, <1>4, TypeFacts DEF ModulesInv
    <3> QED BY <3>1, <3>2, <1>4, TypeFacts DEF ModulesInv
  <2>7. \A m \in imported'[Main] : m \in ToSet(modules')
    BY <2>4, <2>5 DEF ModulesInv, ImportsBefore, Vm
  <2>8. \A i \in DOMAIN loading_stack' : \A m \in imported'[loading_stack'[i]] : m \in ToSet(modules')
    <3>1. \A i \in 1 .. Files - 1 : loading_stack[i] \in Vm
      BY <1>5, TypeFacts DEF ModulesInv, Vm
    <3> QED BY <3>1, <1>5, <2>4, <2>5 DEF ModulesInv, ImportsBefore
  <2> QED BY <2>6, <2>7, <2>8 DEF ImportsBefore
<1> QED BY <1>1, <1>2, <1>6, <1>7, <1>8, BackToImporter DEF ModulesInv

(* Calls of modules' functions.                                             *)
LEMMA ModuleCallNested ==
  ASSUME ModulesInv, NEW m \in Module, ModuleCall(m)
  PROVE  ModulesInv'
<1>1. CASE ~(call_depth[m] < CallMax)
  <2>1. UNCHANGED <<active, loading_stack, modules, imported, suppress>>
    BY <1>1 DEF ModuleCall
  <2>2. TypeOK'
    BY <1>1 DEF ModuleCall, ModulesInv, TypeOK
  <2> QED BY <2>1, <2>2, SameNest
<1>2. CASE call_depth[m] < CallMax
  <2> DEFINE a == [kind |-> "call", vm |-> m, base |-> call_depth[m]]
  <2>1. /\ Running /\ m \in imported[Top.vm] /\ m \in ToSet(modules)
        /\ active' = Append(active, a) /\ suppress' = suppress + 1
        /\ call_depth' = [call_depth EXCEPT ![m] = @ + 1]
        /\ UNCHANGED <<loading_stack, modules, imported, parse_failed, runtime_had_error>>
    BY <1>2 DEF ModuleCall, Executing, find_module, Begin
  <2>2. a \in Activity /\ a.kind = "call" /\ a.vm = m
    BY DEF Activity, Vm, ModulesInv, TypeOK
  <2> HIDE DEF a
  <2>3. /\ active' \in Seq(Activity) /\ Len(active') = Len(active) + 1
        /\ DOMAIN active' = 1 .. Len(active) + 1
        /\ \A i \in 1 .. Len(active) : active'[i] = active[i]
        /\ active'[Len(active) + 1] = a
    BY <2>1, <2>2, AppendFacts DEF ModulesInv, TypeOK
  <2>4. Files' = Files /\ Files \in Nat /\ Len(active) \in Nat /\ Len(active) > Files
    BY <2>1, TypeFacts DEF Files, ModulesInv, Running
  <2>5. Top = active[Len(active)] /\ active[Files + 1].kind # "parse"
    BY <2>1, <2>4 DEF ModulesInv, Nest, Running, Top, Last
  <2>6. TypeOK'
    <3>1. call_depth[m] + 1 \in 0 .. CallMax
      BY <1>2, ModulesAssumption DEF ModulesInv, TypeOK, Vm
    <3>2. call_depth' \in [Vm -> 0 .. CallMax]
      BY <2>1, <3>1 DEF ModulesInv, TypeOK
    <3> QED BY <2>1, <2>3, <3>2 DEF ModulesInv, TypeOK
  <2>7. Registered' /\ ImportsBefore'
    BY <2>1 DEF ModulesInv, Registered, ImportsBefore
  <2>8. Nest'
    <3>1. Nest
      BY <2>1 DEF ModulesInv, Running
    <3>2. \A i \in DOMAIN loading_stack : active'[i] = active[i] /\ active'[i + 1] = active[i + 1]
      BY <2>3, <2>4, TypeFacts DEF ModulesInv
    <3>3. active'[1] = active[1] /\ active'[Files + 1] = active[Files + 1]
      BY <2>3, <2>4
    <3> QED BY <2>1, <2>4, <2>5, <3>1, <3>2, <3>3 DEF Nest
  <2>9. Suppressions'
    <3>1. active'[Files' + 1] = active[Files + 1]
      BY <2>3, <2>4
    <3>2. suppress = Len(active) - Files - 1 + (IF active[Files + 1].kind = "load" THEN 1 ELSE 0)
      BY <2>1 DEF ModulesInv, Suppressions, Running
    <3> QED BY <2>1, <2>3, <2>4, <3>1, <3>2 DEF Suppressions
  <2>10. CallChain'
    <3>1. PICK q0 \in DOMAIN modules : modules[q0] = m
      BY <2>1 DEF ToSet
    <3>2. \A i \in DOMAIN active' : i > Files' + 1 =>
            active'[i].kind = "call" /\ \E p \in DOMAIN modules' : modules'[p] = active'[i].vm
      BY <2>1, <2>2, <2>3, <2>4, <3>1, TypeFacts DEF ModulesInv, CallChain, Running
    <3>3. ASSUME NEW i \in DOMAIN active, Files + 1 < i,
                 NEW p \in DOMAIN modules, modules[p] = active[i].vm
          PROVE  q0 < p
      <4>1. Len(active) \in DOMAIN active /\ Len(active) > Files + 1 /\ i <= Len(active)
        BY <2>4, <3>3, TypeFacts DEF ModulesInv
      <4>2. PICK t \in DOMAIN modules : modules[t] = Top.vm
        BY <2>1, <2>5, <4>1 DEF ModulesInv, CallChain, Running
      <4>3. q0 < t
        BY <2>1, <3>1, <4>2 DEF ModulesInv, ImportsBefore, Registered
      <4>4. CASE i = Len(active)
        BY <2>5, <3>3, <4>2, <4>3, <4>4 DEF ModulesInv, Registered
      <4>5. CASE i < Len(active)
        <5>1. t < p
          BY <2>1, <2>5, <3>3, <4>1, <4>2, <4>5 DEF ModulesInv, CallChain, Running
        <5> QED BY <4>3, <5>1, TypeFacts DEF ModulesInv
      <4> QED BY <4>1, <4>4, <4>5, TypeFacts DEF ModulesInv
    <3>4. ASSUME NEW i \in DOMAIN active', NEW j \in DOMAIN active', Files' + 1 < i, i < j,
                 NEW p \in DOMAIN modules', NEW q \in DOMAIN modules',
                 modules'[p] = active'[i].vm, modules'[q] = active'[j].vm
          PROVE  q < p
      <4>1. i \in DOMAIN active /\ active'[i] = active[i] /\ Files + 1 < i
        BY <2>3, <2>4, <3>4, TypeFacts DEF ModulesInv
      <4>2. CASE j = Len(active) + 1
        <5>1. q = q0
          BY <2>1, <2>2, <2>3, <3>1, <3>4, <4>2 DEF ModulesInv, Registered
        <5> QED BY <2>1, <3>3, <3>4, <4>1, <5>1
      <4>3. CASE j \in DOMAIN active
        BY <2>1, <2>3, <3>4, <4>1, <4>3, TypeFacts DEF ModulesInv, CallChain, Running
      <4> QED BY <2>3, <2>4, <4>2, <4>3, TypeFacts DEF ModulesInv
    <3> QED BY <3>2, <3>4 DEF CallChain
  <2>11. active' # <<>> /\ Len(active') > Files'
    BY <2>3, <2>4
  <2> QED BY <2>6, <2>7, <2>8, <2>9, <2>10, <2>11 DEF ModulesInv
<1> QED BY <1>1, <1>2

LEMMA CallDoneNested == ModulesInv /\ CallDone => ModulesInv'
<1> SUFFICES ASSUME ModulesInv, CallDone PROVE ModulesInv'
  OBVIOUS
<1>1. /\ Running /\ Top.kind = "call" /\ active' = Front(active) /\ suppress' = suppress - 1
      /\ UNCHANGED <<loading_stack, modules, imported, parse_failed, runtime_had_error>>
  BY DEF CallDone
<1>2. /\ Len(active) > Files + 1 /\ Files \in Nat /\ Len(active) \in Nat /\ suppress > 0
      /\ Top \in Activity /\ active \in Seq(Activity) /\ active # <<>>
  BY <1>1, CallTop, TypeFacts DEF ModulesInv, TypeOK, Running
<1>3. /\ active' \in Seq(Activity) /\ Len(active') = Len(active) - 1
      /\ DOMAIN active' = 1 .. Len(active) - 1
      /\ \A i \in 1 .. Len(active) - 1 : active'[i] = active[i]
  BY <1>1, <1>2, FrontFacts
<1>4. Files' = Files /\ active'[Files + 1] = active[Files + 1]
  BY <1>1, <1>2, <1>3 DEF Files
<1>5. TypeOK'
  <2>1. call_depth' \in [Vm -> 0 .. CallMax]
    BY <1>2 DEF CallDone, ModulesInv, TypeOK, Activity
  <2>2. suppress' \in Nat
    BY <1>1, <1>2 DEF ModulesInv, TypeOK
  <2> QED BY <1>1, <1>3, <2>1, <2>2 DEF ModulesInv, TypeOK
<1>6. Registered' /\ ImportsBefore'
  BY <1>1 DEF ModulesInv, Registered, ImportsBefore
<1>7. Nest'
  <2>1. active[Files + 1].kind # "parse"
    BY <1>2 DEF ModulesInv, Nest
  <2>2. Nest
    BY <1>2 DEF ModulesInv
  <2>3. \A i \in DOMAIN loading_stack : active'[i] = active[i] /\ active'[i + 1] = active[i + 1]
    BY <1>2, <1>3, TypeFacts DEF ModulesInv
  <2>4. active'[1] = active[1]
    BY <1>2, <1>3
  <2> QED BY <1>1, <1>4, <2>1, <2>2, <2>3, <2>4 DEF Nest
<1>8. CallChain'
  <2>1. CallChain /\ DOMAIN active = 1 .. Len(active)
    BY <1>2, TypeFacts DEF ModulesInv
  <2>2. \A i \in DOMAIN active' : i \in DOMAIN active /\ active'[i] = active[i]
    BY <1>2, <1>3, <2>1
  <2> QED BY <1>1, <1>4, <2>1, <2>2 DEF CallChain
<1>9. Suppressions'
  <2>1. suppress = Len(active) - Files - 1 + (IF active[Files + 1].kind = "load" THEN 1 ELSE 0)
    BY <1>2 DEF ModulesInv, Suppressions
  <2> QED BY <2>1, <1>1, <1>2, <1>3, <1>4 DEF Suppressions
<1>10. active' # <<>> /\ Len(active') > Files'
  BY <1>2, <1>3, <1>4
<1> QED BY <1>5, <1>6, <1>7, <1>8, <1>9, <1>10 DEF ModulesInv

-----------------------------------------------------------------------------
(* Every nest of imports, runs and calls keeps the invariant.               *)
THEOREM ModulesInvariant == Spec => []ModulesInv
<1>1. Init => ModulesInv
  BY InitNested
<1>2. ModulesInv /\ [Next]_vars => ModulesInv'
  <2> SUFFICES ASSUME ModulesInv, [Next]_vars PROVE ModulesInv'
    OBVIOUS
  <2>1. CASE NewInput \/ ParseError \/ LoadUnparsed \/ RunLoad \/ RunMain
    BY <2>1, NewInputNested, ParseErrorNested, LoadUnparsedNested, RunLoadNested, RunMainNested
  <2>2. CASE Step
    BY <2>2, CallNested, ReturnNested, RuntimeErrorNested, CallDoneNested, LoadDoneNested,
       LoadAbortedNested, MainDoneNested DEF Step
  <2>3. CASE \E m \in Module : ImportLoaded(m) \/ ImportCircular(m) \/ ImportFile(m) \/ ModuleCall(m)
    BY <2>3, ImportLoadedNested, ImportCircularNested, ImportFileNested, ModuleCallNested
  <2>4. CASE UNCHANGED vars
    <3>1. TypeOK'
      BY <2>4 DEF ModulesInv, TypeOK, vars
    <3> QED BY <2>4, <3>1, SameNest DEF vars
  <2> QED BY <2>1, <2>2, <2>3, <2>4 DEF Next
<1> QED BY <1>1, <1>2, PTL DEF Spec

(* Every variable of the model keeps its type, for any files and limit.     *)
THEOREM ModulesTypes == Spec => []TypeOK
<1>1. ModulesInv => TypeOK
  BY DEF ModulesInv
<1> QED BY <1>1, ModulesInvariant, PTL

(* aer_module_load runs no file's top level to its end a second time.       *)
THEOREM ModulesLoadOnce == Spec => []LoadedOnce
<1>1. ModulesInv => LoadedOnce
  BY DEF ModulesInv, Registered, LoadedOnce
<1> QED BY <1>1, ModulesInvariant, PTL

(* vm_gc_suppress and vm_gc_unsuppress are balanced whenever the main       *)
(* program runs or main.c waits for input, whatever failed in between.      *)
THEOREM SuppressionBalanced == Spec => []SuppressionEnds
<1>1. ModulesInv => SuppressionEnds
  <2> SUFFICES ASSUME ModulesInv PROVE SuppressionEnds
    OBVIOUS
  <2>1. CASE active = <<>>
    BY <2>1 DEF ModulesInv, SuppressionEnds
  <2>2. CASE active # <<>> /\ Top.kind = "main"
    BY <2>2, MainTop DEF SuppressionEnds, Running
  <2> QED BY <2>1, <2>2 DEF SuppressionEnds
<1> QED BY <1>1, ModulesInvariant, PTL

(* Where gc_collect may run, every VM in use is one that it marks.          *)
THEOREM CollectorSees == Spec => []CollectorSeesAll
<1>1. ModulesInv => CollectorSeesAll
  <2> SUFFICES ASSUME ModulesInv, Running, suppress = 0
               PROVE  \A i \in DOMAIN active : active[i].vm \in ToSet(modules) \cup {Top.vm}
    BY DEF CollectorSeesAll
  <2>1. Top = active[Len(active)] /\ Top.kind \in {"main", "load", "call"}
    BY TypeFacts DEF ModulesInv, Running, Top, Last, Activity
  <2>2. Top.kind = "main"
    BY <2>1, LoadTop, CallTop
  <2>3. Len(active) = 1
    BY <2>2, MainTop
  <2> QED BY <2>1, <2>3, TypeFacts DEF ModulesInv
<1> QED BY <1>1, ModulesInvariant, PTL

(* No VM is parsed for or run while an earlier parse or run of it is still  *)
(* in progress, however modules import and call each other.                 *)
THEOREM NoReentry == Spec => []NeverReentered
<1>1. ModulesInv => NeverReentered
  <2> SUFFICES ASSUME ModulesInv, NEW i \in DOMAIN active, NEW j \in DOMAIN active,
                      active[i].vm = active[j].vm, i < j
               PROVE  FALSE
    BY TypeFacts DEF NeverReentered, ModulesInv
  <2>1. /\ i \in Nat /\ j \in Nat /\ 1 <= i /\ Files \in Nat
        /\ Nest /\ CallChain /\ Registered
    BY TypeFacts, SeqFacts DEF ModulesInv
  <2>2. \A k \in DOMAIN active : k > Files + 1 => active[k].vm \in Module
    BY <2>1, TypeFacts DEF ModulesInv, CallChain
  <2>3. \A k \in DOMAIN active : 1 < k /\ k <= Files + 1 =>
          k - 1 \in DOMAIN loading_stack /\ active[k].vm = loading_stack[k - 1]
                                         /\ active[k].vm \in Module
    <3> SUFFICES ASSUME NEW k \in DOMAIN active, 1 < k, k <= Files + 1
                 PROVE  k - 1 \in DOMAIN loading_stack /\ active[k].vm = loading_stack[k - 1]
                                                       /\ active[k].vm \in Module
      OBVIOUS
    <3>1. k \in Nat /\ k - 1 \in DOMAIN loading_stack /\ (k - 1) + 1 = k
      BY <2>1, TypeFacts DEF ModulesInv
    <3>2. active[(k - 1) + 1].vm = loading_stack[k - 1]
      BY <2>1, <3>1 DEF Nest
    <3> QED BY <3>1, <3>2, TypeFacts DEF ModulesInv
  <2>4. CASE j > Files + 1 /\ i > Files + 1
    BY <2>1, <2>4, TypeFacts DEF ModulesInv, CallChain
  <2>5. CASE j > Files + 1 /\ 1 < i /\ i <= Files + 1
    BY <2>1, <2>3, <2>5 DEF CallChain, Registered
  <2>6. CASE i = 1
    BY <2>1, <2>2, <2>3, <2>6, ModulesAssumption DEF Nest
  <2>7. CASE 1 < i /\ j <= Files + 1
    BY <2>1, <2>3, <2>7 DEF Registered
  <2> QED BY <2>1, <2>4, <2>5, <2>6, <2>7
<1> QED BY <1>1, ModulesInvariant, PTL


-----------------------------------------------------------------------------
(* Terminal.                                                                *)

(* What the program never does: enter a line while an older one is shown,   *)
(* and walk back beyond the ring.                                           *)
WithinRing == Reenter = FALSE /\ Deep = FALSE

(* The file is a sequence of lines.                                         *)
Whole == history # <<>> => history[Len(history)] = NewLine

(* history_position is where a line starts that the ring has whole.         *)
AtEntry ==
  /\ history_position > 0 => history[history_position] = NewLine
  /\ InRing(history_position)

PastOk == RingIsTail /\ Whole /\ AtEntry

(* The text has no byte that would end it, and unless a line had two        *)
(* erasures, what is behind it is empty but for as many bytes as were       *)
(* erased.                                                                  *)
TextOk == \A i \in 0 .. length - 1 : buffer[i] \in Char
BehindOk ==
  /\ buffer[LineMax + 1] = Nul
  /\ pc # "line" /\ erased < 2 => \A i \in length + erased .. LineMax + 1 : buffer[i] = Nul
  /\ pc = "line" => /\ buffer[length] = NewLine
                    /\ erased < 2 => \A i \in length + 1 .. LineMax + 1 : buffer[i] = Nul
BufferOk == TextOk /\ BehindOk

TerminalInv == TerminalTypeOK /\ PastOk /\ BufferOk /\ TypedIsRead

-----------------------------------------------------------------------------
(* The ring.                                                                *)

LEMMA RingSize == COMMAND_SIZE \in Nat \ {0} /\ LineMax \in Nat
BY TerminalAssumption

LEMMA AtFacts ==
  ASSUME TerminalTypeOK, NEW i \in Nat
  PROVE  i % COMMAND_SIZE \in 0 .. COMMAND_SIZE - 1 /\ At(i) \in Byte
<1>1. i % COMMAND_SIZE \in 0 .. COMMAND_SIZE - 1
  BY RingSize, ModRange
<1> QED BY <1>1 DEF At, TerminalTypeOK

(* The last bytes of the file are where At looks for them.                  *)
LEMMA RingHas ==
  ASSUME NEW bytes \in Seq(Char \cup {NewLine}), NEW k \in 1 .. Len(bytes),
         k > Len(bytes) - COMMAND_SIZE
  PROVE  Ring(bytes)[(k - 1) % COMMAND_SIZE] = bytes[k]
<1> DEFINE i == (k - 1) % COMMAND_SIZE
           at == {m \in DOMAIN bytes : (m - 1) % COMMAND_SIZE = i}
<1>1. /\ Len(bytes) \in Nat /\ DOMAIN bytes = 1 .. Len(bytes) /\ k \in Nat /\ k - 1 \in Nat
  BY SeqFacts
<1>2. i \in 0 .. COMMAND_SIZE - 1
  BY <1>1, RingSize, ModRange
<1>3. k \in at /\ at \in SUBSET Nat /\ \A m \in at : m <= Len(bytes)
  BY <1>1
<1>4. ASSUME NEW m \in at PROVE m <= k
  <2>1. m \in Nat /\ m - 1 \in Nat /\ m <= Len(bytes) /\ (m - 1) % COMMAND_SIZE = (k - 1) % COMMAND_SIZE
    BY <1>1
  <2>2. ASSUME k < m PROVE FALSE
    <3>1. k - 1 < m - 1
      BY <1>1, <2>1, <2>2
    <3>2. (m - 1) >= (k - 1) + COMMAND_SIZE
      BY <1>1, <2>1, <3>1, RingSize, SameResidue
    <3> QED BY <1>1, <2>1, <3>2, RingSize
  <2> QED BY <1>1, <2>1, <2>2
<1> HIDE DEF at, i
<1>5. Max(at) = k
  <2>1. Max(at) \in at /\ \A m \in at : m <= Max(at)
    BY <1>1, <1>3, MaxFacts
  <2>2. Max(at) <= k /\ k <= Max(at) /\ Max(at) \in Nat
    BY <1>3, <1>4, <2>1
  <2> QED BY <1>1, <2>2
<1>6. Ring(bytes)[i] = IF at = {} THEN Nul ELSE bytes[Max(at)]
  BY <1>2 DEF Ring, at
<1> QED BY <1>3, <1>5, <1>6 DEF i

LEMMA RingType ==
  ASSUME NEW bytes \in Seq(Char \cup {NewLine})
  PROVE  Ring(bytes) \in [0 .. COMMAND_SIZE - 1 -> Byte]
<1> SUFFICES ASSUME NEW i \in 0 .. COMMAND_SIZE - 1
             PROVE  LET at == {k \in DOMAIN bytes : (k - 1) % COMMAND_SIZE = i}
                    IN (IF at = {} THEN Nul ELSE bytes[Max(at)]) \in Byte
  BY DEF Ring
<1> DEFINE at == {k \in DOMAIN bytes : (k - 1) % COMMAND_SIZE = i}
<1>1. Len(bytes) \in Nat /\ DOMAIN bytes = 1 .. Len(bytes) /\ \A k \in 1 .. Len(bytes) : bytes[k] \in Byte
  BY SeqFacts DEF Byte
<1>2. at \in SUBSET Nat /\ at \subseteq 1 .. Len(bytes) /\ \A m \in at : m <= Len(bytes)
  BY <1>1
<1> HIDE DEF at
<1>3. at # {} => Max(at) \in at
  BY <1>1, <1>2, MaxFacts
<1>4. (IF at = {} THEN Nul ELSE bytes[Max(at)]) \in Byte
  BY <1>1, <1>2, <1>3 DEF Byte
<1> QED BY <1>4 DEF at

-----------------------------------------------------------------------------
(* What the keys make of the buffer.                                        *)

LEMMA BufferFacts ==
  ASSUME TerminalTypeOK
  PROVE  /\ DOMAIN buffer = 0 .. LineMax + 1 /\ \A i \in 0 .. LineMax + 1 : buffer[i] \in Byte
         /\ length \in Nat /\ position \in Nat /\ position <= length /\ length <= LineMax
         /\ LineMax \in Nat /\ erased \in 0 .. 2
BY RingSize DEF TerminalTypeOK

LEMMA InsertBuffer ==
  ASSUME TerminalTypeOK, NEW c \in Char, Insert(c)
  PROVE  /\ buffer' \in [0 .. LineMax + 1 -> Byte] /\ length' <= LineMax
         /\ \A i \in 0 .. LineMax + 1 :
              buffer'[i] = IF i < position THEN buffer[i]
                           ELSE IF i = position THEN c
                           ELSE IF i <= length THEN buffer[i - 1] ELSE buffer[i]
<1> DEFINE n == length - position
           m == Moved(buffer, position + 1, position, n)
<1>1. /\ m = [i \in 0 .. LineMax + 1 |-> IF i \in position + 1 .. position + 1 + n - 1
                                         THEN buffer[i - (position + 1) + position] ELSE buffer[i]]
      /\ buffer' = [m EXCEPT ![position] = c] /\ length' = length + 1 /\ length < LineMax
  BY BufferFacts DEF Insert, Moved
<1> HIDE DEF m
<1>2. \A i \in 0 .. LineMax + 1 :
        m[i] = IF position < i /\ i <= length THEN buffer[i - 1] ELSE buffer[i]
  <2> SUFFICES ASSUME NEW i \in 0 .. LineMax + 1
               PROVE  m[i] = IF position < i /\ i <= length THEN buffer[i - 1] ELSE buffer[i]
    OBVIOUS
  <2>1. i \in position + 1 .. position + 1 + n - 1 <=> position < i /\ i <= length
    BY BufferFacts
  <2>2. i - (position + 1) + position = i - 1
    BY BufferFacts
  <2> QED BY <1>1, <2>1, <2>2
<1>3. DOMAIN m = 0 .. LineMax + 1 /\ position \in 0 .. LineMax + 1
  BY <1>1, BufferFacts
<1>4. \A i \in 0 .. LineMax + 1 :
        buffer'[i] = IF i < position THEN buffer[i]
                     ELSE IF i = position THEN c
                     ELSE IF i <= length THEN buffer[i - 1] ELSE buffer[i]
  BY <1>1, <1>2, <1>3, BufferFacts
<1>5. \A i \in 0 .. LineMax + 1 : buffer'[i] \in Byte
  <2> SUFFICES ASSUME NEW i \in 0 .. LineMax + 1 PROVE buffer'[i] \in Byte
    OBVIOUS
  <2>1. c \in Byte
    BY DEF Byte
  <2>2. i > position => i - 1 \in 0 .. LineMax + 1
    BY BufferFacts
  <2> QED BY <1>4, <2>1, <2>2, BufferFacts
<1>6. DOMAIN buffer' = 0 .. LineMax + 1 /\ buffer' = [i \in DOMAIN buffer' |-> buffer'[i]]
  BY <1>1, <1>3
<1> QED BY <1>1, <1>4, <1>5, <1>6, BufferFacts

LEMMA DeleteBuffer ==
  ASSUME TerminalTypeOK, Delete
  PROVE  /\ buffer' \in [0 .. LineMax + 1 -> Byte] /\ length > 0
         /\ \A i \in 0 .. LineMax + 1 :
              buffer'[i] = IF position <= i /\ i < length THEN buffer[i + 1] ELSE buffer[i]
<1> DEFINE n == length - position
<1>1. /\ buffer' = [i \in 0 .. LineMax + 1 |-> IF i \in position .. position + n - 1
                                               THEN buffer[i - position + (position + 1)] ELSE buffer[i]]
      /\ position < length
  BY BufferFacts DEF Delete, Moved
<1>2. ASSUME NEW i \in 0 .. LineMax + 1
      PROVE  /\ buffer'[i] = IF position <= i /\ i < length THEN buffer[i + 1] ELSE buffer[i]
             /\ buffer'[i] \in Byte
  <2>1. i \in position .. position + n - 1 <=> position <= i /\ i < length
    BY BufferFacts
  <2>2. i - position + (position + 1) = i + 1
    BY BufferFacts
  <2>3. buffer'[i] = IF position <= i /\ i < length THEN buffer[i + 1] ELSE buffer[i]
    BY <1>1, <2>1, <2>2
  <2>4. i < length => i + 1 \in 0 .. LineMax + 1
    BY BufferFacts
  <2> QED BY <2>3, <2>4, BufferFacts
<1> QED BY <1>1, <1>2, BufferFacts

LEMMA BackspaceBuffer ==
  ASSUME TerminalTypeOK, Backspace
  PROVE  /\ buffer' \in [0 .. LineMax + 1 -> Byte] /\ length > 0
         /\ \A i \in 0 .. LineMax + 1 :
              buffer'[i] = IF position - 1 <= i /\ i < length - 1 THEN buffer[i + 1] ELSE buffer[i]
<1> DEFINE n == length - position
<1>1. /\ buffer' = [i \in 0 .. LineMax + 1 |-> IF i \in position - 1 .. position - 1 + n - 1
                                               THEN buffer[i - (position - 1) + position] ELSE buffer[i]]
      /\ position > 0
  BY BufferFacts DEF Backspace, Moved
<1>2. ASSUME NEW i \in 0 .. LineMax + 1
      PROVE  /\ buffer'[i] = IF position - 1 <= i /\ i < length - 1 THEN buffer[i + 1] ELSE buffer[i]
             /\ buffer'[i] \in Byte
  <2>1. i \in position - 1 .. position - 1 + n - 1 <=> position - 1 <= i /\ i < length - 1
    BY <1>1, BufferFacts
  <2>2. i - (position - 1) + position = i + 1
    BY BufferFacts
  <2>3. buffer'[i] = IF position - 1 <= i /\ i < length - 1 THEN buffer[i + 1] ELSE buffer[i]
    BY <1>1, <2>1, <2>2
  <2>4. i < length - 1 => i + 1 \in 0 .. LineMax + 1
    BY BufferFacts
  <2> QED BY <2>3, <2>4, BufferFacts
<1> QED BY <1>1, <1>2, BufferFacts

LEMMA ClearedFacts ==
  ASSUME TerminalTypeOK, BufferOk
  PROVE  /\ Cleared \in [0 .. LineMax + 1 -> Byte]
         /\ \A i \in 0 .. LineMax + 1 : Cleared[i] = IF i <= length THEN Nul ELSE buffer[i]
         /\ Cleared[LineMax + 1] = Nul
         /\ erased < 2 => \A i \in 0 .. LineMax + 1 : Cleared[i] = Nul
<1>1. /\ Cleared = [i \in 0 .. LineMax + 1 |-> IF i <= length THEN Nul ELSE buffer[i]]
      /\ Nul \in Byte
  BY BufferFacts DEF Cleared, Byte
<1>2. /\ Cleared \in [0 .. LineMax + 1 -> Byte]
      /\ \A i \in 0 .. LineMax + 1 : Cleared[i] = IF i <= length THEN Nul ELSE buffer[i]
  BY <1>1, BufferFacts
<1>3. Cleared[LineMax + 1] = Nul
  BY <1>2, BufferFacts DEF BufferOk, BehindOk
<1>4. ASSUME erased < 2, NEW i \in 0 .. LineMax + 1 PROVE Cleared[i] = Nul
  <2>1. i > length => buffer[i] = Nul
    <3>1. i > length => i \in length + erased .. LineMax + 1 /\ i \in length + 1 .. LineMax + 1
      BY <1>4, BufferFacts
    <3> QED BY <1>4, <3>1 DEF BufferOk, BehindOk
  <2> QED BY <1>2, <2>1, BufferFacts
<1> QED BY <1>2, <1>3, <1>4

(* The text as a sequence.                                                  *)
LEMMA TextFacts ==
  ASSUME TerminalTypeOK, TextOk
  PROVE  /\ Text \in Seq(Char) /\ Len(Text) = length /\ length \in Nat
         /\ \A i \in 1 .. length : Text[i] = buffer[i - 1]
         /\ Text = <<>> <=> length = 0
<1>1. Text \in [1 .. length -> Char]
  <2>1. \A i \in 1 .. length : i - 1 \in 0 .. length - 1
    BY BufferFacts
  <2> QED BY <2>1 DEF Text, TextOk
<1>2. Text \in Seq(Char) /\ Len(Text) = length
  BY <1>1, BufferFacts, SeqOfFunction
<1>3. \A i \in 1 .. length : Text[i] = buffer[i - 1]
  BY DEF Text
<1> QED BY <1>2, <1>3, BufferFacts

-----------------------------------------------------------------------------
(* Steps that edit.                                                         *)

LEMMA SamePast == ASSUME PastOk, UNCHANGED past PROVE PastOk'
<1>1. UNCHANGED <<history, history_buffer, history_position, history_length>>
  BY DEF past
<1> QED BY <1>1 DEF PastOk, RingIsTail, Whole, AtEntry, InRing, At

LEMMA EraseFacts ==
  ASSUME TerminalTypeOK, Erase
  PROVE  /\ erased' \in 0 .. 2 /\ typed' \in Seq(Char \cup {NewLine})
         /\ erased' < 2 => erased = 0 /\ erased' = 1 /\ typed' = typed
<1>1. erased \in 0 .. 2 /\ typed \in Seq(Char \cup {NewLine}) /\ <<>> \in Seq(Char \cup {NewLine})
  BY DEF TerminalTypeOK
<1> QED BY <1>1 DEF Erase

LEMMA InsertKeeps ==
  ASSUME TerminalInv, NEW c \in Char, Insert(c)
  PROVE  TerminalInv'
<1> USE DEF TerminalInv
<1>1. /\ buffer' \in [0 .. LineMax + 1 -> Byte] /\ length' <= LineMax
      /\ \A i \in 0 .. LineMax + 1 :
           buffer'[i] = IF i < position THEN buffer[i]
                        ELSE IF i = position THEN c
                        ELSE IF i <= length THEN buffer[i - 1] ELSE buffer[i]
  BY InsertBuffer
<1>2. /\ length' = length + 1 /\ position' = position + 1 /\ pc = "edit" /\ pc' = "edit"
      /\ UNCHANGED <<history, history_buffer, history_position, history_length, block_buf, in_block, erased, typed>>
  BY DEF Insert, Editing, past, shell, seen
<1>3. TerminalTypeOK'
  BY <1>1, <1>2, BufferFacts DEF TerminalTypeOK
<1>4. PastOk'
  BY <1>2, SamePast DEF past
<1>5. TextOk'
  <2> SUFFICES ASSUME NEW i \in 0 .. length PROVE buffer'[i] \in Char
    BY <1>2, BufferFacts DEF TextOk
  <2>1. i \in 0 .. LineMax + 1 /\ (i > position => i - 1 \in 0 .. length - 1) /\ (i < position => i \in 0 .. length - 1)
    BY BufferFacts
  <2> QED BY <1>1, <2>1, BufferFacts DEF BufferOk, TextOk
<1>6. BehindOk'
  <2>1. buffer'[LineMax + 1] = Nul
    BY <1>1, <1>2, BufferFacts DEF BufferOk, BehindOk
  <2>2. ASSUME erased < 2, NEW i \in length + 1 + erased .. LineMax + 1 PROVE buffer'[i] = Nul
    <3>1. i \in 0 .. LineMax + 1 /\ i > length /\ i > position /\ i \in length + erased .. LineMax + 1
      BY BufferFacts
    <3> QED BY <1>1, <1>2, <2>2, <3>1, BufferFacts DEF BufferOk, BehindOk
  <2> QED BY <1>2, <2>1, <2>2 DEF BehindOk
<1>7. TypedIsRead'
  BY <1>2 DEF TypedIsRead
<1> QED BY <1>3, <1>4, <1>5, <1>6, <1>7 DEF BufferOk

LEMMA DeleteKeeps ==
  ASSUME TerminalInv, Delete
  PROVE  TerminalInv'
<1> USE DEF TerminalInv
<1>1. /\ buffer' \in [0 .. LineMax + 1 -> Byte] /\ length > 0
      /\ \A i \in 0 .. LineMax + 1 :
           buffer'[i] = IF position <= i /\ i < length THEN buffer[i + 1] ELSE buffer[i]
  BY DeleteBuffer
<1>2. /\ length' = length - 1 /\ position' = position /\ position < length /\ pc = "edit" /\ pc' = "edit"
      /\ UNCHANGED <<history, history_buffer, history_position, history_length, block_buf, in_block>>
  BY DEF Delete, Editing, past, shell
<1>3. /\ erased' \in 0 .. 2 /\ typed' \in Seq(Char \cup {NewLine})
      /\ erased' < 2 => erased = 0 /\ erased' = 1 /\ typed' = typed
  BY EraseFacts DEF Delete
<1>4. TerminalTypeOK'
  <2>1. length' \in 0 .. LineMax /\ position' \in 0 .. length'
    BY <1>1, <1>2, BufferFacts
  <2> QED BY <1>1, <1>2, <1>3, <2>1 DEF TerminalTypeOK
<1>5. PastOk'
  BY <1>2, SamePast DEF past
<1>6. TextOk'
  <2> SUFFICES ASSUME NEW i \in 0 .. length - 2 PROVE buffer'[i] \in Char
    BY <1>2, BufferFacts DEF TextOk
  <2>1. i \in 0 .. LineMax + 1 /\ i + 1 \in 0 .. length - 1 /\ i \in 0 .. length - 1
    BY BufferFacts
  <2> QED BY <1>1, <2>1 DEF BufferOk, TextOk
<1>7. BehindOk'
  <2>1. buffer'[LineMax + 1] = Nul
    BY <1>1, <1>2, BufferFacts DEF BufferOk, BehindOk
  <2>2. ASSUME erased' < 2, NEW i \in length .. LineMax + 1 PROVE buffer'[i] = Nul
    <3>1. i \in 0 .. LineMax + 1 /\ i >= length /\ i \in length + erased .. LineMax + 1
      BY <1>3, <2>2, BufferFacts
    <3> QED BY <1>1, <1>2, <1>3, <2>2, <3>1, BufferFacts DEF BufferOk, BehindOk
  <2>3. erased' < 2 => \A i \in length' + erased' .. LineMax + 1 : buffer'[i] = Nul
    <3>1. erased' < 2 => length' + erased' = length
      BY <1>2, <1>3, BufferFacts
    <3> QED BY <2>2, <3>1
  <2> QED BY <1>2, <2>1, <2>3 DEF BehindOk
<1>8. TypedIsRead'
  BY <1>2, <1>3 DEF TypedIsRead
<1> QED BY <1>4, <1>5, <1>6, <1>7, <1>8 DEF BufferOk

LEMMA BackspaceKeeps ==
  ASSUME TerminalInv, Backspace
  PROVE  TerminalInv'
<1> USE DEF TerminalInv
<1>1. /\ buffer' \in [0 .. LineMax + 1 -> Byte] /\ length > 0
      /\ \A i \in 0 .. LineMax + 1 :
           buffer'[i] = IF position - 1 <= i /\ i < length - 1 THEN buffer[i + 1] ELSE buffer[i]
  BY BackspaceBuffer
<1>2. /\ length' = length - 1 /\ position' = position - 1 /\ position > 0 /\ pc = "edit" /\ pc' = "edit"
      /\ UNCHANGED <<history, history_buffer, history_position, history_length, block_buf, in_block>>
  BY DEF Backspace, Editing, past, shell
<1>3. /\ erased' \in 0 .. 2 /\ typed' \in Seq(Char \cup {NewLine})
      /\ erased' < 2 => erased = 0 /\ erased' = 1 /\ typed' = typed
  BY EraseFacts DEF Backspace
<1>4. TerminalTypeOK'
  <2>1. length' \in 0 .. LineMax /\ position' \in 0 .. length'
    BY <1>1, <1>2, BufferFacts
  <2> QED BY <1>1, <1>2, <1>3, <2>1 DEF TerminalTypeOK
<1>5. PastOk'
  BY <1>2, SamePast DEF past
<1>6. TextOk'
  <2> SUFFICES ASSUME NEW i \in 0 .. length - 2 PROVE buffer'[i] \in Char
    BY <1>2, BufferFacts DEF TextOk
  <2>1. i \in 0 .. LineMax + 1 /\ i + 1 \in 0 .. length - 1 /\ i \in 0 .. length - 1
    BY BufferFacts
  <2> QED BY <1>1, <2>1 DEF BufferOk, TextOk
<1>7. BehindOk'
  <2>1. buffer'[LineMax + 1] = Nul
    BY <1>1, <1>2, BufferFacts DEF BufferOk, BehindOk
  <2>2. ASSUME erased' < 2, NEW i \in length .. LineMax + 1 PROVE buffer'[i] = Nul
    <3>1. i \in 0 .. LineMax + 1 /\ i >= length /\ i \in length + erased .. LineMax + 1
      BY <1>3, <2>2, BufferFacts
    <3> QED BY <1>1, <1>2, <1>3, <2>2, <3>1, BufferFacts DEF BufferOk, BehindOk
  <2>3. erased' < 2 => \A i \in length' + erased' .. LineMax + 1 : buffer'[i] = Nul
    <3>1. erased' < 2 => length' + erased' = length
      BY <1>2, <1>3, BufferFacts
    <3> QED BY <2>2, <3>1
  <2> QED BY <1>2, <2>1, <2>3 DEF BehindOk
<1>8. TypedIsRead'
  BY <1>2, <1>3 DEF TypedIsRead
<1> QED BY <1>4, <1>5, <1>6, <1>7, <1>8 DEF BufferOk

LEMMA MovePosition ==
  ASSUME TerminalTypeOK, Move
  PROVE  position' \in 0 .. length
<1>1. position \in Nat /\ length \in Nat /\ position <= length
  BY BufferFacts
<1>2. /\ {position - 1, 0} # {} /\ \E n \in {position - 1, 0} : \A m \in {position - 1, 0} : n >= m
      /\ \E n \in {position + 1, length} : \A m \in {position + 1, length} : n <= m
  BY <1>1
<1>3. /\ Max({position - 1, 0}) \in {position - 1, 0}
      /\ \A m \in {position - 1, 0} : Max({position - 1, 0}) >= m
  BY <1>2, Zenon DEF Max
<1>4. /\ Min({position + 1, length}) \in {position + 1, length}
      /\ \A m \in {position + 1, length} : Min({position + 1, length}) <= m
  BY <1>2, Zenon DEF Min
<1>5. Max({position - 1, 0}) \in 0 .. length
  BY <1>1, <1>3
<1>6. Min({position + 1, length}) \in 0 .. length
  BY <1>1, <1>4
<1>7. position' \in {Max({position - 1, 0}), Min({position + 1, length}), 0, length}
  BY DEF Move
<1> QED BY <1>1, <1>5, <1>6, <1>7

LEMMA MoveKeeps ==
  ASSUME TerminalInv, Move
  PROVE  TerminalInv'
<1> USE DEF TerminalInv
<1>1. position' \in 0 .. length
  BY MovePosition
<1>2. /\ pc = "edit"
      /\ UNCHANGED <<buffer, length, history, history_buffer, history_position, history_length, pc,
                     block_buf, in_block, erased, typed>>
  BY DEF Move, Editing, past, shell, seen
<1>3. TerminalTypeOK'
  BY <1>1, <1>2 DEF TerminalTypeOK
<1>4. PastOk' /\ BufferOk' /\ TypedIsRead'
  BY <1>2, SamePast DEF past, BufferOk, TextOk, BehindOk, TypedIsRead
<1> QED BY <1>3, <1>4

(* The buffer is empty behind a text that replaces it.                      *)
LEMMA NewTextFacts ==
  ASSUME TerminalTypeOK, erased' = (IF erased = 2 THEN 2 ELSE 0)
  PROVE  erased' \in 0 .. 2 /\ (erased' < 2 => erased < 2 /\ erased' = 0)
BY BufferFacts

LEMMA EmptyKeeps ==
  ASSUME TerminalTypeOK, BufferOk, buffer' = Cleared, length' = 0,
         erased' = (IF erased = 2 THEN 2 ELSE 0), pc' # "line"
  PROVE  BufferOk' /\ buffer' \in [0 .. LineMax + 1 -> Byte]
<1>1. TextOk'
  BY DEF TextOk
<1>2. BehindOk'
  <2>1. buffer'[LineMax + 1] = Nul
    BY ClearedFacts
  <2>2. erased' < 2 => \A i \in length' + erased' .. LineMax + 1 : buffer'[i] = Nul
    <3>1. erased' < 2 => erased < 2 /\ length' + erased' = 0
      BY NewTextFacts
    <3> QED BY <3>1, ClearedFacts
  <2> QED BY <2>1, <2>2 DEF BehindOk
<1> QED BY <1>1, <1>2, ClearedFacts DEF BufferOk

LEMMA CancelKeeps ==
  ASSUME TerminalInv, Cancel
  PROVE  TerminalInv'
<1> USE DEF TerminalInv
<1>1. /\ pc = "edit" /\ pc' = "edit" /\ position' = 0 /\ length' = 0 /\ buffer' = Cleared
      /\ erased' = (IF erased = 2 THEN 2 ELSE 0)
      /\ UNCHANGED <<history, history_buffer, history_position, history_length, block_buf, in_block, typed>>
  BY DEF Cancel, Editing, NewText, past, shell
<1>2. BufferOk' /\ buffer' \in [0 .. LineMax + 1 -> Byte]
  BY <1>1, EmptyKeeps
<1>3. erased' \in 0 .. 2 /\ (erased' < 2 => erased < 2 /\ erased' = 0)
  BY <1>1, NewTextFacts
<1>4. TerminalTypeOK'
  BY <1>1, <1>2, <1>3, RingSize DEF TerminalTypeOK
<1>5. PastOk' /\ TypedIsRead'
  BY <1>1, <1>3, SamePast DEF past, TypedIsRead
<1> QED BY <1>2, <1>4, <1>5

-----------------------------------------------------------------------------
(* Steps in the history.                                                    *)

(* Where an entry of n bytes starts that the ring has whole; none is left   *)
(* at the end of the file.                                                  *)
Entry(start, n) ==
  /\ start \in 0 .. history_length /\ n \in Nat /\ InRing(start)
  /\ start > 0 => history[start] = NewLine
  /\ \A k \in start + 1 .. start + n :
       k <= history_length /\ At(k - 1) = history[k] /\ history[k] # NewLine
  /\ n > 0 => start + n + 1 <= history_length /\ history[start + n + 1] = NewLine

LEMMA PastFacts ==
  ASSUME TerminalTypeOK, PastOk
  PROVE  /\ history_length = Len(history) /\ history_length \in Nat
         /\ DOMAIN history = 1 .. history_length
         /\ \A k \in 1 .. history_length : history[k] \in Char \cup {NewLine}
         /\ \A k \in 1 .. history_length :
              k > history_length - COMMAND_SIZE => At(k - 1) = history[k]
         /\ history_length > 0 => history[history_length] = NewLine /\ At(history_length - 1) = NewLine
         /\ history_position \in 0 .. history_length
<1>1. history_length = Len(history) /\ history \in Seq(Char \cup {NewLine})
  BY DEF PastOk, RingIsTail, TerminalTypeOK
<1>2. /\ history_length \in Nat /\ DOMAIN history = 1 .. history_length
      /\ \A k \in 1 .. history_length : history[k] \in Char \cup {NewLine}
  BY <1>1, SeqFacts
<1>3. \A k \in 1 .. history_length : k > history_length - COMMAND_SIZE => At(k - 1) = history[k]
  BY <1>2 DEF PastOk, RingIsTail
<1>4. history_length > 0 => history[history_length] = NewLine
  BY <1>1, <1>2 DEF PastOk, Whole
<1>5. history_length > 0 => At(history_length - 1) = NewLine
  BY <1>2, <1>3, <1>4, RingSize
<1> QED BY <1>1, <1>2, <1>3, <1>4, <1>5 DEF TerminalTypeOK

(* From a start that is in the ring on, all is.                             *)
LEMMA InRingFrom ==
  ASSUME TerminalTypeOK, PastOk, NEW start \in 0 .. history_length, InRing(start),
         NEW k \in start + 1 .. history_length
  PROVE  k \in 1 .. history_length /\ At(k - 1) = history[k] /\ k > history_length - COMMAND_SIZE
<1>1. k \in 1 .. history_length /\ k > history_length - COMMAND_SIZE
  BY PastFacts, RingSize DEF InRing
<1> QED BY <1>1, PastFacts

LEMMA UpEntry ==
  ASSUME TerminalTypeOK, PastOk, WithinRing, ArrowUp
  PROVE  \E start \in 0 .. history_length, n \in Nat : Entry(start, n) /\ Recall(start, n)
<1> DEFINE last == history_position - 2
           Q == {q \in 0 .. last : q = 0 \/ At(q) = NewLine}
           pos == Max(Q)
           start == IF At(pos) = NewLine THEN pos + 1 ELSE pos
           n == last - start + 1
<1>1. /\ history_position >= 2 /\ history_position \in 0 .. history_length /\ history_length \in Nat
      /\ InRing(start) /\ Recall(start, n)
  BY PastFacts DEF ArrowUp, WithinRing
<1>2. last \in Nat /\ Q \in SUBSET Nat /\ 0 \in Q /\ \A q \in Q : q <= last
  BY <1>1
<1>3. pos \in Q /\ \A q \in Q : q <= pos
  <2> HIDE DEF Q, last
  <2> QED BY <1>2, MaxFacts
<1>4. pos \in 0 .. last /\ (pos = 0 \/ At(pos) = NewLine)
  BY <1>3
<1>5. \A q \in pos + 1 .. last : At(q) # NewLine
  BY <1>2, <1>3, <1>4
<1> HIDE DEF Q, pos
<1>6. start \in 0 .. last + 1 /\ start \in 0 .. history_length /\ n \in Nat /\ start + n + 1 = history_position
  BY <1>1, <1>2, <1>4
<1>7. \A q \in start .. last : At(q) # NewLine
  <2>1. CASE At(pos) = NewLine
    BY <1>5, <2>1
  <2>2. CASE At(pos) # NewLine
    BY <1>4, <1>5, <2>2
  <2> QED BY <2>1, <2>2
<1>8. start > 0 => history[start] = NewLine
  <2> SUFFICES ASSUME start > 0 PROVE history[start] = NewLine
    OBVIOUS
  <2>1. At(pos) = NewLine /\ start = pos + 1
    BY <1>4
  <2>2. start > history_length - COMMAND_SIZE
    BY <1>1, <1>6, RingSize DEF InRing
  <2>3. start \in 1 .. history_length /\ start - 1 = pos
    BY <1>4, <1>6, <2>1
  <2> HIDE DEF start
  <2> QED BY <2>1, <2>2, <2>3, PastFacts
<1> HIDE DEF start
<1>9. ASSUME NEW k \in start + 1 .. start + n
      PROVE  k <= history_length /\ At(k - 1) = history[k] /\ history[k] # NewLine
  <2>1. k \in start + 1 .. history_length /\ k - 1 \in start .. last
    BY <1>1, <1>6
  <2>2. At(k - 1) = history[k]
    BY <1>1, <1>6, <2>1, InRingFrom
  <2> QED BY <1>6, <1>7, <2>1, <2>2
<1>10. history[start + n + 1] = NewLine /\ start + n + 1 <= history_length
  BY <1>1, <1>6 DEF PastOk, AtEntry
<1>11. Entry(start, n)
  BY <1>1, <1>6, <1>8, <1>9, <1>10 DEF Entry
<1> QED BY <1>1, <1>6, <1>11

LEMMA NextFacts ==
  ASSUME TerminalTypeOK, PastOk, NEW from \in 0 .. history_length
  PROVE  /\ NextNewLine(from) \in from .. history_length
         /\ \A q \in from .. NextNewLine(from) - 1 : At(q) # NewLine
         /\ from < history_length => NextNewLine(from) < history_length /\ At(NextNewLine(from)) = NewLine
<1> DEFINE D == {q \in from .. history_length : q = history_length \/ At(q) = NewLine}
<1>1. history_length \in Nat /\ D \in SUBSET Nat /\ history_length \in D
  BY PastFacts
<1>2. NextNewLine(from) = Min(D)
  BY DEF NextNewLine
<1>3. Min(D) \in D /\ \A m \in D : Min(D) <= m
  <2> HIDE DEF D
  <2> QED BY <1>1, MinFacts
<1>4. from < history_length => history_length - 1 \in D
  BY <1>1, PastFacts
<1>5. Min(D) \in from .. history_length
  BY <1>3
<1>6. \A q \in from .. Min(D) - 1 : At(q) # NewLine
  <2> SUFFICES ASSUME NEW q \in from .. Min(D) - 1, At(q) = NewLine PROVE FALSE
    OBVIOUS
  <2>1. q \in D
    BY <1>1, <1>5
  <2> QED BY <1>3, <1>5, <2>1
<1>7. from < history_length => Min(D) < history_length
  BY <1>1, <1>3, <1>4, <1>5
<1>8. from < history_length => At(Min(D)) = NewLine
  BY <1>1, <1>3, <1>7
<1> HIDE DEF D
<1> QED BY <1>2, <1>5, <1>6, <1>7, <1>8

LEMMA DownEntry ==
  ASSUME TerminalTypeOK, PastOk, ArrowDown
  PROVE  \E start \in 0 .. history_length, n \in Nat : Entry(start, n) /\ Recall(start, n)
<1> DEFINE next == NextNewLine(history_position)
           start == next + 1
           end == NextNewLine(start)
           n == end - start
<1>1. /\ history_position < history_length /\ history_position \in 0 .. history_length
      /\ history_length \in Nat /\ Recall(start, n)
  BY PastFacts DEF ArrowDown
<1>2. /\ next \in history_position .. history_length /\ next < history_length /\ At(next) = NewLine
  BY <1>1, NextFacts
<1> HIDE DEF next
<1>3. start \in 1 .. history_length /\ start \in history_position + 1 .. history_length /\ start - 1 = next
  BY <1>1, <1>2
<1>4. start > history_length - COMMAND_SIZE /\ history[start] = NewLine
  <2>1. InRing(history_position)
    BY DEF PastOk, AtEntry
  <2> HIDE DEF start
  <2> QED BY <1>1, <1>2, <1>3, <2>1, InRingFrom
<1>5. InRing(start) /\ start \in 0 .. history_length
  BY <1>3, <1>4 DEF InRing
<1> HIDE DEF start
<1>6. /\ end \in start .. history_length
      /\ \A q \in start .. end - 1 : At(q) # NewLine
      /\ start < history_length => end < history_length /\ At(end) = NewLine
  BY <1>5, NextFacts
<1> HIDE DEF end
<1>7. n \in Nat /\ start + n = end
  BY <1>3, <1>6
<1>8. ASSUME NEW k \in start + 1 .. start + n
      PROVE  k <= history_length /\ At(k - 1) = history[k] /\ history[k] # NewLine
  <2>1. k \in start + 1 .. history_length /\ k - 1 \in start .. end - 1
    BY <1>1, <1>3, <1>6, <1>7
  <2>2. At(k - 1) = history[k]
    BY <1>5, <2>1, InRingFrom
  <2> QED BY <1>6, <2>1, <2>2
<1>9. n > 0 => start + n + 1 <= history_length /\ history[start + n + 1] = NewLine
  <2> SUFFICES ASSUME n > 0 PROVE start + n + 1 <= history_length /\ history[start + n + 1] = NewLine
    OBVIOUS
  <2>1. start < history_length
    BY <1>1, <1>3, <1>6, <1>7
  <2>2. end + 1 \in start + 1 .. history_length /\ (end + 1) - 1 = end /\ start + n + 1 = end + 1
    BY <1>1, <1>3, <1>6, <1>7, <2>1
  <2>3. At((end + 1) - 1) = history[end + 1]
    BY <1>5, <2>2, InRingFrom
  <2> QED BY <1>1, <1>6, <2>1, <2>2, <2>3
<1>10. Entry(start, n)
  BY <1>4, <1>5, <1>7, <1>8, <1>9 DEF Entry
<1> QED BY <1>1, <1>5, <1>7, <1>10

LEMMA RecallBuffer ==
  ASSUME TerminalTypeOK, PastOk, BufferOk, NEW start, NEW n, Entry(start, n), Recall(start, n)
  PROVE  /\ buffer' \in [0 .. LineMax + 1 -> Byte] /\ n \in Nat /\ n <= LineMax
         /\ \A i \in 0 .. n - 1 : buffer'[i] = history[start + i + 1] /\ buffer'[i] \in Char
         /\ \A i \in n .. LineMax + 1 : buffer'[i] = Cleared[i]
<1>1. /\ buffer' = [i \in 0 .. LineMax + 1 |-> IF i < n THEN At(start + i) ELSE Cleared[i]]
      /\ n \in Nat /\ n <= LineMax /\ start \in 0 .. history_length
  BY BufferFacts DEF Recall, Entry
<1>2. /\ Cleared \in [0 .. LineMax + 1 -> Byte] /\ history_length \in Nat /\ LineMax \in Nat
  BY ClearedFacts, PastFacts, RingSize
<1>3. ASSUME NEW i \in 0 .. n - 1
      PROVE  /\ At(start + i) = history[start + i + 1] /\ At(start + i) \in Char
             /\ i \in 0 .. LineMax + 1
  <2>1. start + i + 1 \in start + 1 .. start + n /\ (start + i + 1) - 1 = start + i
    BY <1>1, <1>2
  <2>2. /\ At((start + i + 1) - 1) = history[start + i + 1] /\ history[start + i + 1] # NewLine
        /\ start + i + 1 \in 1 .. history_length
    BY <1>1, <1>2, <2>1 DEF Entry
  <2>3. history[start + i + 1] \in Char
    BY <2>2, PastFacts
  <2> QED BY <1>1, <1>2, <2>1, <2>2, <2>3
<1>4. \A i \in 0 .. n - 1 : buffer'[i] = history[start + i + 1] /\ buffer'[i] \in Char
  BY <1>1, <1>3
<1>5. \A i \in n .. LineMax + 1 : buffer'[i] = Cleared[i]
  BY <1>1, <1>2
<1>6. \A i \in 0 .. LineMax + 1 : buffer'[i] \in Byte
  <2> SUFFICES ASSUME NEW i \in 0 .. LineMax + 1 PROVE buffer'[i] \in Byte
    OBVIOUS
  <2>1. i \in 0 .. n - 1 \/ i \in n .. LineMax + 1
    BY <1>1, <1>2
  <2> QED BY <1>2, <1>4, <1>5, <2>1 DEF Byte
<1> QED BY <1>1, <1>4, <1>5, <1>6

LEMMA RecallKeeps ==
  ASSUME TerminalInv, pc = "edit", NEW start, NEW n, Entry(start, n), Recall(start, n)
  PROVE  TerminalInv'
<1> USE DEF TerminalInv
<1>1. /\ buffer' \in [0 .. LineMax + 1 -> Byte] /\ n \in Nat /\ n <= LineMax
      /\ \A i \in 0 .. n - 1 : buffer'[i] = history[start + i + 1] /\ buffer'[i] \in Char
      /\ \A i \in n .. LineMax + 1 : buffer'[i] = Cleared[i]
  BY RecallBuffer
<1>2. /\ pc' = "edit" /\ position' = n /\ length' = n /\ history_position' = start
      /\ erased' = (IF erased = 2 THEN 2 ELSE 0)
      /\ UNCHANGED <<history, history_buffer, history_length, block_buf, in_block, typed>>
  BY DEF Recall, NewText, shell
<1>3. erased' \in 0 .. 2 /\ (erased' < 2 => erased < 2 /\ erased' = 0)
  BY <1>2, NewTextFacts
<1>4. start \in 0 .. history_length /\ InRing(start) /\ (start > 0 => history[start] = NewLine)
  BY DEF Entry
<1>5. TerminalTypeOK'
  BY <1>1, <1>2, <1>3, <1>4, RingSize DEF TerminalTypeOK
<1>6. PastOk'
  BY <1>2, <1>4 DEF PastOk, RingIsTail, Whole, AtEntry, InRing, At
<1>7. TextOk'
  BY <1>1, <1>2 DEF TextOk
<1>8. BehindOk'
  <2>1. buffer'[LineMax + 1] = Nul
    BY <1>1, ClearedFacts, RingSize
  <2>2. erased' < 2 => \A i \in length' + erased' .. LineMax + 1 : buffer'[i] = Nul
    <3> SUFFICES ASSUME erased' < 2, NEW i \in n .. LineMax + 1 PROVE buffer'[i] = Nul
      BY <1>1, <1>2, <1>3
    <3> QED BY <1>1, <1>3, ClearedFacts, RingSize
  <2> QED BY <1>2, <2>1, <2>2 DEF BehindOk
<1>9. TypedIsRead'
  BY <1>2, <1>3 DEF TypedIsRead
<1> QED BY <1>5, <1>6, <1>7, <1>8, <1>9 DEF BufferOk

LEMMA ArrowKeeps ==
  ASSUME TerminalInv, WithinRing, ArrowUp \/ ArrowDown
  PROVE  TerminalInv'
<1>1. pc = "edit"
  BY DEF ArrowUp, ArrowDown, Editing
<1>2. PICK start \in 0 .. history_length, n \in Nat : Entry(start, n) /\ Recall(start, n)
  BY UpEntry, DownEntry DEF TerminalInv
<1> QED BY <1>1, <1>2, RecallKeeps

-----------------------------------------------------------------------------
(* The line that the shell reads.                                           *)

(* Line of a buffer, also of the one a step leaves.                         *)
LineOf(b) ==
  LET end == Min({i \in DOMAIN b : b[i] = Nul})
  IN [i \in 1 .. end |-> b[i - 1]]

LEMMA LineIs == Line = LineOf(buffer) /\ Line' = LineOf(buffer')
BY DEF Line, LineOf

LEMMA LineType ==
  ASSUME NEW b \in [0 .. LineMax + 1 -> Byte], b[LineMax + 1] = Nul
  PROVE  LineOf(b) \in Seq(Char \cup {NewLine})
<1> DEFINE E == {i \in 0 .. LineMax + 1 : b[i] = Nul}
           end == Min(E)
<1>1. LineOf(b) = [i \in 1 .. end |-> b[i - 1]]
  BY DEF LineOf
<1>2. E \in SUBSET Nat /\ E # {}
  BY RingSize
<1>3. end \in E /\ \A m \in E : end <= m
  <2> HIDE DEF E
  <2> QED BY <1>2, MinFacts
<1>4. end \in Nat /\ end <= LineMax + 1
  BY <1>3, RingSize
<1> HIDE DEF end
<1>5. ASSUME NEW i \in 1 .. end PROVE b[i - 1] \in Char \cup {NewLine}
  <2>1. i - 1 \in 0 .. LineMax + 1 /\ ~ end <= i - 1
    BY <1>4, RingSize
  <2>2. i - 1 \notin E
    BY <1>3, <2>1
  <2> QED BY <2>1, <2>2 DEF Byte
<1>6. [i \in 1 .. end |-> b[i - 1]] \in [1 .. end -> Char \cup {NewLine}]
  BY <1>5
<1> QED BY <1>1, <1>4, <1>6, SeqOfFunction

(* A text, its NewLine and nothing behind is read as the text and NewLine.  *)
LEMMA LineOfText ==
  ASSUME NEW b \in [0 .. LineMax + 1 -> Byte], NEW n \in 0 .. LineMax, NEW t \in Seq(Char), Len(t) = n,
         \A i \in 1 .. n : b[i - 1] = t[i],
         b[n] = NewLine, \A i \in n + 1 .. LineMax + 1 : b[i] = Nul
  PROVE  LineOf(b) = t \o <<NewLine>>
<1> DEFINE E == {i \in 0 .. LineMax + 1 : b[i] = Nul}
<1>1. LineOf(b) = [i \in 1 .. Min(E) |-> b[i - 1]]
  BY DEF LineOf
<1>2. n \in Nat /\ E \in SUBSET Nat /\ n + 1 \in E /\ NewLine # Nul
  BY RingSize, TerminalAssumption
<1>3. ASSUME NEW i \in 0 .. n PROVE i \notin E
  <2>1. CASE i = n
    BY <1>2, <2>1
  <2>2. CASE i < n
    <3>1. i + 1 \in 1 .. n /\ (i + 1) - 1 = i
      BY <1>2, <2>2
    <3>2. b[i] = t[i + 1] /\ t[i + 1] \in Char
      BY <3>1, ElementOfSeq
    <3> QED BY <3>2, TerminalAssumption
  <2> QED BY <1>2, <2>1, <2>2
<1>4. Min(E) \in E /\ \A m \in E : Min(E) <= m
  <2> HIDE DEF E
  <2> QED BY <1>2, MinFacts
<1>5. Min(E) = n + 1
  <2>1. Min(E) \in Nat /\ Min(E) <= n + 1
    BY <1>2, <1>4
  <2>2. Min(E) \notin 0 .. n
    BY <1>3, <1>4
  <2> QED BY <1>2, <2>1, <2>2
<1> DEFINE u == [i \in 1 .. n + 1 |-> b[i - 1]]
           v == t \o <<NewLine>>
<1>6. t \in Seq(Char \cup {NewLine}) /\ <<NewLine>> \in Seq(Char \cup {NewLine}) /\ Len(<<NewLine>>) = 1
  BY SeqMonotonic
<1>7. /\ v \in Seq(Char \cup {NewLine}) /\ Len(v) = n + 1
      /\ \A i \in 1 .. n + 1 : v[i] = IF i <= n THEN t[i] ELSE <<NewLine>>[i - n]
  BY <1>6, ConcatProperties
<1>8. \A i \in 1 .. n + 1 : u[i] = v[i]
  <2> SUFFICES ASSUME NEW i \in 1 .. n + 1 PROVE b[i - 1] = v[i]
    OBVIOUS
  <2>1. CASE i <= n
    BY <1>2, <1>7, <2>1
  <2>2. CASE i = n + 1
    <3>1. i - n = 1 /\ i - 1 = n /\ ~ i <= n
      BY <1>2, <2>2
    <3>2. v[i] = <<NewLine>>[i - n]
      BY <1>7, <3>1
    <3>3. <<NewLine>>[i - n] = NewLine
      BY <3>1
    <3> QED BY <3>1, <3>2, <3>3
  <2> QED BY <1>2, <2>1, <2>2
<1> HIDE DEF v
<1>9. u \in Seq(Char \cup {NewLine}) /\ Len(u) = n + 1
  <2>1. \A i \in 1 .. n + 1 : v[i] \in Char \cup {NewLine}
    BY <1>7, ElementOfSeq
  <2>2. u \in [1 .. n + 1 -> Char \cup {NewLine}]
    BY <1>8, <2>1
  <2> HIDE DEF u
  <2> QED BY <1>2, <2>2, SeqOfFunction
<1> HIDE DEF u
<1>10. u = v
  BY <1>7, <1>8, <1>9, SameSequence
<1> QED BY <1>1, <1>5, <1>10 DEF u, v

-----------------------------------------------------------------------------
(* Steps that enter a line and read it.                                     *)

(* What Enter leaves in the buffer.                                         *)
LEMMA EnterBuffer ==
  ASSUME TerminalTypeOK, BufferOk, Enter
  PROVE  /\ buffer' \in [0 .. LineMax + 1 -> Byte] /\ length \in 0 .. LineMax /\ length' = length
         /\ \A i \in 0 .. LineMax + 1 : buffer'[i] = IF i = length THEN NewLine ELSE buffer[i]
         /\ BufferOk'
<1>1. /\ buffer' = [buffer EXCEPT ![length] = NewLine] /\ pc = "edit" /\ pc' = "line"
      /\ length' = length /\ erased' = erased
  BY DEF Enter, Editing
<1>2. /\ \A i \in 0 .. LineMax + 1 : buffer'[i] = IF i = length THEN NewLine ELSE buffer[i]
      /\ buffer' \in [0 .. LineMax + 1 -> Byte] /\ length \in 0 .. LineMax
  BY <1>1, BufferFacts DEF TerminalTypeOK, Byte
<1>3. TextOk'
  <2> SUFFICES ASSUME NEW i \in 0 .. length - 1 PROVE buffer'[i] \in Char
    BY <1>1 DEF TextOk
  <2>1. i \in 0 .. LineMax + 1 /\ i # length
    BY <1>2, RingSize
  <2> QED BY <1>2, <2>1 DEF BufferOk, TextOk
<1>4. BehindOk'
  <2>1. buffer'[LineMax + 1] = Nul /\ buffer'[length] = NewLine
    BY <1>2, RingSize DEF BufferOk, BehindOk
  <2>2. ASSUME erased < 2, NEW i \in length + 1 .. LineMax + 1 PROVE buffer'[i] = Nul
    <3>1. i \in 0 .. LineMax + 1 /\ i # length /\ i \in length + erased .. LineMax + 1
      BY <1>2, <2>2, BufferFacts
    <3> QED BY <1>1, <1>2, <2>2, <3>1 DEF BufferOk, BehindOk
  <2> QED BY <1>1, <2>1, <2>2 DEF BehindOk
<1> QED BY <1>1, <1>2, <1>3, <1>4 DEF BufferOk

(* What it appends to the file: what it wrote to the buffer.                *)
LEMMA EnterHistory ==
  ASSUME TerminalInv, Enter, length # 0
  PROVE  /\ history' \in Seq(Char \cup {NewLine})
         /\ Len(history') = history_length + length + 1 /\ history_length \in Nat
         /\ \A k \in 1 .. history_length : history'[k] = history[k]
         /\ \A j \in 1 .. length + 1 : history'[history_length + j] = buffer'[j - 1]
<1> USE DEF TerminalInv
<1> DEFINE Bytes == Char \cup {NewLine}
           L == history_length
           n == length
           h == history \o Text
<1>1. /\ history \in Seq(Bytes) /\ L \in Nat /\ Len(history) = L
  BY PastFacts DEF TerminalTypeOK
<1>2. /\ Text \in Seq(Bytes) /\ Len(Text) = n /\ n \in Nat
      /\ \A i \in 1 .. n : Text[i] = buffer[i - 1]
  BY TextFacts, SeqMonotonic DEF BufferOk
<1>3. /\ h \in Seq(Bytes) /\ Len(h) = L + n
      /\ \A i \in 1 .. L + n : h[i] = IF i <= L THEN history[i] ELSE Text[i - L]
  BY <1>1, <1>2, ConcatProperties
<1>4. <<NewLine>> \in Seq(Bytes) /\ Len(<<NewLine>>) = 1 /\ <<NewLine>>[1] = NewLine
  OBVIOUS
<1>5. history' = h \o <<NewLine>>
  BY DEF Enter
<1> HIDE DEF h, Bytes
<1>6. /\ history' \in Seq(Bytes) /\ Len(history') = L + n + 1
      /\ \A i \in 1 .. L + n + 1 : history'[i] = IF i <= L + n THEN h[i] ELSE <<NewLine>>[i - (L + n)]
  BY <1>3, <1>4, <1>5, ConcatProperties
<1>7. \A i \in 0 .. LineMax + 1 : buffer'[i] = IF i = n THEN NewLine ELSE buffer[i]
  BY EnterBuffer
<1>8. ASSUME NEW k \in 1 .. L PROVE history'[k] = history[k]
  <2>1. k \in 1 .. L + n /\ k \in 1 .. L + n + 1
    BY <1>1, <1>2
  <2> QED BY <1>3, <1>6, <2>1
<1>9. ASSUME NEW j \in 1 .. n + 1 PROVE history'[L + j] = buffer'[j - 1]
  <2>1. L + j \in 1 .. L + n + 1 /\ j - 1 \in 0 .. LineMax + 1 /\ (L + j) - L = j
    BY <1>1, <1>2, BufferFacts
  <2>2. CASE j <= n
    <3>1. L + j \in 1 .. L + n /\ ~ L + j <= L /\ j \in 1 .. n /\ j - 1 # n
      BY <1>1, <1>2, <2>1, <2>2
    <3>2. history'[L + j] = Text[j]
      BY <1>3, <1>6, <2>1, <3>1
    <3> QED BY <1>2, <1>7, <2>1, <3>1, <3>2
  <2>3. CASE j = n + 1
    <3>1. ~ L + j <= L + n /\ (L + j) - (L + n) = 1 /\ j - 1 = n
      BY <1>1, <1>2, <2>3
    <3>2. history'[L + j] = NewLine
      BY <1>4, <1>6, <2>1, <3>1
    <3> QED BY <1>7, <2>1, <3>1, <3>2
  <2> QED BY <1>2, <2>2, <2>3
<1> QED BY <1>1, <1>2, <1>6, <1>8, <1>9 DEF Bytes

(* The ring after Enter: the last bytes are those of the line, and those    *)
(* before them that are still asked for were not overwritten.               *)
LEMMA EnterRing ==
  ASSUME TerminalInv, WithinRing, Enter, length # 0
  PROVE  history_buffer' \in [0 .. COMMAND_SIZE - 1 -> Byte] /\ RingIsTail'
<1> USE DEF TerminalInv
<1> DEFINE C == COMMAND_SIZE
           L == history_length
           n == length
           at(i) == {m \in 0 .. n : (L + m) % C = i}
<1>1. /\ history' \in Seq(Char \cup {NewLine}) /\ Len(history') = L + n + 1 /\ L \in Nat
      /\ \A k \in 1 .. L : history'[k] = history[k]
      /\ \A j \in 1 .. n + 1 : history'[L + j] = buffer'[j - 1]
  BY EnterHistory
<1>2. /\ \A i \in 0 .. C - 1 :
           history_buffer'[i] = IF at(i) = {} THEN history_buffer[i] ELSE buffer'[Max(at(i))]
      /\ history_buffer' = [i \in 0 .. C - 1 |-> history_buffer'[i]]
      /\ history_length' = L + n + 1
  <2>1. history_position = L /\ DOMAIN history_buffer = 0 .. C - 1
    BY DEF Enter, WithinRing, TerminalTypeOK
  <2>2. history_buffer' = [i \in 0 .. C - 1 |->
          LET s == {k \in 0 .. n : (L + k) % C = i}
          IN IF s = {} THEN history_buffer[i] ELSE buffer'[Max(s)]]
    BY <2>1 DEF Enter, Written
  <2>3. history_length' = L + n + 1
    BY DEF Enter
  <2> QED BY <2>2, <2>3
<1>3. n \in Nat /\ C \in Nat \ {0}
  BY BufferFacts, RingSize
<1>4. ASSUME NEW i PROVE at(i) \in SUBSET Nat /\ at(i) \subseteq 0 .. n /\ \A m \in at(i) : m <= n
  BY <1>3
<1>5. \A i : at(i) # {} => Max(at(i)) \in at(i) /\ \A m \in at(i) : m <= Max(at(i))
  <2> SUFFICES ASSUME NEW i, at(i) # {}
               PROVE  Max(at(i)) \in at(i) /\ \A m \in at(i) : m <= Max(at(i))
    OBVIOUS
  <2>1. at(i) \in SUBSET Nat /\ \A m \in at(i) : m <= n
    BY <1>4
  <2> HIDE DEF at
  <2> QED BY <1>3, <2>1, MaxFacts
<1>6. buffer' \in [0 .. LineMax + 1 -> Byte] /\ n <= LineMax /\ LineMax \in Nat
  BY EnterBuffer, BufferFacts
<1>7. history_buffer' \in [0 .. C - 1 -> Byte]
  <2>1. ASSUME NEW i \in 0 .. C - 1 PROVE history_buffer'[i] \in Byte
    <3>2. history_buffer[i] \in Byte
      BY DEF TerminalTypeOK
    <3>3. at(i) \subseteq 0 .. n
      BY <1>4
    <3> HIDE DEF at
    <3>1. at(i) # {} => Max(at(i)) \in 0 .. LineMax + 1
      BY <1>3, <1>5, <1>6, <3>3
    <3> QED BY <1>2, <1>6, <3>1, <3>2
  <2> QED BY <1>2, <2>1
<1>8. ASSUME NEW k \in 1 .. L + n + 1, k > L + n + 1 - C
      PROVE  history_buffer'[(k - 1) % C] = history'[k]
  <2> DEFINE i == (k - 1) % C
  <2>5. k - 1 \in Nat /\ k \in Nat
    BY <1>1, <1>3
  <2>1. i \in 0 .. C - 1 /\ k - 1 \in Nat /\ k \in Nat
    BY <1>3, <2>5, ModRange
  <2>2. ASSUME NEW m \in at(i), L + m > k - 1 PROVE FALSE
    <3>1. L + m \in Nat /\ (L + m) % C = (k - 1) % C /\ m <= n
      BY <1>1, <1>3
    <3>2. L + m >= (k - 1) + C
      BY <1>3, <2>1, <2>2, <3>1, SameResidue
    <3> QED BY <1>1, <1>3, <1>8, <2>1, <3>1, <3>2
  <2>3. CASE k <= L
    <3>1. at(i) = {}
      <4>1. ASSUME NEW m \in at(i) PROVE L + m > k - 1
        BY <1>1, <1>3, <2>1, <2>3
      <4> QED BY <2>2, <4>1
    <3>2. history_buffer'[i] = history_buffer[i]
      BY <1>2, <2>1, <3>1
    <3>3. k \in 1 .. L /\ k > L - C
      BY <1>1, <1>3, <1>8, <2>3
    <3>4. At(k - 1) = history[k]
      BY <3>3, PastFacts
    <3> QED BY <1>1, <3>2, <3>3, <3>4 DEF At
  <2>4. CASE k > L
    <3> DEFINE j == k - L
    <3>1. j \in 1 .. n + 1 /\ L + j = k /\ L + (j - 1) = k - 1 /\ j - 1 \in 0 .. n
      BY <1>1, <1>3, <2>1, <2>4
    <3>2. j - 1 \in at(i)
      BY <3>1
    <3>3. Max(at(i)) \in at(i) /\ j - 1 <= Max(at(i))
      BY <1>5, <3>2
    <3>4. ~ L + Max(at(i)) > k - 1
      BY <2>2, <3>3
    <3>5. Max(at(i)) \in Nat
      BY <1>4, <3>3
    <3>6. history_buffer'[i] = buffer'[Max(at(i))]
      BY <1>2, <2>1, <3>2
    <3> HIDE DEF at
    <3>7. Max(at(i)) = j - 1
      BY <1>1, <3>1, <3>3, <3>4, <3>5
    <3> QED BY <1>1, <3>1, <3>6, <3>7
  <2> QED BY <1>1, <2>1, <2>3, <2>4
<1>9. DOMAIN history' = 1 .. L + n + 1
  BY <1>1, SeqFacts
<1>10. \A k \in DOMAIN history' : k > history_length' - C => At(k - 1)' = history'[k]
  <2> SUFFICES ASSUME NEW k \in DOMAIN history', k > history_length' - C
               PROVE  history_buffer'[(k - 1) % C] = history'[k]
    BY DEF At
  <2>2. history_length' = L + n + 1
    BY <1>2
  <2> HIDE DEF C
  <2>1. k \in 1 .. L + n + 1
    BY <1>9
  <2>3. k > L + n + 1 - C
    BY <1>1, <1>3, <2>1, <2>2
  <2> QED BY <1>8, <2>1, <2>3
<1> QED BY <1>1, <1>2, <1>7, <1>10 DEF RingIsTail

LEMMA EnterKeeps ==
  ASSUME TerminalInv, WithinRing, Enter
  PROVE  TerminalInv'
<1> USE DEF TerminalInv
<1> DEFINE Bytes == Char \cup {NewLine}
<1>1. /\ buffer' \in [0 .. LineMax + 1 -> Byte] /\ length \in 0 .. LineMax /\ length' = length
      /\ \A i \in 0 .. LineMax + 1 : buffer'[i] = IF i = length THEN NewLine ELSE buffer[i]
      /\ BufferOk'
  BY EnterBuffer
<1>2. /\ pc = "edit" /\ pc' = "line" /\ position' = position /\ history_position = history_length
      /\ UNCHANGED <<block_buf, in_block, erased>>
      /\ typed' = IF erased < 2 THEN typed \o Text \o <<NewLine>> ELSE <<>>
  BY DEF Enter, Editing, WithinRing, shell
<1>3. /\ Text \in Seq(Char) /\ Text \in Seq(Bytes) /\ Len(Text) = length /\ length \in Nat
      /\ \A i \in 1 .. length : Text[i] = buffer[i - 1]
  BY TextFacts, SeqMonotonic DEF BufferOk
<1>4. /\ typed \in Seq(Bytes) /\ block_buf \in Seq(Bytes) /\ <<NewLine>> \in Seq(Bytes)
  BY DEF TerminalTypeOK
<1>5. typed \o Text \in Seq(Bytes) /\ typed \o Text \o <<NewLine>> \in Seq(Bytes)
  BY <1>3, <1>4, ConcatProperties
<1>6. typed' \in Seq(Bytes)
  BY <1>2, <1>5, EmptySeq
<1>7. /\ history' \in Seq(Bytes) /\ history_buffer' \in [0 .. COMMAND_SIZE - 1 -> Byte]
      /\ history_position' \in 0 .. history_length' /\ PastOk'
  <2>1. CASE length = 0
    <3>1. UNCHANGED <<history, history_buffer, history_position, history_length>> /\ UNCHANGED past
      BY <2>1 DEF Enter, past
    <3> QED BY <3>1, SamePast DEF TerminalTypeOK
  <2>2. CASE length # 0
    <3>1. /\ history' \in Seq(Bytes) /\ Len(history') = history_length + length + 1
          /\ history_length \in Nat
          /\ \A j \in 1 .. length + 1 : history'[history_length + j] = buffer'[j - 1]
      BY <2>2, EnterHistory
    <3>2. history_buffer' \in [0 .. COMMAND_SIZE - 1 -> Byte] /\ RingIsTail'
      BY <2>2, EnterRing
    <3>3. /\ history_position' = history_length + length + 1
          /\ history_length' = history_length + length + 1
      BY <1>2, <2>2 DEF Enter
    <3>4. history'[Len(history')] = NewLine
      <4>1. length + 1 \in 1 .. length + 1 /\ (length + 1) - 1 = length
            /\ history_length + (length + 1) = Len(history') /\ length \in 0 .. LineMax + 1
        BY <1>1, <1>3, <3>1, RingSize
      <4> QED BY <1>1, <3>1, <4>1
    <3>5. Whole' /\ AtEntry'
      <4>1. history_position' > history_length' - COMMAND_SIZE
        BY <1>3, <3>1, <3>3, RingSize
      <4> QED BY <3>1, <3>3, <3>4, <4>1 DEF Whole, AtEntry, InRing
    <3> QED BY <1>3, <3>1, <3>2, <3>3, <3>5 DEF PastOk
  <2> QED BY <2>1, <2>2
<1>8. TerminalTypeOK'
  <2>1. position' \in 0 .. length' /\ length' \in 0 .. LineMax
    BY <1>1, <1>2, BufferFacts
  <2> QED BY <1>1, <1>2, <1>4, <1>6, <1>7, <2>1 DEF TerminalTypeOK
<1>9. TypedIsRead'
  <2> SUFFICES ASSUME erased < 2 PROVE typed' = block_buf \o Line'
    BY <1>2 DEF TypedIsRead
  <2>1. typed = block_buf
    BY <1>2, <1>4, ConcatEmptySeq DEF TypedIsRead
  <2>2. Line' = Text \o <<NewLine>>
    <3>1. \A i \in 1 .. length : buffer'[i - 1] = Text[i]
      <4> SUFFICES ASSUME NEW i \in 1 .. length PROVE buffer'[i - 1] = Text[i]
        OBVIOUS
      <4>1. i - 1 \in 0 .. LineMax + 1 /\ i - 1 # length
        BY <1>1, RingSize
      <4> QED BY <1>1, <1>3, <4>1
    <3>2. buffer'[length] = NewLine /\ \A i \in length + 1 .. LineMax + 1 : buffer'[i] = Nul
      BY <1>1, <1>2 DEF BufferOk, BehindOk
    <3> QED BY <1>1, <1>3, <3>1, <3>2, LineOfText, LineIs
  <2>3. typed' = typed \o (Text \o <<NewLine>>)
    BY <1>2, <1>3, <1>4, ConcatAssociative
  <2> QED BY <2>1, <2>2, <2>3
<1> QED BY <1>1, <1>7, <1>8, <1>9

LEMMA NextLineKeeps ==
  ASSUME TerminalInv, NextLine, pc = "line",
         block_buf' \in Seq(Char \cup {NewLine}), typed' \in Seq(Char \cup {NewLine}), in_block' \in BOOLEAN,
         erased < 2 => typed' = block_buf'
  PROVE  TerminalInv'
<1> USE DEF TerminalInv
<1>1. /\ buffer' = Cleared /\ position' = 0 /\ length' = 0 /\ pc' = "edit"
      /\ erased' = (IF erased = 2 THEN 2 ELSE 0)
      /\ UNCHANGED <<history, history_buffer, history_position, history_length>> /\ UNCHANGED past
  BY DEF NextLine, past
<1>2. BufferOk' /\ buffer' \in [0 .. LineMax + 1 -> Byte]
  BY <1>1, EmptyKeeps
<1>3. erased' \in 0 .. 2 /\ (erased' < 2 => erased < 2 /\ erased' = 0)
  BY <1>1, NewTextFacts
<1>4. TerminalTypeOK'
  BY <1>1, <1>2, <1>3, RingSize DEF TerminalTypeOK
<1>5. PastOk'
  BY <1>1, SamePast
<1>6. TypedIsRead'
  <2>1. erased' < 2 => typed' = block_buf' \o <<>>
    BY <1>3, ConcatEmptySeq
  <2> QED BY <1>1, <2>1 DEF TypedIsRead
<1> QED BY <1>2, <1>4, <1>5, <1>6

LEMMA CollectKeeps ==
  ASSUME TerminalInv, Collect
  PROVE  TerminalInv'
<1> USE DEF TerminalInv
<1>1. /\ pc = "line" /\ block_buf' = block_buf \o Line /\ in_block' = TRUE /\ typed' = typed /\ NextLine
  BY DEF Collect
<1>2. Line \in Seq(Char \cup {NewLine})
  <2>1. buffer \in [0 .. LineMax + 1 -> Byte] /\ buffer[LineMax + 1] = Nul
    BY DEF TerminalTypeOK, BufferOk, BehindOk
  <2> QED BY <2>1, LineType, LineIs
<1>3. block_buf' \in Seq(Char \cup {NewLine}) /\ typed' \in Seq(Char \cup {NewLine})
  BY <1>1, <1>2, ConcatProperties DEF TerminalTypeOK
<1>4. erased < 2 => typed' = block_buf'
  BY <1>1 DEF TypedIsRead
<1> QED BY <1>1, <1>3, <1>4, NextLineKeeps

LEMMA RunKeeps ==
  ASSUME TerminalInv, Run
  PROVE  TerminalInv'
BY NextLineKeeps, EmptySeq DEF Run, TerminalInv

-----------------------------------------------------------------------------
(* Sessions.                                                                *)

(* The state in which a session starts, before and after a step.            *)
LEMMA StartRing ==
  ASSUME NEW bytes \in Seq(Char \cup {NewLine})
  PROVE  /\ Len(bytes) \in Nat /\ DOMAIN bytes = 1 .. Len(bytes)
         /\ Ring(bytes) \in [0 .. COMMAND_SIZE - 1 -> Byte]
         /\ \A k \in DOMAIN bytes :
              k > Len(bytes) - COMMAND_SIZE => Ring(bytes)[(k - 1) % COMMAND_SIZE] = bytes[k]
         /\ [i \in 0 .. LineMax + 1 |-> Nul] \in [0 .. LineMax + 1 -> Byte]
<1>1. Len(bytes) \in Nat /\ DOMAIN bytes = 1 .. Len(bytes)
  BY SeqFacts
<1>2. Nul \in Byte
  BY DEF Byte
<1> QED BY <1>1, <1>2, RingType, RingHas

LEMMA RestartKeeps ==
  ASSUME TerminalInv, Restart
  PROVE  TerminalInv'
<1>1. /\ buffer' = [i \in 0 .. LineMax + 1 |-> Nul] /\ position' = 0 /\ length' = 0
      /\ history' = history /\ history_buffer' = Ring(history)
      /\ history_position' = Len(history) /\ history_length' = Len(history)
      /\ pc' = "edit" /\ block_buf' = <<>> /\ in_block' = FALSE
      /\ typed' = <<>> /\ erased' = 0
  BY DEF Restart, Start
<1>2. history \in Seq(Char \cup {NewLine}) /\ Whole
  BY DEF TerminalInv, TerminalTypeOK, PastOk
<1>3. /\ Len(history) \in Nat /\ DOMAIN history = 1 .. Len(history)
      /\ Ring(history) \in [0 .. COMMAND_SIZE - 1 -> Byte]
      /\ \A k \in DOMAIN history :
           k > Len(history) - COMMAND_SIZE => Ring(history)[(k - 1) % COMMAND_SIZE] = history[k]
      /\ [i \in 0 .. LineMax + 1 |-> Nul] \in [0 .. LineMax + 1 -> Byte]
  BY <1>2, StartRing
<1>4. TerminalTypeOK'
  <2>1. <<>> \in Seq(Char \cup {NewLine}) /\ 0 \in 0 .. LineMax
    BY EmptySeq, RingSize
  <2>2. buffer' \in [0 .. LineMax + 1 -> Byte] /\ history' \in Seq(Char \cup {NewLine})
        /\ history_buffer' \in [0 .. COMMAND_SIZE - 1 -> Byte]
    BY <1>1, <1>2, <1>3
  <2>3. history_position' \in 0 .. history_length' /\ length' \in 0 .. LineMax /\ position' \in 0 .. length'
    BY <1>1, <1>3, <2>1
  <2>4. block_buf' \in Seq(Char \cup {NewLine}) /\ typed' \in Seq(Char \cup {NewLine})
    BY <1>1, <2>1
  <2>5. in_block' \in BOOLEAN
    BY <1>1, Zenon
  <2>6. pc' \in {"edit", "line", "ended"} /\ erased' \in 0 .. 2
    BY <1>1
  <2> QED BY <2>2, <2>3, <2>4, <2>5, <2>6 DEF TerminalTypeOK
<1>5. RingIsTail'
  BY <1>1, <1>3 DEF RingIsTail, At
<1>6. Whole' /\ AtEntry'
  <2>1. history # <<>> => Len(history) > 0
    BY <1>2, SeqFacts
  <2>2. Len(history) > Len(history) - COMMAND_SIZE
    BY <1>3, RingSize
  <2>3. Len(history) > 0 => history # <<>>
    BY EmptySeq
  <2> QED BY <1>1, <1>2, <2>2, <2>3 DEF Whole, AtEntry, InRing
<1>7. BufferOk'
  <2>1. \A i \in 0 .. LineMax + 1 : buffer'[i] = Nul
    BY <1>1
  <2> QED BY <1>1, <2>1, RingSize DEF BufferOk, TextOk, BehindOk
<1>8. TypedIsRead'
  BY <1>1, EmptySeq, ConcatEmptySeq DEF TypedIsRead
<1> QED BY <1>4, <1>5, <1>6, <1>7, <1>8 DEF TerminalInv, PastOk

LEMMA InitTerminal ==
  ASSUME TerminalInit
  PROVE  TerminalInv
<1> USE DEF TerminalInit
<1>1. <<>> \in Seq(Char \cup {NewLine}) /\ Len(<<>>) = 0 /\ 0 \in 0 .. LineMax
  BY EmptySeq, RingSize
<1>2. /\ Ring(<<>>) \in [0 .. COMMAND_SIZE - 1 -> Byte]
      /\ [i \in 0 .. LineMax + 1 |-> Nul] \in [0 .. LineMax + 1 -> Byte]
  BY <1>1, StartRing
<1>7. DOMAIN <<>> = {}
  BY <1>1, SeqFacts
<1>3. TerminalTypeOK
  <2>1. block_buf \in Seq(Char \cup {NewLine}) /\ typed \in Seq(Char \cup {NewLine})
        /\ history \in Seq(Char \cup {NewLine})
    BY <1>1
  <2>2. history_position \in 0 .. history_length /\ length \in 0 .. LineMax /\ position \in 0 .. length
    BY <1>1
  <2>3. buffer \in [0 .. LineMax + 1 -> Byte] /\ history_buffer \in [0 .. COMMAND_SIZE - 1 -> Byte]
    BY <1>2
  <2>4. in_block \in BOOLEAN
    BY Zenon
  <2>5. pc \in {"edit", "line", "ended"} /\ erased \in 0 .. 2
    OBVIOUS
  <2> HIDE DEF TerminalInit
  <2> QED BY <2>1, <2>2, <2>3, <2>4, <2>5 DEF TerminalTypeOK
<1>4. PastOk
  <2>1. RingIsTail
    BY <1>1, <1>7 DEF RingIsTail
  <2>2. 0 > 0 - COMMAND_SIZE
    BY RingSize
  <2> QED BY <2>1, <2>2 DEF PastOk, Whole, AtEntry, InRing
<1>5. BufferOk
  <2>1. \A i \in 0 .. LineMax + 1 : buffer[i] = Nul
    OBVIOUS
  <2> QED BY <2>1, RingSize DEF BufferOk, TextOk, BehindOk
<1>6. TypedIsRead
  BY <1>1, ConcatEmptySeq DEF TypedIsRead
<1> QED BY <1>3, <1>4, <1>5, <1>6 DEF TerminalInv

LEMMA TerminalStep ==
  ASSUME WithinRing, TerminalInv, [TerminalNext]_terminalVars
  PROVE  TerminalInv'
<1>1. CASE Delete
  BY <1>1, DeleteKeeps
<1>2. CASE Backspace
  BY <1>2, BackspaceKeeps
<1>3. CASE Move
  BY <1>3, MoveKeeps
<1>4. CASE Cancel
  BY <1>4, CancelKeeps
<1>5. CASE ArrowUp \/ ArrowDown
  BY <1>5, ArrowKeeps
<1>6. CASE Enter
  BY <1>6, EnterKeeps
<1>7. CASE Collect
  BY <1>7, CollectKeeps
<1>8. CASE Run
  BY <1>8, RunKeeps
<1>9. CASE Restart
  BY <1>9, RestartKeeps
<1>10. ASSUME NEW c \in Char, Insert(c) PROVE TerminalInv'
  BY <1>10, InsertKeeps
<1>11. CASE Exit \/ UNCHANGED terminalVars
  <2>1. /\ UNCHANGED <<buffer, position, length, history, history_buffer, history_position,
                       history_length, block_buf, in_block, erased, typed>>
        /\ UNCHANGED pc \/ (pc = "edit" /\ pc' = "ended")
    BY <1>11 DEF Exit, Editing, terminalVars, line, past, shell, seen
  <2>2. TerminalTypeOK'
    BY <2>1 DEF TerminalInv, TerminalTypeOK
  <2>3. PastOk'
    BY <2>1, SamePast DEF past, TerminalInv
  <2>4. BufferOk'
    BY <2>1 DEF TerminalInv, BufferOk, TextOk, BehindOk
  <2>5. TypedIsRead'
    <3>1. UNCHANGED Line
      BY <2>1 DEF Line
    <3> QED BY <2>1, <3>1 DEF TerminalInv, TypedIsRead
  <2> QED BY <2>2, <2>3, <2>4, <2>5 DEF TerminalInv
<1> QED BY <1>1, <1>2, <1>3, <1>4, <1>5, <1>6, <1>7, <1>8, <1>9, <1>10, <1>11 DEF TerminalNext

(* As long as no line is entered while an older one is shown, and no arrow  *)
(* walks back beyond the ring, terminal.c keeps TerminalInv.                *)
THEOREM TerminalInvariant ==
  ASSUME WithinRing
  PROVE  TerminalSpec => []TerminalInv
<1>1. TerminalInit => TerminalInv
  BY InitTerminal
<1>2. TerminalInv /\ [TerminalNext]_terminalVars => TerminalInv'
  BY TerminalStep
<1> QED BY <1>1, <1>2, PTL DEF TerminalSpec

(* The variables of terminal.c and run_shell stay within their types: the   *)
(* cursor within the text, the text within the buffer, history_position     *)
(* within what was written.                                                 *)
THEOREM TerminalTypes ==
  ASSUME WithinRing
  PROVE  TerminalSpec => []TerminalTypeOK
<1>1. TerminalInv => TerminalTypeOK
  BY DEF TerminalInv
<1> QED BY <1>1, TerminalInvariant, PTL

(* history_buffer has the last COMMAND_SIZE bytes of the history file where *)
(* the arrows look for them, whatever the size of the ring and of a line.   *)
THEOREM RingHasTail ==
  ASSUME WithinRing
  PROVE  TerminalSpec => []RingIsTail
<1>1. TerminalInv => RingIsTail
  BY DEF TerminalInv, PastOk
<1> QED BY <1>1, TerminalInvariant, PTL

(* What run_shell collects and runs is what was typed.                      *)
THEOREM TypedIsRun ==
  ASSUME WithinRing
  PROVE  TerminalSpec => []TypedIsRead
<1>1. TerminalInv => TypedIsRead
  BY DEF TerminalInv
<1> QED BY <1>1, TerminalInvariant, PTL

-----------------------------------------------------------------------------
(* The refinement of LineEditor.                                            *)

(* A sequence with an element more behind its first p.                      *)
LEMMA InsertedFacts ==
  ASSUME NEW S, NEW s \in Seq(S), NEW p \in 0 .. Len(s), NEW c \in S, NEW t \in Seq(S),
         Len(t) = Len(s) + 1,
         \A i \in 1 .. Len(s) + 1 : t[i] = IF i <= p THEN s[i] ELSE IF i = p + 1 THEN c ELSE s[i - 1]
  PROVE  t = SubSeq(s, 1, p) \o <<c>> \o SubSeq(s, p + 1, Len(s))
<1> DEFINE a == SubSeq(s, 1, p)
           b == SubSeq(s, p + 1, Len(s))
           one == <<c>>
           ac == a \o one
<1>1. Len(s) \in Nat /\ p \in Nat /\ p <= Len(s) /\ \A i \in 1 .. Len(s) : s[i] \in S
  BY SeqFacts
<1>2. /\ a \in Seq(S) /\ Len(a) = p /\ \A i \in 1 .. p : a[i] = s[i]
  BY PrefixFacts
<1>3. /\ b \in Seq(S) /\ Len(b) = Len(s) - p
      /\ \A i \in 1 .. Len(s) - p : b[i] = s[p + i]
  <2>1. \A i \in p + 1 .. Len(s) : s[i] \in S
    BY <1>1
  <2>2. p + 1 \in Int /\ Len(s) \in Int
    BY <1>1
  <2>3. /\ b \in Seq(S) /\ Len(b) = IF p + 1 <= Len(s) THEN Len(s) - (p + 1) + 1 ELSE 0
        /\ \A i \in 1 .. Len(s) - (p + 1) + 1 : b[i] = s[p + 1 + i - 1]
    BY <2>1, <2>2, SubSeqProperties
  <2> HIDE DEF b
  <2>4. Len(b) = Len(s) - p
    BY <1>1, <2>3
  <2>5. ASSUME NEW i \in 1 .. Len(s) - p PROVE b[i] = s[p + i]
    <3>1. i \in 1 .. Len(s) - (p + 1) + 1 /\ p + 1 + i - 1 = p + i
      BY <1>1
    <3> QED BY <2>3, <3>1
  <2> QED BY <2>3, <2>4, <2>5
<1>4. one \in Seq(S) /\ Len(one) = 1 /\ one[1] = c
  OBVIOUS
<1> HIDE DEF a, b, one
<1>5. /\ ac \in Seq(S) /\ Len(ac) = p + 1
      /\ \A i \in 1 .. p + 1 : ac[i] = IF i <= p THEN a[i] ELSE one[i - p]
  <2>1. /\ ac \in Seq(S) /\ Len(ac) = Len(a) + Len(one)
        /\ \A i \in 1 .. Len(a) + Len(one) : ac[i] = IF i <= Len(a) THEN a[i] ELSE one[i - Len(a)]
    BY <1>2, <1>4, ConcatProperties
  <2>2. Len(a) = p /\ Len(a) + Len(one) = p + 1
    BY <1>1, <1>2, <1>4
  <2> HIDE DEF ac
  <2> QED BY <2>1, <2>2
<1> HIDE DEF ac
<1>6. /\ ac \o b \in Seq(S) /\ Len(ac \o b) = Len(ac) + Len(b)
      /\ \A i \in 1 .. Len(ac) + Len(b) : (ac \o b)[i] = IF i <= Len(ac) THEN ac[i] ELSE b[i - Len(ac)]
  BY <1>3, <1>5, ConcatProperties
<1>7. Len(ac) + Len(b) = Len(s) + 1
  BY <1>1, <1>3, <1>5
<1>8. ASSUME NEW i \in 1 .. Len(s) + 1 PROVE (ac \o b)[i] = t[i]
  <2>4. i \in Nat /\ i > 0
    OBVIOUS
  <2>1. CASE i <= p
    <3>1. i \in 1 .. p /\ i \in 1 .. p + 1 /\ i <= Len(ac)
      BY <1>1, <1>5, <2>1, <2>4
    <3>2. (ac \o b)[i] = ac[i]
      BY <1>6, <1>7, <3>1
    <3> QED BY <1>2, <1>5, <2>1, <3>1, <3>2
  <2>2. CASE i = p + 1
    <3>1. i \in 1 .. p + 1 /\ ~ i <= p /\ i - p = 1 /\ i <= Len(ac)
      BY <1>1, <1>5, <2>2
    <3>2. (ac \o b)[i] = ac[i] /\ ac[i] = one[1]
      BY <1>5, <1>6, <1>7, <3>1
    <3> QED BY <1>4, <2>2, <3>1, <3>2
  <2>3. CASE i > p + 1
    <3>1. ~ i <= Len(ac) /\ i - Len(ac) \in 1 .. Len(s) - p /\ p + (i - Len(ac)) = i - 1
          /\ ~ i <= p /\ i # p + 1
      BY <1>1, <1>5, <2>3
    <3>2. (ac \o b)[i] = b[i - Len(ac)]
      BY <1>6, <1>7, <3>1
    <3>3. b[i - Len(ac)] = s[i - 1]
      BY <1>3, <3>1
    <3> QED BY <3>1, <3>2, <3>3
  <2>5. i <= p \/ i = p + 1 \/ i > p + 1
    BY <1>1, <2>4
  <2> QED BY <2>1, <2>2, <2>3, <2>5
<1>9. ac \o b = t
  BY <1>6, <1>7, <1>8, SameSequence
<1> QED BY <1>9 DEF ac, a, b, one

(* The text after a step.                                                   *)
LEMMA NextText ==
  ASSUME TerminalInv'
  PROVE  /\ Text' \in Seq(Char) /\ Len(Text') = length' /\ length' \in Nat
         /\ \A i \in 1 .. length' : Text'[i] = buffer'[i - 1]
         /\ length' = 0 => Text' = <<>>
<1>1. length' \in Nat
  BY RingSize DEF TerminalInv, TerminalTypeOK
<1>2. Text' \in [1 .. length' -> Char] /\ \A i \in 1 .. length' : Text'[i] = buffer'[i - 1]
  <2>1. \A n \in Nat : \A i \in 1 .. n : i - 1 \in 0 .. n - 1
    OBVIOUS
  <2>2. \A i \in 0 .. length' - 1 : buffer'[i] \in Char
    BY DEF TerminalInv, BufferOk, TextOk
  <2>3. Text' = [i \in 1 .. length' |-> buffer'[i - 1]]
    BY DEF Text
  <2> QED BY <1>1, <2>1, <2>2, <2>3
<1>3. Text' \in Seq(Char) /\ Len(Text') = length'
  BY <1>1, <1>2, SeqOfFunction
<1>4. length' = 0 => Text' = <<>>
  BY <1>3, EmptySeq
<1> QED BY <1>1, <1>2, <1>3, <1>4

(* What the abstract state is before and after a step.                      *)
LEMMA EditorFacts ==
  ASSUME TerminalInv, TerminalInv'
  PROVE  /\ pc = "edit" => EditorText = Text /\ EditorCursor = position
         /\ pc # "edit" => EditorText = <<>> /\ EditorCursor = 0
         /\ pc' = "edit" => EditorText' = Text' /\ EditorCursor' = position'
         /\ pc' # "edit" => EditorText' = <<>> /\ EditorCursor' = 0
         /\ Text \in Seq(Char) /\ Len(Text) = length /\ length \in Nat /\ position \in 0 .. length
         /\ \A i \in 1 .. length : Text[i] = buffer[i - 1]
BY TextFacts, BufferFacts DEF EditorText, EditorCursor, TerminalInv, BufferOk

LEMMA InsertImplements ==
  ASSUME TerminalInv, TerminalInv', NEW c \in Char, Insert(c)
  PROVE  Editor!Insert(c)
<1>1. /\ pc = "edit" /\ pc' = "edit" /\ length' = length + 1 /\ position' = position + 1 /\ history' = history
  BY DEF Insert, Editing, past
<1>2. /\ EditorText = Text /\ EditorCursor = position /\ EditorText' = Text' /\ EditorCursor' = position'
      /\ Text \in Seq(Char) /\ Len(Text) = length /\ length \in Nat /\ position \in 0 .. length
      /\ \A i \in 1 .. length : Text[i] = buffer[i - 1]
  BY <1>1, EditorFacts
<1>3. /\ Text' \in Seq(Char) /\ Len(Text') = length' /\ \A i \in 1 .. length' : Text'[i] = buffer'[i - 1]
  BY NextText
<1>4. \A i \in 0 .. LineMax + 1 :
        buffer'[i] = IF i < position THEN buffer[i]
                     ELSE IF i = position THEN c
                     ELSE IF i <= length THEN buffer[i - 1] ELSE buffer[i]
  BY InsertBuffer DEF TerminalInv
<1>5. ASSUME NEW i \in 1 .. length + 1
      PROVE  Text'[i] = IF i <= position THEN Text[i] ELSE IF i = position + 1 THEN c ELSE Text[i - 1]
  <2>1. i - 1 \in 0 .. LineMax + 1 /\ i \in 1 .. length' /\ i - 1 <= length
    BY <1>1, <1>2, BufferFacts DEF TerminalInv
  <2>2. Text'[i] = IF i - 1 < position THEN buffer[i - 1]
                   ELSE IF i - 1 = position THEN c ELSE buffer[(i - 1) - 1]
    BY <1>3, <1>4, <2>1
  <2>3. i <= position => i \in 1 .. length
    BY <1>2
  <2>4. i > position + 1 => i - 1 \in 1 .. length
    BY <1>2
  <2> QED BY <1>2, <2>2, <2>3, <2>4
<1>6. Text' = SubSeq(Text, 1, position) \o <<c>> \o SubSeq(Text, position + 1, Len(Text))
  <2>1. Len(Text') = Len(Text) + 1 /\ position \in 0 .. Len(Text)
    BY <1>1, <1>2, <1>3
  <2>2. \A i \in 1 .. Len(Text) + 1 :
          Text'[i] = IF i <= position THEN Text[i] ELSE IF i = position + 1 THEN c ELSE Text[i - 1]
    BY <1>2, <1>5
  <2> QED BY <1>2, <1>3, <2>1, <2>2, InsertedFacts
<1> QED BY <1>1, <1>2, <1>6 DEF Editor!Insert, Editor!Before, Editor!Behind

(* A text of which a step removes the character at i.                       *)
LEMMA RemovedText ==
  ASSUME TerminalInv, TerminalInv', NEW i \in 1 .. length, length' = length - 1,
         \A k \in 0 .. length - 2 : buffer'[k] = IF i - 1 <= k THEN buffer[k + 1] ELSE buffer[k]
  PROVE  Text' = SubSeq(Text, 1, i - 1) \o SubSeq(Text, i + 1, Len(Text))
<1>1. /\ Text \in Seq(Char) /\ Len(Text) = length /\ length \in Nat
      /\ \A k \in 1 .. length : Text[k] = buffer[k - 1]
  BY EditorFacts
<1>2. /\ Text' \in Seq(Char) /\ Len(Text') = length' /\ \A k \in 1 .. length' : Text'[k] = buffer'[k - 1]
  BY NextText
<1> DEFINE t == SubSeq(Text, 1, i - 1) \o SubSeq(Text, i + 1, Len(Text))
<1>3. /\ t \in Seq(Char) /\ Len(t) = length - 1
      /\ \A p \in 1 .. length - 1 : t[p] = IF p < i THEN Text[p] ELSE Text[p + 1]
  BY <1>1, WithoutFacts
<1> HIDE DEF t
<1>4. ASSUME NEW p \in 1 .. length - 1 PROVE Text'[p] = t[p]
  <2>1. p - 1 \in 0 .. length - 2 /\ p \in 1 .. length /\ p + 1 \in 1 .. length /\ p \in 1 .. length'
    BY <1>1, BufferFacts DEF TerminalInv
  <2>2. i - 1 <= p - 1 <=> ~ p < i
    BY <1>1
  <2>3. (p - 1) + 1 = (p + 1) - 1
    BY <1>1
  <2>4. buffer'[p - 1] = IF ~ p < i THEN buffer[(p + 1) - 1] ELSE buffer[p - 1]
    BY <2>1, <2>2, <2>3
  <2> QED BY <1>1, <1>2, <1>3, <2>1, <2>4
<1>5. Text' = t
  BY <1>1, <1>2, <1>3, <1>4, SameSequence
<1> QED BY <1>5 DEF t

LEMMA RemoveImplements ==
  ASSUME TerminalInv, TerminalInv', Delete \/ Backspace
  PROVE  Editor!Delete \/ Editor!Backspace
<1>1. /\ pc = "edit" /\ pc' = "edit" /\ length' = length - 1 /\ history' = history
  BY DEF Delete, Backspace, Editing, past
<1>2. /\ EditorText = Text /\ EditorCursor = position /\ EditorText' = Text' /\ EditorCursor' = position'
      /\ Text \in Seq(Char) /\ Len(Text) = length /\ length \in Nat /\ position \in 0 .. length
  BY <1>1, EditorFacts
<1>3. CASE Delete
  <2>1. position < length /\ position' = position /\ position + 1 \in 1 .. length /\ (position + 1) - 1 = position
    BY <1>2, <1>3 DEF Delete
  <2>2. ASSUME NEW k \in 0 .. length - 2
        PROVE  buffer'[k] = IF (position + 1) - 1 <= k THEN buffer[k + 1] ELSE buffer[k]
    <3>1. k \in 0 .. LineMax + 1 /\ k < length
      BY BufferFacts DEF TerminalInv
    <3>2. buffer'[k] = IF position <= k /\ k < length THEN buffer[k + 1] ELSE buffer[k]
      BY <1>3, <3>1, DeleteBuffer DEF TerminalInv
    <3> QED BY <2>1, <3>1, <3>2
  <2>3. Text' = SubSeq(Text, 1, (position + 1) - 1) \o SubSeq(Text, (position + 1) + 1, Len(Text))
    BY <1>1, <2>1, <2>2, RemovedText
  <2>4. Tail(SubSeq(Text, position + 1, Len(Text))) = SubSeq(Text, (position + 1) + 1, Len(Text))
    BY <1>2, <2>1, HeadTailOfSubSeq
  <2>5. Text' = SubSeq(Text, 1, position) \o Tail(SubSeq(Text, position + 1, Len(Text)))
    BY <2>1, <2>3, <2>4
  <2> QED BY <1>1, <1>2, <2>1, <2>5 DEF Editor!Delete, Editor!Before, Editor!Behind
<1>4. CASE Backspace
  <2>1. position > 0 /\ position' = position - 1 /\ position \in 1 .. length
    BY <1>2, <1>4 DEF Backspace
  <2>2. ASSUME NEW k \in 0 .. length - 2
        PROVE  buffer'[k] = IF position - 1 <= k THEN buffer[k + 1] ELSE buffer[k]
    <3>1. k \in 0 .. LineMax + 1 /\ k < length - 1
      BY BufferFacts DEF TerminalInv
    <3> QED BY <1>4, <3>1, BackspaceBuffer DEF TerminalInv
  <2>3. Text' = SubSeq(Text, 1, position - 1) \o SubSeq(Text, position + 1, Len(Text))
    BY <1>1, <2>1, <2>2, RemovedText
  <2> QED BY <1>1, <1>2, <2>1, <2>3 DEF Editor!Backspace, Editor!Behind
<1> QED BY <1>3, <1>4

LEMMA MoveImplements ==
  ASSUME TerminalInv, TerminalInv', Move
  PROVE  Editor!Move
<1>1. /\ pc = "edit" /\ pc' = "edit" /\ UNCHANGED <<buffer, length, history>> /\ position' \in 0 .. length
  BY MovePosition DEF Move, Editing, past, TerminalInv
<1>2. UNCHANGED Text
  BY <1>1 DEF Text
<1> QED BY <1>1, <1>2, EditorFacts DEF Editor!Move

LEMMA CancelImplements ==
  ASSUME TerminalInv, TerminalInv', Cancel \/ Exit
  PROVE  Editor!Cancel
<1>1. UNCHANGED history
  BY DEF Cancel, Exit, past
<1>2. EditorText' = <<>> /\ EditorCursor' = 0
  <2>1. CASE Cancel
    <3>1. length' = 0 /\ position' = 0 /\ pc' = "edit"
      BY <2>1 DEF Cancel, Editing
    <3> QED BY <3>1, NextText, EditorFacts
  <2>2. CASE Exit
    <3>1. pc' # "edit"
      BY <2>2 DEF Exit
    <3> QED BY <3>1, EditorFacts
  <2> QED BY <2>1, <2>2
<1> QED BY <1>1, <1>2 DEF Editor!Cancel

LEMMA RecallImplements ==
  ASSUME TerminalInv, TerminalInv', WithinRing, ArrowUp \/ ArrowDown
  PROVE  Editor!Recall
<1>1. PICK start \in 0 .. history_length, n \in Nat : Entry(start, n) /\ Recall(start, n)
  BY UpEntry, DownEntry DEF TerminalInv
<1>2. pc = "edit" /\ pc' = "edit" /\ length' = n /\ position' = n /\ history' = history
  BY <1>1 DEF ArrowUp, ArrowDown, Editing, Recall
<1>3. /\ EditorText' = Text' /\ EditorCursor' = n
      /\ Text' \in Seq(Char) /\ Len(Text') = n /\ \A i \in 1 .. n : Text'[i] = buffer'[i - 1]
      /\ n = 0 => Text' = <<>>
  BY <1>2, EditorFacts, NextText
<1>4. ASSUME n > 0 PROVE Editor!IsEntry(Text')
  <2> DEFINE j == start + n + 1
             s == SubSeq(history, start + 1, j - 1)
  <2>1. /\ history \in Seq(Char \cup {NewLine}) /\ Len(history) = history_length /\ history_length \in Nat
        /\ \A k \in 1 .. history_length : history[k] \in Char \cup {NewLine}
    BY PastFacts DEF TerminalInv, TerminalTypeOK
  <2>2. /\ start \in 0 .. history_length /\ j \in 0 .. history_length /\ start < j /\ history[j] = NewLine
        /\ start > 0 => history[start] = NewLine
        /\ \A k \in start + 1 .. start + n : history[k] # NewLine
        /\ j - 1 = start + n
    BY <1>1, <1>4, <2>1 DEF Entry
  <2> HIDE DEF j
  <2>3. \A i \in 1 .. n : Text'[i] = history[start + i]
    <3> SUFFICES ASSUME NEW i \in 1 .. n PROVE Text'[i] = history[start + i]
      OBVIOUS
    <3>1. i - 1 \in 0 .. n - 1 /\ start + (i - 1) + 1 = start + i
      BY <2>1
    <3>2. buffer'[i - 1] = history[start + (i - 1) + 1]
      BY <1>1, <3>1, RecallBuffer DEF TerminalInv
    <3> QED BY <1>3, <3>1, <3>2
  <2>4. /\ s \in Seq(Char \cup {NewLine}) /\ Len(s) = n
        /\ \A i \in 1 .. n : s[i] = history[start + i]
    <3>1. start + 1 \in Int /\ start + n \in Int /\ start + n <= history_length
      BY <1>1, <2>1, <2>2
    <3>2. \A i \in start + 1 .. start + n : history[i] \in Char \cup {NewLine}
      BY <2>1, <3>1
    <3> DEFINE u == SubSeq(history, start + 1, start + n)
    <3>3. /\ u \in Seq(Char \cup {NewLine})
          /\ Len(u) = IF start + 1 <= start + n THEN (start + n) - (start + 1) + 1 ELSE 0
          /\ \A i \in 1 .. (start + n) - (start + 1) + 1 : u[i] = history[(start + 1) + i - 1]
      BY <3>1, <3>2, SubSeqProperties
    <3>4. s = u
      BY <2>2
    <3> HIDE DEF u, s
    <3>5. Len(u) = n
      BY <1>4, <2>1, <3>3
    <3>6. ASSUME NEW i \in 1 .. n PROVE u[i] = history[start + i]
      <4>1. i \in 1 .. (start + n) - (start + 1) + 1 /\ (start + 1) + i - 1 = start + i
        BY <2>1
      <4> QED BY <3>3, <4>1
    <3> QED BY <3>3, <3>4, <3>5, <3>6
  <2> HIDE DEF s
  <2>5. Text' \in Seq(Char \cup {NewLine})
    BY <1>3, SeqMonotonic
  <2>6. Text' = s
    BY <1>3, <2>3, <2>4, <2>5, SameSequence
  <2>7. \A k \in start + 1 .. j - 1 : history[k] # NewLine
    BY <2>2
  <2> QED BY <2>1, <2>2, <2>6, <2>7 DEF Editor!IsEntry, s
<1>5. EditorText' = <<>> \/ Editor!IsEntry(EditorText')
  BY <1>3, <1>4
<1> QED BY <1>2, <1>3, <1>5 DEF Editor!Recall

LEMMA EnterImplements ==
  ASSUME TerminalInv, TerminalInv', Enter
  PROVE  Editor!Enter
<1>1. pc = "edit" /\ pc' # "edit"
  BY DEF Enter, Editing
<1>2. EditorText = Text /\ EditorText' = <<>> /\ EditorCursor' = 0 /\ (Text = <<>> <=> length = 0)
  BY <1>1, EditorFacts, TextFacts DEF TerminalInv, BufferOk
<1>3. history' = IF length = 0 THEN history ELSE history \o Text \o <<NewLine>>
  BY DEF Enter, past
<1> QED BY <1>2, <1>3 DEF Editor!Enter

LEMMA BetweenImplements ==
  ASSUME TerminalInv, TerminalInv', Collect \/ Run \/ Restart \/ UNCHANGED terminalVars
  PROVE  UNCHANGED Editor!vars
<1>1. CASE Collect \/ Run
  <2>1. pc # "edit" /\ pc' = "edit" /\ length' = 0 /\ position' = 0 /\ history' = history
    BY <1>1 DEF Collect, Run, NextLine, past
  <2> QED BY <2>1, EditorFacts, NextText DEF Editor!vars
<1>2. CASE Restart
  <2>1. pc # "edit" /\ pc' = "edit" /\ length' = 0 /\ position' = 0 /\ history' = history
    BY <1>2 DEF Restart, Start
  <2> QED BY <2>1, EditorFacts, NextText DEF Editor!vars
<1>3. CASE UNCHANGED terminalVars
  <2>1. UNCHANGED <<buffer, length, position, pc, history>>
    BY <1>3 DEF terminalVars, line, past
  <2>2. UNCHANGED Text
    BY <2>1 DEF Text
  <2> QED BY <2>1, <2>2 DEF Editor!vars, EditorText, EditorCursor
<1> QED BY <1>1, <1>2, <1>3

LEMMA StepImplements ==
  ASSUME TerminalInv, TerminalInv', WithinRing, [TerminalNext]_terminalVars
  PROVE  [Editor!Next]_Editor!vars
<1>1. CASE Delete \/ Backspace
  BY <1>1, RemoveImplements DEF Editor!Next
<1>2. CASE Move
  BY <1>2, MoveImplements DEF Editor!Next
<1>3. CASE Cancel \/ Exit
  BY <1>3, CancelImplements DEF Editor!Next
<1>4. CASE ArrowUp \/ ArrowDown
  BY <1>4, RecallImplements DEF Editor!Next
<1>5. CASE Enter
  BY <1>5, EnterImplements DEF Editor!Next
<1>6. CASE Collect \/ Run \/ Restart \/ UNCHANGED terminalVars
  BY <1>6, BetweenImplements
<1>7. ASSUME NEW c \in Char, Insert(c) PROVE Editor!Next
  BY <1>7, InsertImplements DEF Editor!Next
<1> QED BY <1>1, <1>2, <1>3, <1>4, <1>5, <1>6, <1>7 DEF TerminalNext

(* The editor of terminal.c is a text with a cursor, and the arrows bring   *)
(* back whole entries of the file: it implements LineEditor.                *)
THEOREM TerminalRefines ==
  ASSUME WithinRing
  PROVE  TerminalSpec => RefinesEditor
<1>1. TerminalInit => Editor!Init
  <2> SUFFICES ASSUME TerminalInit PROVE Editor!Init
    OBVIOUS
  <2>1. pc = "edit" /\ position = 0 /\ length = 0 /\ history = <<>>
    BY DEF TerminalInit
  <2>2. Text = <<>>
    BY InitTerminal, <2>1, TextFacts DEF TerminalInv, BufferOk
  <2> QED BY <2>1, <2>2, EmptySeq DEF Editor!Init, EditorText, EditorCursor
<1>2. TerminalInv /\ TerminalInv' /\ [TerminalNext]_terminalVars => [Editor!Next]_Editor!vars
  BY StepImplements
<1> QED BY <1>1, <1>2, TerminalInvariant, PTL DEF TerminalSpec, RefinesEditor, Editor!Spec
=============================================================================
