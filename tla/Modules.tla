------------------------------ MODULE Modules -------------------------------
(***************************************************************************)
(* File modules: what is being parsed and run at the moment, on top of     *)
(* what.  An import parses and runs another file in the middle of parsing; *)
(* a call of a module's function runs the module's own VM in the middle of *)
(* the caller's run.  The C call stack that nests them is the variable     *)
(* active.  A module stands for its name and its file: two files of one    *)
(* name are not modelled.                                                  *)
(***************************************************************************)
EXTENDS Integers, Sequences, FiniteSets, SequencesExt

CONSTANTS
  Module,    \* the files that can be imported
  Main,      \* the VM and chunk of main.c
  CallMax    \* VM_CALL_MAX

ASSUME ModulesAssumption ==
  Main \notin Module /\ IsFiniteSet(Module) /\ CallMax \in Nat \ {0}

Vm == Module \cup {Main}

VARIABLES
  active,        \* parses and runs in progress, innermost last
  loading_stack,
  modules,       \* the registered modules, in order
  imported,      \* imported_modules of each chunk
  call_depth,    \* of each VM
  suppress,      \* gc_suppress_depth
  parse_failed,  \* any_error of each file's parse
  runtime_had_error

vars == <<active, loading_stack, modules, imported, call_depth, suppress, parse_failed,
          runtime_had_error>>

(* "parse" a file, run the "main" program, run a module's top level to     *)
(* "load" it, or run one "call" of a module's function; base is the        *)
(* call_depth at which a run halts.                                        *)
Activity == [kind : {"parse", "main", "load", "call"}, vm : Vm, base : 0 .. CallMax]

TypeOK ==
  /\ active \in Seq(Activity)
  /\ loading_stack \in Seq(Module) /\ modules \in Seq(Module)
  /\ imported \in [Vm -> SUBSET Module]
  /\ call_depth \in [Vm -> 0 .. CallMax]
  /\ suppress \in Nat
  /\ parse_failed \in [Vm -> BOOLEAN]
  /\ runtime_had_error \in BOOLEAN

Init ==
  /\ active = <<>> /\ loading_stack = <<>> /\ modules = <<>>
  /\ imported = [v \in Vm |-> {}] /\ call_depth = [v \in Vm |-> 0]
  /\ suppress = 0
  /\ parse_failed = [v \in Vm |-> FALSE]
  /\ runtime_had_error = FALSE

-----------------------------------------------------------------------------
Top == Last(active)
Parsing == active # <<>> /\ Top.kind = "parse"
Running == active # <<>> /\ Top.kind # "parse"
Executing == Running /\ ~runtime_had_error      \* what DISPATCH lets through

Begin(kind, v) == Append(active, [kind |-> kind, vm |-> v, base |-> call_depth[v]])

(* run() of main.c, for a file or the next input of the shell: the main VM *)
(* is reset, then the input parsed.                                        *)
NewInput ==
  /\ active = <<>>
  /\ call_depth' = [call_depth EXCEPT ![Main] = 0]
  /\ parse_failed' = [parse_failed EXCEPT ![Main] = FALSE]
  /\ active' = <<[kind |-> "parse", vm |-> Main, base |-> 0]>>
  /\ UNCHANGED <<loading_stack, modules, imported, suppress, runtime_had_error>>

(* The syntax error of some statement other than an import.                *)
ParseError ==
  /\ Parsing
  /\ parse_failed' = [parse_failed EXCEPT ![Top.vm] = TRUE]
  /\ runtime_had_error' = TRUE
  /\ UNCHANGED <<active, loading_stack, modules, imported, call_depth, suppress>>

find_module(m) == m \in ToSet(modules)

(* chunk_add_import of a module that is there already.                     *)
ImportLoaded(m) ==
  /\ Parsing /\ find_module(m)
  /\ imported' = [imported EXCEPT ![Top.vm] = @ \cup {m}]
  /\ UNCHANGED <<active, loading_stack, modules, call_depth, suppress, parse_failed,
                 runtime_had_error>>

ImportCircular(m) ==
  /\ Parsing /\ ~find_module(m) /\ m \in ToSet(loading_stack)
  /\ parse_failed' = [parse_failed EXCEPT ![Top.vm] = TRUE]
  /\ runtime_had_error' = TRUE
  /\ UNCHANGED <<active, loading_stack, modules, imported, call_depth, suppress>>

(* Mutants: modules already loaded, and modules being loaded, are loaded   *)
(* again.                                                                  *)
ImportFileAlways(m) ==
  /\ Parsing /\ m \notin ToSet(loading_stack)
  /\ loading_stack' = Append(loading_stack, m)
  /\ active' = Append(active, [kind |-> "parse", vm |-> m, base |-> 0])
  /\ imported' = [imported EXCEPT ![m] = {}]
  /\ call_depth' = [call_depth EXCEPT ![m] = 0]
  /\ parse_failed' = [parse_failed EXCEPT ![m] = FALSE]
  /\ UNCHANGED <<modules, suppress, runtime_had_error>>
ImportFileCircular(m) ==
  /\ Parsing /\ ~find_module(m)
  /\ loading_stack' = Append(loading_stack, m)
  /\ active' = Append(active, [kind |-> "parse", vm |-> m, base |-> 0])
  /\ imported' = [imported EXCEPT ![m] = {}]
  /\ call_depth' = [call_depth EXCEPT ![m] = 0]
  /\ parse_failed' = [parse_failed EXCEPT ![m] = FALSE]
  /\ UNCHANGED <<modules, suppress, runtime_had_error>>

(* aer_module_load up to its parse(): a fresh chunk and VM.  A file that   *)
(* cannot be read is a parse that fails.                                   *)
ImportFile(m) ==
  /\ Parsing /\ ~find_module(m) /\ m \notin ToSet(loading_stack)
  /\ loading_stack' = Append(loading_stack, m)
  /\ active' = Append(active, [kind |-> "parse", vm |-> m, base |-> 0])
  /\ imported' = [imported EXCEPT ![m] = {}]
  /\ call_depth' = [call_depth EXCEPT ![m] = 0]
  /\ parse_failed' = [parse_failed EXCEPT ![m] = FALSE]
  /\ UNCHANGED <<modules, suppress, runtime_had_error>>

(* An import that did not succeed fails the importing file's parse.        *)
ImportFails ==
  /\ active' = Front(active)
  /\ loading_stack' = Front(loading_stack)
  /\ parse_failed' = [parse_failed EXCEPT ![Last(Front(active)).vm] = TRUE]
  /\ runtime_had_error' = FALSE
  /\ UNCHANGED <<modules, imported, call_depth>>

LoadUnparsed ==
  /\ Parsing /\ Top.vm \in Module /\ parse_failed[Top.vm]
  /\ ImportFails
  /\ UNCHANGED suppress

(* vm_gc_suppress and vm_run of a parsed module.                           *)
RunLoad ==
  /\ Parsing /\ Top.vm \in Module /\ ~parse_failed[Top.vm]
  /\ runtime_had_error' = FALSE
  /\ active' = Append(Front(active), [Top EXCEPT !.kind = "load"])
  /\ suppress' = suppress + 1
  /\ UNCHANGED <<loading_stack, modules, imported, call_depth, parse_failed>>

(* The rest of aer_module_load and chunk_add_import, once vm_run returned. *)
LoadDone ==
  /\ Executing /\ Top.kind = "load" /\ call_depth[Top.vm] = Top.base
  /\ suppress' = suppress - 1
  /\ loading_stack' = Front(loading_stack)
  /\ modules' = Append(modules, Top.vm)
  /\ active' = Front(active)
  /\ imported' = [imported EXCEPT ![Last(Front(active)).vm] = @ \cup {Top.vm}]
  /\ UNCHANGED <<call_depth, parse_failed, runtime_had_error>>

LoadAborted ==
  /\ Running /\ Top.kind = "load" /\ runtime_had_error
  /\ suppress' = suppress - 1
  /\ ImportFails

(* run() goes on to vm_run whether or not all of the input parsed.         *)
RunMain ==
  /\ Parsing /\ Top.vm = Main
  /\ runtime_had_error' = FALSE
  /\ active' = <<[Top EXCEPT !.kind = "main"]>>
  /\ UNCHANGED <<loading_stack, modules, imported, call_depth, suppress, parse_failed>>

MainDone ==
  /\ Running /\ Top.kind = "main"
  /\ runtime_had_error \/ call_depth[Main] = Top.base
  /\ active' = <<>>
  /\ UNCHANGED <<loading_stack, modules, imported, call_depth, suppress, parse_failed,
                 runtime_had_error>>

-----------------------------------------------------------------------------
(* What a running VM does: calls within its own chunk, calls of another    *)
(* module's function, and errors.                                          *)

Call ==
  /\ Executing
  /\ IF call_depth[Top.vm] < CallMax
     THEN /\ call_depth' = [call_depth EXCEPT ![Top.vm] = @ + 1]
          /\ UNCHANGED runtime_had_error
     ELSE runtime_had_error' = TRUE /\ UNCHANGED call_depth
  /\ UNCHANGED <<active, loading_stack, modules, imported, suppress, parse_failed>>

(* Returning to the halt address of a module call is CallDone.             *)
Return ==
  /\ Executing
  /\ call_depth[Top.vm] > Top.base + (IF Top.kind = "call" THEN 1 ELSE 0)
  /\ call_depth' = [call_depth EXCEPT ![Top.vm] = @ - 1]
  /\ UNCHANGED <<active, loading_stack, modules, imported, suppress, parse_failed,
                 runtime_had_error>>

RuntimeError ==
  /\ Executing
  /\ runtime_had_error' = TRUE
  /\ UNCHANGED <<active, loading_stack, modules, imported, call_depth, suppress, parse_failed>>

(* aer_module_call up to vm_run, or its error if vm_setup_call refuses.    *)
ModuleCall(m) ==
  /\ Executing /\ m \in imported[Top.vm] /\ find_module(m)
  /\ IF call_depth[m] < CallMax
     THEN /\ active' = Begin("call", m)
          /\ call_depth' = [call_depth EXCEPT ![m] = @ + 1]
          /\ suppress' = suppress + 1
          /\ UNCHANGED runtime_had_error
     ELSE /\ runtime_had_error' = TRUE
          /\ UNCHANGED <<active, call_depth, suppress>>
  /\ UNCHANGED <<loading_stack, modules, imported, parse_failed>>

(* Mutant: the count is a flag, which the end of any nested run clears.    *)
CallDoneFlag ==
  /\ Running /\ Top.kind = "call"
  /\ runtime_had_error \/ call_depth[Top.vm] = Top.base + 1
  /\ suppress' = 0
  /\ active' = Front(active)
  /\ call_depth' = IF runtime_had_error THEN call_depth
                   ELSE [call_depth EXCEPT ![Top.vm] = Top.base]
  /\ UNCHANGED <<loading_stack, modules, imported, parse_failed, runtime_had_error>>

(* Mutant: an aborted call returns before vm_gc_unsuppress.                *)
CallDoneSuppressed ==
  /\ Running /\ Top.kind = "call"
  /\ runtime_had_error \/ call_depth[Top.vm] = Top.base + 1
  /\ suppress' = IF runtime_had_error THEN suppress ELSE suppress - 1
  /\ active' = Front(active)
  /\ call_depth' = IF runtime_had_error THEN call_depth
                   ELSE [call_depth EXCEPT ![Top.vm] = Top.base]
  /\ UNCHANGED <<loading_stack, modules, imported, parse_failed, runtime_had_error>>

(* The rest of aer_module_call: the return to the module's HALT, or an     *)
(* error, which stays set for the caller and leaves the module's VM as it  *)
(* was.                                                                    *)
CallDone ==
  /\ Running /\ Top.kind = "call"
  /\ runtime_had_error \/ call_depth[Top.vm] = Top.base + 1
  /\ suppress' = suppress - 1
  /\ active' = Front(active)
  /\ call_depth' = IF runtime_had_error THEN call_depth
                   ELSE [call_depth EXCEPT ![Top.vm] = Top.base]
  /\ UNCHANGED <<loading_stack, modules, imported, parse_failed, runtime_had_error>>

Step == Call \/ Return \/ RuntimeError \/ CallDone \/ LoadDone \/ LoadAborted \/ MainDone

Next ==
  \/ NewInput \/ ParseError \/ LoadUnparsed \/ RunLoad \/ RunMain \/ Step
  \/ \E m \in Module : ImportLoaded(m) \/ ImportCircular(m) \/ ImportFile(m) \/ ModuleCall(m)

Spec == Init /\ [][Next]_vars

-----------------------------------------------------------------------------
(* Properties.                                                             *)

(* gc_collect marks the VM that runs and the registered modules.  Where it *)
(* may run, no other VM or chunk is in use below it, however imports and   *)
(* calls are nested.                                                       *)
CollectorSeesAll ==
  Running /\ suppress = 0 =>
    \A i \in DOMAIN active : active[i].vm \in ToSet(modules) \cup {Top.vm}

(* An error at any depth leaves the collector enabled and nothing marked   *)
(* as being loaded once control is back in main.c.                         *)
SuppressionEnds ==
  active = <<>> \/ Top.kind = "main" => suppress = 0 /\ loading_stack = <<>>

(* Each file's top level runs to its end once, also when several files     *)
(* import it or an earlier attempt failed.                                 *)
LoadedOnce == \A i, j \in DOMAIN modules : modules[i] = modules[j] => i = j

(* No module is parsed or run while an earlier parse or run of it is still *)
(* in progress: circular imports are refused, so a module's VM, which has  *)
(* one stack and one return address, is never entered twice.               *)
NeverReentered == \A i, j \in DOMAIN active : active[i].vm = active[j].vm => i = j

-----------------------------------------------------------------------------
(* Claims of the docs and comments that the code does not keep; README,     *)
(* section 4, says what happens instead.  No run checks them.               *)

(* A module's VM is between calls as vm_run's contract wants a VM that is  *)
(* run again: no call frame is left on it.                                 *)
IdleModulesAreReset ==
  \A m \in ToSet(modules) :
    (\A i \in DOMAIN active : active[i].vm # m) => call_depth[m] = 0
=============================================================================
