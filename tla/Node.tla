--------------------------------- MODULE Node ---------------------------------
(***************************************************************************)
(* A node: the repair controller and the pods of RepairController, with    *)
(* the processes of their validators (Validator) in place of what the      *)
(* repair controller supposes of them.                                     *)
(***************************************************************************)
EXTENDS RepairController, Validator

CONSTANT Timeouts   \* the texts the injector may give to --timeout

ASSUME NodeAssumption == Timeouts \subseteq [number : SUBSET Nat, unit : STRING]

VARIABLES proc,     \* the validator's process, in the pods that have been started
          timeout   \* the --timeout of the validators

nodeVars == <<vars, proc, timeout>>

Running(n) == Exists(n) /\ pods[n].validator = "running"

NodeInit == /\ Init
            /\ proc = [n \in Name |-> "args"]
            /\ timeout \in Timeouts

\* The kubelet starts the container, for the first time or again after a failure.
StartValidator(n) ==
  /\ StartPod(n) \/ ValidatorRestarts(n)
  /\ proc' = [proc EXCEPT ![n] = "args"]
  /\ UNCHANGED timeout

\* Its process goes on; one that refuses its arguments is run again in vain.
ValidatorStep(n) ==
  /\ Running(n)
  /\ \E p \in validate(proc[n], pods[n].rules, timeout) \ {EXIT_OK, EXIT_FAILED} :
       proc' = [proc EXCEPT ![n] = p]
  /\ UNCHANGED <<vars, timeout>>

\* It succeeds.
ExitOk(n) ==
  /\ Running(n)
  /\ EXIT_OK \in validate(proc[n], pods[n].rules, timeout)
  /\ proc' = [proc EXCEPT ![n] = "args"]
  /\ Update(n, [pods[n] EXCEPT !.validator = "passed"])
  /\ UNCHANGED <<names, ready, born, transients, queue, repairVars, faults, timeout>>

\* It fails.  MaxTransient bounds failures of a pod that is redirected and stays.
ExitFailed(n) ==
  /\ Running(n)
  /\ EXIT_FAILED \in validate(proc[n], pods[n].rules, timeout) \cup Interrupt(proc[n])
  /\ proc' = [proc EXCEPT ![n] = "args"]
  /\ IF pods[n].rules /\ ~pods[n].deleting
     THEN transients < MaxTransient /\ transients' = transients + 1
     ELSE transients' = transients
  /\ Update(n, [pods[n] EXCEPT !.validator = "failed"])
  /\ UNCHANGED <<names, ready, born, queue, repairVars, faults, timeout>>

\* Everything else is as in RepairController; a process ends with its pod.
Others ==
  /\ \/ CniReady \/ CniGone \/ process_events \/ WatchRestarts
     \/ process_pods \/ ApiServer \/ ControllerRestarts
     \/ \E n \in Name : CreatePod(n) \/ StatusUpdate(n) \/ DeletePod(n) \/ PodGone(n)
  /\ proc' = [n \in Name |-> IF Exists(n)' THEN proc[n] ELSE "args"]
  /\ UNCHANGED timeout

NodeNext ==
  \/ \E n \in Name : StartValidator(n) \/ ValidatorStep(n) \/ ExitOk(n) \/ ExitFailed(n)
  \/ Others

\* A validator does what it can do at once; a connection may hang, but not beyond the
\* timeout.  The rest is fair as in RepairController.
Prompt(n) ==
  /\ proc[n] \in {"args", "bind", "own"} \/ pods[n].rules
  /\ ValidatorStep(n) \/ ExitOk(n)

TimesOut(n) == EXIT_FAILED \in Interrupt(proc[n]) /\ ExitFailed(n)

NodeFairness ==
  /\ WF_nodeVars(Others /\ CniReady)
  /\ \A n \in Name : /\ SF_nodeVars(StartValidator(n))
                      /\ SF_nodeVars(Prompt(n)) /\ SF_nodeVars(TimesOut(n))
                      /\ WF_nodeVars(Others /\ PodGone(n))
  /\ WF_nodeVars(Others /\ process_events)
  /\ WF_nodeVars(Others /\ process_pods)
  /\ WF_nodeVars(Others /\ (ApiDeletes \/ ApiFails))

NodeSpec == NodeInit /\ [][NodeNext]_nodeVars /\ NodeFairness

-----------------------------------------------------------------------------
(* Properties. *)

\* With its processes, the validator does only what RepairController supposes: it
\* succeeds only in a pod that is redirected, whatever it reaches otherwise, and 95 means
\* a failure.
ImplementsRepairController == Spec

\* If the timeout is not refused, in the end every pod on the node has its rules and a
\* validator that has seen them, though connections hang, other servers answer, events
\* are dropped and requests fail.
EventuallyValidated == parse_timeout(timeout) # {} => EventuallyRepaired

\* The timeout is the one that was asked for, or is refused: it is never another one
\* because a product does not fit in its type.
TimeoutIsAsked ==
  parse_timeout(timeout) =
    IF timeout.unit \in DOMAIN Unit
    THEN {k * Unit[timeout.unit] : k \in {j \in timeout.number :
                                            j <= MaxU64 \div Unit[timeout.unit]}}
    ELSE {k \in timeout.number : timeout.unit = "" /\ k = 0}
=============================================================================
