------------------------------ MODULE Validator ------------------------------
(***************************************************************************)
(* The network validator (validator/src/main.rs), a pod's init container:  *)
(* it listens on the proxy's outbound port, connects to an address that    *)
(* should not be routable, and succeeds if what it reads there is what its *)
(* own server writes, so that the connection was redirected.  Otherwise it *)
(* exits with 95, as it does when that takes too long and on a signal.     *)
(*                                                                         *)
(* This module has the steps of one process, for a specification that has  *)
(* many of them (Node).                                                    *)
(***************************************************************************)
EXTENDS Integers

CONSTANT MaxU64    \* 2^64 - 1

ASSUME ValidatorAssumption == MaxU64 \in Nat

-----------------------------------------------------------------------------
(* The --timeout argument: a number, unless its digits do not parse, and a *)
(* unit, what follows the last digit.                                      *)

Unit == [ms |-> 1, s |-> 1000, m |-> 60000, h |-> 3600000, d |-> 86400000]

UnitsOf(text) == {text.unit} \cap DOMAIN Unit

\* Mutated form of parse_timeout: the multiplication wraps around.
MutParseTimeout(text) ==
  LET numbers == {k \in text.number : k <= MaxU64}
  IN {(k * Unit[u]) % (MaxU64 + 1) : k \in numbers, u \in UnitsOf(text)}
     \cup {k \in numbers : text.unit = "" /\ k = 0}

\* The milliseconds, or nothing if the text is refused: the number has to fit, its
\* product with the unit too, and only 0 needs no unit.
parse_timeout(text) ==
  LET numbers == {k \in text.number : k <= MaxU64}
  IN {ms \in {k * Unit[u] : k \in numbers, u \in UnitsOf(text)} : ms <= MaxU64}
     \cup {k \in numbers : text.unit = "" /\ k = 0}

-----------------------------------------------------------------------------
(* The process: where it is, or the code it has exited with. *)

EXIT_OK     == "0"
EXIT_FAILED == "95"
EXIT_USAGE  == "2"

\* connecting: to connect_addr; own, other: connected to its own server, or to another.
Waiting      == {"connecting", "own", "other"}
ProcessState == {"args", "bind"} \cup Waiting \cup {EXIT_OK, EXIT_FAILED, EXIT_USAGE}

\* Arguments are parsed; one that is refused ends the process.
Parse(text) == IF parse_timeout(text) = {} THEN {EXIT_USAGE} ELSE {"bind"}

\* The address to listen on may be taken.
Bind == {"connecting", EXIT_FAILED}

\* connect: it is redirected to the server that has been spawned or, without rules,
\* refused or accepted somewhere else, if it does not hang.
Connect(redirected) == IF redirected THEN {"own"} ELSE {"connecting", "other", EXIT_FAILED}

\* Mutated form of Compare: any answer will do.
MutCompare(state) == {EXIT_OK}

\* The server's token is read in full, or what another server sent, which differs from
\* the random token; that server may also send nothing.
Compare(state) == IF state = "own" THEN {EXIT_OK} ELSE {"other", EXIT_FAILED}

\* Where validate gets, in main's select.
validate(state, redirected, text) ==
  CASE state = "args"            -> Parse(text)
    [] state = "bind"            -> Bind
    [] state = "connecting"      -> Connect(redirected)
    [] state \in {"own", "other"} -> Compare(state)
    [] OTHER                     -> {}

\* Mutated form of Interrupt: nothing bounds the time the validation takes.
MutInterrupt(state) == {}

\* The other branches of the select, polled while validate waits: the timeout and, in
\* a pod that ends, a signal.
Interrupt(state) == IF state \in Waiting THEN {EXIT_FAILED} ELSE {}
=============================================================================
