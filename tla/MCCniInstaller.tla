--------------------------- MODULE MCCniInstaller ---------------------------
(* Small instances of CniInstaller: which files there are, what they hold at *)
(* the start and what the providers write to them.                          *)
EXTENDS CniInstaller, TLC

CONSTANTS p1, p2

Single(p)  == [form |-> "single", plugins |-> <<p>>]
List(ps)   == [form |-> "list", plugins |-> ps]

\* The content a file has at the start, all others being absent.
Files(given) == [n \in CniFile |-> IF n \in DOMAIN given THEN given[n] ELSE Absent]

OneBase  == {10}
TwoBases == {10, 20}

Conf(b)     == <<b, "conf">>
Conflist(b) == <<b, "conflist">>

\* A single-plugin file, a list, none.
Ordinary == {Files(Conf(10) :> Single(p1)),
             Files(Conflist(10) :> List(<<p1>>)),
             Files(<<>>)}
TwoFiles == {Files(Conf(10) :> Single(p1) @@ Conflist(20) :> List(<<p2>>))}
Broken   == {Files(Conflist(10) :> List(<<NotAMap, Linkerd>>)
                    @@ Conflist(20) :> List(<<Linkerd, p1>>)),
             Files(Conflist(10) :> Unparsable @@ Conflist(20) :> Unparsable)}

NoWrites == {}
ListWrites == {<<Conflist(10), List(<<p2>>)>>}
ConfWrites == {<<Conf(10), Single(p2)>>}
BothWrites == ListWrites \cup ConfWrites

AllFaults == Faults
FromEnv  == {<<"config">>}
AnySource == {<<"empty", "config">>, <<"empty", "error">>}
=============================================================================
