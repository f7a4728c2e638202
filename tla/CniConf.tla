------------------------------- MODULE CniConf -------------------------------
(***************************************************************************)
(* CNI configuration documents and the two ways linkerd's installer        *)
(* changes one: inject (internal/cni/conf.go) puts the linkerd plugin at   *)
(* the tail of the plugin chain, revert (internal/cni/remove.go) takes it  *)
(* out again.  A document is abstracted to what those two look at: whether *)
(* it is parsable, whether it has a 'type' (a single plugin) or a          *)
(* 'plugins' list at its root, and the 'type' of each element of the list. *)
(***************************************************************************)
EXTENDS Integers, Sequences, SequencesExt

CONSTANTS Plugin,    \* the plugins other providers configure
          Linkerd,   \* the plugin of type "linkerd-cni"
          NotAMap    \* an element of a plugins list that is no JSON object

ASSUME PluginAssumption ==
  /\ Linkerd \notin Plugin
  /\ NotAMap \notin Plugin
  /\ NotAMap # Linkerd

Element == Plugin \cup {Linkerd, NotAMap}

\* "single": 'type' at the root; "list": a 'plugins' array; "noplugins":
\* neither; "unparsable": not JSON (for instance half-written or empty).
\* The form "absent" stands for a file that does not exist.
Form == {"absent", "unparsable", "noplugins", "single", "list"}

Content == [form : Form, plugins : Seq(Element)]

Absent     == [form |-> "absent",     plugins |-> <<>>]
Unparsable == [form |-> "unparsable", plugins |-> <<>>]

-----------------------------------------------------------------------------
\* The positions the loops of inject and revert stop at: the first element
\* that is linkerd, or that is no object and so makes the loop fail.
Stops(ps) == {i \in DOMAIN ps : ps[i] \in {Linkerd, NotAMap}}

StopsAt(ps, i) == i \in Stops(ps) /\ \A j \in Stops(ps) : i <= j

BadElement(ps) == \E i \in DOMAIN ps : StopsAt(ps, i) /\ ps[i] = NotAMap

LinkerdAt(ps) == {i \in DOMAIN ps : StopsAt(ps, i) /\ ps[i] = Linkerd}

\* The list without its first linkerd, if it has one.
WithoutLinkerd(ps) ==
  IF LinkerdAt(ps) = {} THEN ps ELSE RemoveAt(ps, CHOOSE i \in LinkerdAt(ps) : TRUE)

\* inject and revert share these error returns: json.Unmarshal fails, the
\* document has no 'plugins' array, an element before linkerd is no object.
ListError(c) ==
  \/ c.form \in {"unparsable", "noplugins"}
  \/ c.form = "list" /\ BadElement(c.plugins)

InjectError(c) == ListError(c)

inject(c) ==
  [form    |-> "list",
   plugins |-> Append(IF c.form = "single" THEN c.plugins
                                           ELSE WithoutLinkerd(c.plugins), Linkerd)]

\* A single-plugin document has no 'plugins' key, which revert refuses.
RevertError(c) == c.form = "single" \/ ListError(c)

RevertNoop(c) == c.form = "absent" \/ LinkerdAt(c.plugins) = {}

\* Mutated form of reverted: the first plugin is taken out, whichever it is.
MutReverted(c) == [c EXCEPT !.plugins = Tail(c.plugins)]

reverted(c) == [c EXCEPT !.plugins = WithoutLinkerd(c.plugins)]

\* configureCNI takes the first source that can be read and is not empty;
\* reads is what the sources return, in order.
ConfigureCNIError(reads) == \A i \in DOMAIN reads : reads[i] # "config"

-----------------------------------------------------------------------------
\* What the container runtime needs: a chain whose last plugin is linkerd.
Injected(c) ==
  /\ c.form = "list"
  /\ c.plugins # <<>>
  /\ c.plugins[Len(c.plugins)] = Linkerd

HasLinkerd(c) == \E i \in DOMAIN c.plugins : c.plugins[i] = Linkerd

\* The other providers' part of a document, and of the first n plugins of one.
OthersUpTo(ps) ==
  LET upTo[n \in 0..Len(ps)] ==
        IF n = 0 THEN <<>>
        ELSE IF ps[n] = Linkerd THEN upTo[n - 1] ELSE Append(upTo[n - 1], ps[n])
  IN upTo

Others(c) == OthersUpTo(c.plugins)[Len(c.plugins)]
=============================================================================
