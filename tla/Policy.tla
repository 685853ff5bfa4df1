------------------------------- MODULE Policy -------------------------------
(***************************************************************************)
(* Policy decisions and their combinators.  An embedding builds the        *)
(* decision of a PolicyState out of the answers of several sources, one    *)
(* combinator at a time.  A source that has not answered counts as         *)
(* Indeterminate.  known is the decision from the answers at hand; actual  *)
(* is a history variable: the same combinators on what the sources will    *)
(* have answered in the end.                                               *)
(***************************************************************************)
VARIABLES
    known,       \* the decision computed so far
    actual,      \* history: the decision once every source has answered
    overridden   \* history: override_policy took a decision that was not final

policyVars == <<known, actual, overridden>>

Decision == {"Permit", "Deny", "Indeterminate"}

-----------------------------------------------------------------------------
\* Mutant: the decision that is there counts for both.
CombineOptimistic(d, e) ==
    IF "Deny" \in {d, e} THEN "Deny"
    ELSE IF "Permit" \in {d, e} THEN "Permit" ELSE "Indeterminate"

\* combine; and_policy is the same function.
Combine(d, e) ==
    IF "Deny" \in {d, e} THEN "Deny"
    ELSE IF {d, e} = {"Permit"} THEN "Permit" ELSE "Indeterminate"

OrPolicy(d, e) ==
    IF "Permit" \in {d, e} THEN "Permit"
    ELSE IF {d, e} = {"Deny"} THEN "Deny" ELSE "Indeterminate"

NotPolicy(d) ==
    CASE d = "Permit" -> "Deny" [] d = "Deny" -> "Permit" [] OTHER -> d

\* override_policy: the first determinate decision wins.
OverridePolicy(d, e) == IF d = "Indeterminate" THEN e ELSE d

\* implies_policy; unlike the Kleene implication, Indeterminate => Permit is
\* Indeterminate.
ImpliesPolicy(d, e) ==
    CASE d = "Permit" -> e [] d = "Deny" -> "Permit" [] OTHER -> d

\* PolicyState::from_decision (From<PolicyDecision> for PolicyDecisionFn)
FromDecision(d) ==
    CASE d = "Permit" -> [fn |-> "PermitAll"]
      [] d = "Deny"   -> [fn |-> "DenyAll"]
      [] OTHER        -> [fn |-> "Custom", decision |-> d]

\* PolicyState::eval
Eval(p) ==
    CASE p.fn = "DenyAll"   -> "Deny"
      [] p.fn = "PermitAll" -> "Permit"
      [] OTHER              -> p.decision

\* PolicyState::check: everything but Permit is Deny.
Check(p) == IF Eval(p) = "Permit" THEN "Permit" ELSE "Deny"

-----------------------------------------------------------------------------
\* What a source says now and in the end.
Answer == {x \in Decision \X Decision : x[1] \in {x[2], "Indeterminate"}}

\* PolicyState::default
PolicyInit == known = "Deny" /\ actual = "Deny" /\ overridden = FALSE

Begin(x) == known' = x[1] /\ actual' = x[2] /\ overridden' = FALSE

AndAnswer(x) ==
    /\ known' = Combine(known, x[1]) /\ actual' = Combine(actual, x[2])
    /\ UNCHANGED overridden

OrAnswer(x) ==
    /\ known' = OrPolicy(known, x[1]) /\ actual' = OrPolicy(actual, x[2])
    /\ UNCHANGED overridden

Negate == known' = NotPolicy(known) /\ actual' = NotPolicy(actual) /\ UNCHANGED overridden

Implies(x) ==
    /\ \/ known' = ImpliesPolicy(known, x[1]) /\ actual' = ImpliesPolicy(actual, x[2])
       \/ known' = ImpliesPolicy(x[1], known) /\ actual' = ImpliesPolicy(x[2], actual)
    /\ UNCHANGED overridden

\* The decision so far overrides a source, or a source overrides it.
Override(x) ==
    \/ /\ known' = OverridePolicy(known, x[1]) /\ actual' = OverridePolicy(actual, x[2])
       /\ overridden' = (overridden \/ known # actual)
    \/ /\ known' = OverridePolicy(x[1], known) /\ actual' = OverridePolicy(x[2], actual)
       /\ overridden' = (overridden \/ x[1] # x[2])

PolicyNext ==
    \/ \E x \in Answer : Begin(x) \/ AndAnswer(x) \/ OrAnswer(x) \/ Implies(x) \/ Override(x)
    \/ Negate

PolicySpec == PolicyInit /\ [][PolicyNext]_policyVars

-----------------------------------------------------------------------------
\* A missing answer is never decided for the source: whatever the combinators,
\* a determinate decision is the one that all answers would have given, and a
\* policy built from partial answers permits nothing that the full ones would
\* not.  Only override_policy with a first decision that is not final can
\* break it: there an answer that comes later takes the place of the second.
MissingAnswersDecideNothing ==
    ~overridden =>
        /\ known # "Indeterminate" => actual = known
        /\ Check(FromDecision(known)) = "Permit" => Check(FromDecision(actual)) = "Permit"
=============================================================================
