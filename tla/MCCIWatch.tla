------------------------------ MODULE MCCIWatch ------------------------------
\* A workflow's check, an app without runs and a status context, one of them
\* required; runs that fail, pass, are cancelled or skipped.
EXTENDS CIWatch, TLC

MCOutcomes == { [concl |-> "SUCCESS", notes |-> {}],
                [concl |-> "FAILURE", notes |-> {[level |-> "failure", text |-> "n"]}],
                [concl |-> "CANCELLED", notes |-> {}] }
MCFilters == {EveryCheck, ParseAnnotationChecks({None}),
              ParseAnnotationChecks({Check})}
MCOneFilter == {EveryCheck}

\* Bound: what is discussed has one suite, no context and no filter, and one step of
\* GitHub less; what has more is not discussed.
MCDiscussed ==
  \/ talk = NoTalk
  \/ /\ filter = EveryCheck /\ changes < MaxChanges
     /\ Len(head.suites) <= 1 /\ head.contexts = {}
=============================================================================
