----------------------------- MODULE MCActions -----------------------------
(***************************************************************************)
(* Two commands on one pull request, with every backend an external one    *)
(* may shadow and everybody else at work on the threads.                   *)
(***************************************************************************)
EXTENDS Actions, TLC

CONSTANTS c1, c2

Job(verb) == [verb |-> verb, on |-> 1, commit |-> 0, open |-> FALSE]

MCJobs ==
  {Job(v) : v \in {"resolve", "unresolve", "draft", "ready", "status", "drafts", "reply",
                   "start", "add", "edit", "delete", "submit", "react"}}
  \union {[Job("view") EXCEPT !.on = 2], [Job("start") EXCEPT !.commit = 9]}
  \union {[Job(v) EXCEPT !.open = o] : v \in {"list", "report"}, o \in BOOLEAN}

Ext(kinds, caps) == <<[name |-> "ext", kinds |-> kinds, caps |-> caps]>>

\* No external backend; one that claims pull requests; one for every kind, and
\* passed over; one that is pinned and covers other kinds only; and a typing
\* error in --backend.
MCSettings ==
  {<<<<>>, "">>,
   <<Ext({"pr"}, {"threads", "comments", "review"}), "">>,
   <<Ext({}, {"draft", "reactions", "report"}), "gh">>,
   <<Ext({"run"}, Capabilities), "ext">>,
   <<<<>>, "ext">>}

\* Two threads; the viewer has a review open, with the second one, or not.
MCInitially ==
  {[threads |-> {1, 2}, mine |-> {}, resolved |-> {1}, next |-> 3,
    draft |-> FALSE, head |-> 1, review |-> "none", on |-> 0],
   [threads |-> {1, 2}, mine |-> {2}, resolved |-> {}, next |-> 3,
    draft |-> TRUE, head |-> 1, review |-> "pending", on |-> 1]}

MCCommands == {c1, c2}
Symmetry == Permutations(MCCommands)
=============================================================================
