----------------------------- MODULE TaskGraphs -----------------------------
(***************************************************************************)
(* Task graphs: the DAG files, workflow templates and deployment scripts   *)
(* of the repository as sequences of tasks.  A task is a record:           *)
(*                                                                         *)
(*   id, after, rule   its name, its direct upstream tasks, trigger rule   *)
(*   does, on          what it does, and to which resource                 *)
(*   within            the resource in which it places that one: a bucket  *)
(*                     that is not empty, a network that is used cannot be *)
(*                     deleted                                             *)
(*   needs             the resources its work uses                         *)
(*   pulls             the tasks whose return value its arguments name     *)
(*   hides             what it reports as success: every fault ("fault"),  *)
(*                     faults of some of its calls only ("some faults"), a *)
(*                     call that is refused ("refusal")                    *)
(*   setups            the tasks it is the teardown of                     *)
(*   choices           the tasks a branch chooses from                     *)
(*                                                                         *)
(* Most operators below stand for an operator class of Airflow's provider  *)
(* for AWS, which is not in the repository.                                *)
(***************************************************************************)
EXTENDS Sequences, SequencesExt

None == "-"

Task(id, does, r) ==
  [id |-> id, after |-> {}, rule |-> "all_success", does |-> does, on |-> r,
   within |-> None, needs |-> {}, pulls |-> {}, hides |-> {}, setups |-> {},
   choices |-> {}]

\* A call that changes none of the resources of the model.
Work(id) == Task(id, "work", None)

\* Resources made to be removed: by a call that returns when the resource is
\* there, and by one that only asks for it.
Make(id, r) == Task(id, "make", r)
Start(id, r) == Task(id, "start", r)

\* Products nobody removes (objects, jobs), in the same two ways.
Put(id, r) == Task(id, "put", r)
Launch(id, r) == Task(id, "launch", r)

\* Sensors: until the resource is there; until it is there or has failed;
\* until it is gone.
Await(id, r) == Task(id, "await", r)
AwaitEnd(id, r) == Task(id, "await_end", r)
AwaitGone(id, r) == Task(id, "await_gone", r)

\* Removal of an empty resource; of a resource with all that is in it; the
\* same if it is there at all; a request that AWS carries out later, if the
\* resource is there at all; such a request that is refused when it is not.
Delete(id, r) == Task(id, "delete", r)
Purge(id, r) == Task(id, "purge", r)
Clear(id, r) == Task(id, "clear", r)
Drop(id, r) == Task(id, "drop", r)
Retire(id, r) == Task(id, "retire", r)

\* A BranchPythonOperator.
Branch(id, choices) == [Task(id, "branch", None) EXCEPT !.choices = choices]

-----------------------------------------------------------------------------
Needing(t, rs) == [t EXCEPT !.needs = @ \cup rs]
Pulling(t, ids) == [t EXCEPT !.pulls = @ \cup ids]
Inside(t, r) == [t EXCEPT !.within = r, !.needs = @ \cup {r}]
Ruled(t, rule) == [t EXCEPT !.rule = rule]
AllDone(t) == Ruled(t, "all_done")
After(t, ids) == [t EXCEPT !.after = @ \cup ids]

\* A step whose errors the code around it swallows.
Quietly(t) == [t EXCEPT !.hides = {"fault", "refusal"}]

\* A step with errors that the code around it swallows and errors that end it.
PartlyQuietly(t) == [t EXCEPT !.hides = {"some faults", "refusal"}]

\* t.as_teardown(setups=s): also after s, and left out unless s succeeded.
Teardown(t, s) ==
  [After(t, {s}) EXCEPT !.rule = "all_done_setup_success", !.setups = {s}]

-----------------------------------------------------------------------------
Leaves(p) == {t.id : t \in ToSet(p)} \ UNION {t.after : t \in ToSet(p)}

\* p >> q: the first tasks of q come after the last ones of p.
Then(p, q) ==
  p \o [i \in DOMAIN q |->
          IF q[i].after = {} THEN After(q[i], Leaves(p)) ELSE q[i]]

\* Stages one after the other, the tasks of a stage side by side.
Stages(ps) == FoldLeft(Then, << >>, ps)

\* Tasks one after the other.
Line(ts) == Stages([i \in DOMAIN ts |-> <<ts[i]>>])

\* The tasks of p, those under the default rule using the resource r.
Using(p, r) ==
  [i \in DOMAIN p |->
     IF p[i].rule = "all_success" THEN Needing(p[i], {r}) ELSE p[i]]

=============================================================================
