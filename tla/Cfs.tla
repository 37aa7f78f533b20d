--------------------------------- MODULE Cfs ---------------------------------
(***************************************************************************)
(* The fair scheduler's run queue (cfs.c): tasks in a red-black tree by    *)
(* vruntime, an unsigned number that wraps.  The file has a tree of its    *)
(* own, with a sentinel for NULL, whose rotations and transplanting are    *)
(* those of Containers and which is not rebalanced after a removal.        *)
(***************************************************************************)
EXTENDS Containers

CONSTANTS CfsTask,                   \* task structures, a set of tree nodes
          NiceOf, Weights,           \* nice value of each task; nice_to_weight
          CFS_NICE_MIN, CFS_NICE_MAX, CFS_NICE_0_LOAD,
          CFS_TARGET_LATENCY, CFS_TICK_NSEC,
          VRUNTIME,                  \* values of a vruntime
          MaxTicks                   \* times a task is charged

VARIABLES rq,          \* [tree, min_vruntime, nr_running, curr]
          cfs_task,    \* [made, vruntime, load_weight, on_rq] of each task
          ticks,
          cfs_seen     \* what has happened: subset of Events

cfsVars == <<rq, cfs_task, ticks, cfs_seen>>

\* made: a task was initialised while others were queued.  charged: one was
\* charged while it was queued.  removed: one was dequeued.  wild: the parent
\* of the root was followed.
Events == {"made", "charged", "removed", "wild"}

no_tree == [root |-> NULL, child |-> [s \in Side |-> nodes_all(NULL)], parent |-> nodes_all(NULL), color |-> nodes_all("red")]

cfs_init ==
  /\ rq = [tree |-> no_tree, min_vruntime |-> 0, nr_running |-> 0, curr |-> NULL]
  /\ cfs_task = [t \in CfsTask |-> [made |-> FALSE, vruntime |-> 0, load_weight |-> 0, on_rq |-> FALSE]]
  /\ ticks = 0 /\ cfs_seen = {}

wrapped(v) == (v + VRUNTIME) % VRUNTIME

cfs_nice_to_weight(nice) == Weights[Max({CFS_NICE_MIN, Min({nice, CFS_NICE_MAX})}) - CFS_NICE_MIN + 1]

\* rbtree_init(&global_rq.tasks) is among what a new task is given.  Tasks are
\* numbered as they are made.
cfs_task_init(t) ==
  /\ "wild" \notin cfs_seen /\ {u \in CfsTask : cfs_task[u].made} = {u \in CfsTask : u < t}
  /\ cfs_task' = [cfs_task EXCEPT ![t] = [made |-> TRUE, vruntime |-> rq.min_vruntime, load_weight |-> cfs_nice_to_weight(NiceOf[t]), on_rq |-> FALSE]]
  /\ rq' = [rq EXCEPT !.tree.root = NULL]
  /\ cfs_seen' = cfs_seen \cup (IF rq.tree.root = NULL THEN {} ELSE {"made"})
  /\ UNCHANGED ticks

cfs_rotate(tree, n, s) == rotate(tree, n, s)

\* The way down, by the keys as they are now.
cfs_place(tree, key) ==
  FoldLeft(LAMBDA acc, k :
             IF acc.at = NULL THEN acc
             ELSE LET s == IF key < cfs_task[acc.at].vruntime THEN "left" ELSE "right"
                  IN  [at |-> tree.child[s][acc.at], parent |-> acc.at, side |-> s],
           [at |-> tree.root, parent |-> NULL, side |-> "left"], turns)

\* One turn of the loop of __insert_fixup.  Below a red root it asks for the
\* children of the sentinel, which are NULL.
cfs_fixup(acc) ==
  LET p == acc.parent
      g == acc.t.parent[p]
      s == IF p = acc.t.child["left"][g] THEN "left" ELSE "right"
      uncle == acc.t.child[other(s)][g]
      inside == acc.node = acc.t.child[other(s)][p]
      turned == IF inside THEN cfs_rotate(acc.t, p, s) ELSE acc.t
      top == IF inside THEN acc.node ELSE p
  IN  IF acc.wild \/ is_black(acc.t, p) THEN acc
      ELSE IF g = NULL THEN [acc EXCEPT !.wild = TRUE]
      ELSE IF ~is_black(acc.t, uncle)
        THEN [acc EXCEPT !.t.color = [@ EXCEPT ![uncle] = "black", ![p] = "black", ![g] = "red"],
                         !.node = g, !.parent = acc.t.parent[g]]
      ELSE [acc EXCEPT !.t = cfs_rotate([turned EXCEPT !.color[top] = "black", !.color[g] = "red"], g, other(s)),
                       !.node = IF inside THEN p ELSE acc.node, !.parent = top]

rbtree_insert(tree, n, key) ==
  LET at == cfs_place(tree, key)
      leaf == [tree EXCEPT !.child["left"][n] = NULL, !.child["right"][n] = NULL, !.parent[n] = at.parent, !.color[n] = "red"]
      linked == IF at.parent = NULL THEN [leaf EXCEPT !.root = n] ELSE [leaf EXCEPT !.child[at.side][at.parent] = n]
      end == FoldLeft(LAMBDA acc, k : cfs_fixup(acc), [t |-> linked, node |-> n, parent |-> at.parent, wild |-> FALSE], turns)
  IN  [tree |-> [end.t EXCEPT !.color[end.t.root] = "black"], wild |-> end.wild]

\* No fixup follows: a black node's paths are one shorter from here on.  The
\* links of the node itself, not read again, are cleared.
rbtree_delete(tree, n) ==
  [unlinked(tree, n).t EXCEPT !.child["left"][n] = NULL, !.child["right"][n] = NULL, !.parent[n] = NULL, !.color[n] = "red"]

rbtree_min(tree) == IF tree.root = NULL THEN NULL ELSE leftmost(tree, tree.root)

\* The bound for a task that slept is computed in unsigned arithmetic too.
sleeper_bound == wrapped(rq.min_vruntime - CFS_TARGET_LATENCY * 4)
placed_vruntime(t) == Max({cfs_task[t].vruntime, sleeper_bound})

cfs_enqueue_task(t) ==
  LET key == placed_vruntime(t)
      end == rbtree_insert(rq.tree, t, key)
  IN  /\ "wild" \notin cfs_seen /\ cfs_task[t].made /\ ~cfs_task[t].on_rq
      /\ cfs_task' = [cfs_task EXCEPT ![t].vruntime = key, ![t].on_rq = TRUE]
      /\ rq' = [rq EXCEPT !.tree = end.tree, !.nr_running = @ + 1]
      /\ cfs_seen' = cfs_seen \cup (IF end.wild THEN {"wild"} ELSE {})
      /\ UNCHANGED ticks

cfs_dequeue_task(t) ==
  /\ "wild" \notin cfs_seen /\ cfs_task[t].on_rq
  /\ rq' = [rq EXCEPT !.tree = rbtree_delete(rq.tree, t), !.nr_running = @ - 1]
  /\ cfs_task' = [cfs_task EXCEPT ![t].on_rq = FALSE]
  /\ cfs_seen' = cfs_seen \cup {"removed"}
  /\ UNCHANGED ticks

cfs_pick_next_task == rbtree_min(rq.tree)

\* The task picked stays in the tree; making it curr is left to the caller.
run_picked ==
  /\ "wild" \notin cfs_seen
  /\ rq' = [rq EXCEPT !.curr = cfs_pick_next_task]
  /\ UNCHANGED <<cfs_task, ticks, cfs_seen>>

cfs_account_exec(t) ==
  [cfs_task EXCEPT ![t].vruntime =
     wrapped(@ + (IF cfs_task[t].load_weight = CFS_NICE_0_LOAD THEN CFS_TICK_NSEC
                  ELSE (CFS_TICK_NSEC * CFS_NICE_0_LOAD) \div cfs_task[t].load_weight))]

\* Up only: to the first task's vruntime, then to curr's.
cfs_update_min_vruntime(tasks) ==
  LET first == cfs_pick_next_task
      queued == IF first = NULL THEN rq.min_vruntime ELSE Max({rq.min_vruntime, tasks[first].vruntime})
  IN  IF rq.curr = NULL THEN queued ELSE Max({queued, tasks[rq.curr].vruntime})

\* With its empty body the test for preemption comes to nothing.
cfs_scheduler_tick ==
  /\ "wild" \notin cfs_seen /\ rq.curr # NULL /\ ticks < MaxTicks
  /\ LET charged == cfs_account_exec(rq.curr)
     IN  /\ cfs_task' = charged
         /\ rq' = [rq EXCEPT !.min_vruntime = cfs_update_min_vruntime(charged)]
  /\ ticks' = ticks + 1
  /\ cfs_seen' = cfs_seen \cup (IF cfs_task[rq.curr].on_rq THEN {"charged"} ELSE {})

CfsNext ==
  \/ \E t \in CfsTask : cfs_task_init(t) \/ cfs_enqueue_task(t) \/ cfs_dequeue_task(t)
  \/ run_picked
  \/ cfs_scheduler_tick

\* The nodes below n, with the tree's height as the bound.
cfs_below ==
  FoldLeft(LAMBDA met, k : met \cup {rq.tree.child[s][m] : s \in Side, m \in met \ {NULL}}, {rq.tree.root}, turns) \ {NULL}

reds_apart == \A t \in cfs_below : rq.tree.parent[t] # NULL /\ ~is_black(rq.tree, t) => is_black(rq.tree, rq.tree.parent[t])

\* While nr_running counts the tasks queued, which of them the tree holds, and
\* in what order: none that are not queued; all that are, until cfs_task_init
\* empties the tree under the others; sorted, so that the one picked has the
\* least vruntime, until one is charged in its place, as one that was picked
\* and not dequeued is by every tick; with no red node below another until one
\* is removed, and only then can an insertion find the root red and follow the
\* sentinel's child (cfs_task_init, cfs_enqueue_task, cfs_dequeue_task,
\* cfs_scheduler_tick).
CfsBooks ==
  LET queued == {t \in CfsTask : cfs_task[t].on_rq}
      tree == rq.tree
      picked == cfs_pick_next_task
      sorted == \A t \in cfs_below : \A s \in Side : tree.child[s][t] # NULL =>
                  IF s = "left" THEN cfs_task[tree.child[s][t]].vruntime <= cfs_task[t].vruntime
                  ELSE cfs_task[tree.child[s][t]].vruntime >= cfs_task[t].vruntime
  IN  /\ rq.nr_running = Cardinality(queued)
      /\ "wild" \notin cfs_seen => cfs_below \subseteq queued
      /\ "wild" \in cfs_seen => "removed" \in cfs_seen
      /\ {"wild", "made"} \cap cfs_seen = {} => cfs_below = queued
      /\ {"wild", "made", "charged"} \cap cfs_seen = {} =>
           /\ sorted
           /\ picked # NULL => \A t \in queued : cfs_task[picked].vruntime <= cfs_task[t].vruntime
      /\ {"wild", "made", "removed"} \cap cfs_seen = {} => reds_apart

\* Every variable of the run queue holds a value of its type.
CfsTypeOK ==
  /\ cfs_task \in [CfsTask -> [made : BOOLEAN, vruntime : 0..(VRUNTIME - 1), load_weight : 0..8, on_rq : BOOLEAN]]
  /\ rq.curr \in CfsTask \cup {NULL} /\ rq.min_vruntime \in 0..(VRUNTIME - 1)
  /\ cfs_seen \subseteq Events /\ ticks \in 0..MaxTicks
=============================================================================
