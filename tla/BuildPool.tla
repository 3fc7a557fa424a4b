------------------------------ MODULE BuildPool ------------------------------
(***************************************************************************)
(* The jobs and the progress of InitialiseFilesystem, without the tree:    *)
(* repositories are listed one after the other, their buckets become jobs, *)
(* which worker goroutines share out, and the GUI is told how many are     *)
(* done.  What the buckets hold is in FilesystemBuild.                     *)
(***************************************************************************)
EXTENDS Integers, FiniteSetsExt

CONSTANTS
    Repositories,   \* "SD-Connect" and "SD-Apply"
    Workers,        \* numRoutines goroutines
    Events,         \* what may go wrong
    Idle            \* a worker without a job

ASSUME BuildPoolAssumption ==
    /\ Workers # {}
    /\ Events \subseteq {"noBuckets", "noObjects", "noSegments", "panics",
                        "update"}

VARIABLES
    pc,             \* "repositories", "workers" or "done"
    todo,           \* repositories not listed yet
    jobs,           \* the channel; the order in it comes from a Go map
    busy,           \* the job each worker has
    skipped,        \* the jobs whose objects could not be listed
    ended,          \* the workers that a panic has ended
    prog,           \* ProjectHandler.prog
    page,           \* what AccessPage.vue shows: [loaded, all, shown, rows]
    pending         \* an UpdateFuse is waiting for fi.mu

pool == <<pc, todo, jobs, busy, skipped, ended, prog, page, pending>>

-----------------------------------------------------------------------------
(* Progress *)

Gui == [prog |-> prog, page |-> page]

With(f, x, value) ==
    [y \in DOMAIN f \cup {x} |-> IF y = x THEN value ELSE f[y]]
\* The page has a row for each project; a new one is empty.
AddRows(rows, projects) ==
    [p \in DOMAIN rows \cup projects |->
        IF p \in DOMAIN rows THEN rows[p] ELSE 0]

\* The first call for a project says how many buckets there are, later ones
\* how many are done.  Rows of the page keep the largest percentage.  (A
\* whole percentage may come out one less in floats; only 100 matters here.)
trackProjectProgress(gui, project, count) ==
    IF project \notin DOMAIN gui.prog
    THEN [prog |-> With(gui.prog, project, [current |-> 0, max |-> count]),
          page |-> [gui.page EXCEPT !.all = @ - count,
                                    !.rows = AddRows(@, {project})]]
    ELSE LET max == gui.prog[project].max
             current == gui.prog[project].current + count
             percent == IF max = 0 \/ current = max THEN 100
                        ELSE (current * 100) \div max
             row == IF project \in DOMAIN gui.page.rows
                    THEN Max({gui.page.rows[project], percent}) ELSE 0
         IN  [prog |-> [gui.prog EXCEPT ![project].current = current],
              page |-> [gui.page EXCEPT !.loaded = @ + count,
                                        !.rows = With(@, project, row)]]

\* The row of the page that a job counts for: the second part of the path of
\* a bucket is its project, of a dataset its own name.
ProjectOf(job) == <<job.repository, job.at[2]>>
JobsOf(project, js) == {j \in js : ProjectOf(j) = project}

-----------------------------------------------------------------------------
(* InitialiseFilesystem *)

PoolInit ==
    /\ pc = "repositories"
    /\ todo = Repositories
    /\ jobs = {} /\ busy = [w \in Workers |-> Idle] /\ skipped = {}
    /\ ended = {}
    /\ prog = << >>
    /\ page = [loaded |-> 0, all |-> 0, shown |-> FALSE, rows |-> << >>]
    /\ pending = "no"

NothingListed(rep) ==
    /\ pc = "repositories" /\ rep \in todo
    /\ todo' = todo \ {rep}
    /\ UNCHANGED <<pc, jobs, busy, skipped, ended, prog, page, pending>>

\* The buckets listed become jobs, and each is announced once, in the row of
\* its project. A project whose buckets only hold segments has an empty row.
Announce(rep, new, projects) ==
    /\ pc = "repositories" /\ rep \in todo
    /\ todo' = todo \ {rep}
    /\ IsFiniteSet(new) /\ Idle \notin new
    /\ \A j \in new : j.repository = rep /\ ProjectOf(j) \in projects
    /\ \A p \in projects : p[1] = rep
    /\ jobs' = jobs \cup new
    /\ prog' = [p \in DOMAIN prog \cup projects |->
                  IF p \in DOMAIN prog THEN prog[p]
                  ELSE [current |-> 0, max |-> Cardinality(JobsOf(p, new))]]
    /\ page' = [page EXCEPT !.all = @ - Cardinality(new),
                            !.rows = AddRows(@, projects)]
    /\ UNCHANGED <<pc, busy, skipped, ended, pending>>

\* showProgress, and the workers start.
StartWorkers ==
    /\ pc = "repositories" /\ todo = {}
    /\ pc' = "workers"
    /\ page' = [page EXCEPT !.shown = TRUE, !.all = -@]
    /\ UNCHANGED <<todo, jobs, busy, skipped, ended, prog, pending>>

TakeJob(w) ==
    /\ pc = "workers" /\ busy[w] = Idle /\ w \notin ended
    /\ \E j \in jobs : jobs' = jobs \ {j} /\ busy' = [busy EXCEPT ![w] = j]
    /\ UNCHANGED <<pc, todo, skipped, ended, prog, page, pending>>

\* mutant: a job that failed is put back
SkipJob_PutsBack(w) ==
    /\ busy[w] # Idle
    /\ "noObjects" \in Events
    /\ busy' = [busy EXCEPT ![w] = Idle]
    /\ jobs' = jobs \cup {busy[w]}
    /\ UNCHANGED <<pc, todo, skipped, ended, prog, page, pending>>

\* GetObjects failed, or has panicked, which ends the worker; the GUI recovers.
\* The bucket stays empty and is never reported as done.
SkipJob(w) ==
    /\ busy[w] # Idle
    /\ \/ "noObjects" \in Events /\ UNCHANGED ended
       \/ "panics" \in Events /\ ended' = ended \cup {w}
    /\ busy' = [busy EXCEPT ![w] = Idle]
    /\ skipped' = skipped \cup {busy[w]}
    /\ UNCHANGED <<pc, todo, jobs, prog, page, pending>>

\* The objects of the bucket are in the tree.
ReportJob(w) ==
    /\ busy[w] # Idle
    /\ LET gui == trackProjectProgress(Gui, ProjectOf(busy[w]), 1)
       IN  prog' = gui.prog /\ page' = gui.page
    /\ busy' = [busy EXCEPT ![w] = Idle]
    /\ UNCHANGED <<pc, todo, jobs, skipped, ended, pending>>

\* wg.Wait returns; the jobs that nobody was left to take are lost.
AllDone ==
    /\ pc = "workers" /\ \A w \in Workers : busy[w] = Idle
    /\ jobs = {} \/ ended = Workers
    /\ pc' = "done"
    /\ jobs' = {}
    /\ skipped' = skipped \cup jobs
    /\ UNCHANGED <<todo, busy, ended, prog, page, pending>>

\* The button, which is disabled while an update runs; the signal SIGUSR2,
\* which gives the same event, is not.
RequestUpdate ==
    /\ pending = "no"
    /\ pc = "done" \/ "update" \in Events
    /\ page' = [page EXCEPT !.loaded = 0, !.all = 0,
                            !.rows = [r \in DOMAIN @ |-> 0]]
    /\ pending' = "asked"
    /\ UNCHANGED <<pc, todo, jobs, busy, skipped, ended, prog>>

\* mutant: the projects of the build before are kept
DeleteProjects_Forgotten ==
    /\ pending = "asked"
    /\ pending' = "waiting"
    /\ UNCHANGED <<pc, todo, jobs, busy, skipped, ended, prog, page>>

DeleteProjects ==
    /\ pending = "asked"
    /\ prog' = << >>
    /\ pending' = "waiting"
    /\ UNCHANGED <<pc, todo, jobs, busy, skipped, ended, page>>

\* UpdateFilesystem has fi.mu.
StartAgain ==
    /\ pending = "waiting" /\ pc = "done"
    /\ pc' = "repositories"
    /\ todo' = Repositories
    /\ skipped' = {} /\ ended' = {}
    /\ pending' = "no"
    /\ UNCHANGED <<jobs, busy, prog, page>>

\* What a listing announces is read from what it adds.
PoolNext ==
    \/ \E rep \in Repositories :
        \/ NothingListed(rep)
        \/ Announce(rep, jobs' \ jobs, DOMAIN prog' \ DOMAIN prog)
    \/ StartWorkers
    \/ \E w \in Workers : TakeJob(w) \/ SkipJob(w) \/ ReportJob(w)
    \/ AllDone
    \/ RequestUpdate \/ DeleteProjects \/ StartAgain

(* Whatever is in the buckets, the tree that is built announces every       *)
(* bucket once, in the row that it is counted in.  Buckets and datasets may *)
(* be shown under one name if at most two of a repository are: makeNode     *)
(* gives a third the mark of the second, which it replaces, uncounted.      *)
PoolSpec == PoolInit /\ [][PoolNext]_pool

-----------------------------------------------------------------------------
(* Properties *)

Busy == {busy[w] : w \in {v \in Workers : busy[v] # Idle}}
Left == jobs \cup skipped \cup Busy

PoolTypeOK ==
    /\ pc \in {"repositories", "workers", "done"}
    /\ todo \subseteq Repositories
    /\ IsFiniteSet(jobs \cup skipped)
    /\ busy \in [Workers -> Busy \cup {Idle}]
    /\ ended \subseteq Workers
    /\ prog \in [DOMAIN prog -> [current : Nat, max : Nat]]
    /\ page \in [loaded : Int, all : Int, shown : BOOLEAN,
                 rows : [DOMAIN page.rows -> Int]]
    /\ pending \in {"no", "asked", "waiting"}

\* While the objects are listed, the page has the number of buckets that are
\* not done, those that failed among them, and the row of a project is full
\* exactly when none of its buckets is left.
ProgressIsTrue ==
    pc # "repositories" /\ pending = "no" =>
        /\ page.all - page.loaded = Cardinality(Left)
        /\ \A project \in DOMAIN prog : prog[project].max # 0 =>
            (page.rows[project] = 100 <=> JobsOf(project, Left) = {})

\* The types and the progress.
PoolInv == PoolTypeOK /\ ProgressIsTrue
=============================================================================
