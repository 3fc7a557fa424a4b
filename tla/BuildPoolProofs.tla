--------------------------- MODULE BuildPoolProofs ---------------------------
(* The progress of a build, for any number of repositories, buckets and     *)
(* workers, over any number of updates.                                     *)
EXTENDS BuildPool, FiniteSetTheorems, TLAPS

-----------------------------------------------------------------------------
(* The inductive invariant *)

\* Every job is in one place: in the channel, with one worker, or skipped.
JobsFit ==
    /\ IsFiniteSet(Left) /\ Idle \notin jobs \cup skipped
    /\ jobs \cap Busy = {} /\ skipped \cap (jobs \cup Busy) = {}
    /\ \A v, w \in Workers : busy[v] = busy[w] /\ busy[v] # Idle => v = w

\* What there is in each phase of a build.
PhasesFit ==
    /\ pc = "repositories" => Busy = {} /\ skipped = {} /\ pending = "no"
    /\ pc # "repositories" => todo = {}
    /\ pc = "done" => jobs = {} /\ Busy = {}
    /\ pending # "no" => pc = "done"

\* Projects are announced with the repository that they are listed in, and
\* have a row.
ProjectsFit ==
    /\ \A p \in DOMAIN prog : p[1] \notin todo /\ p \in DOMAIN page.rows
    /\ pending = "no" => \A j \in Left : ProjectOf(j) \in DOMAIN prog
    /\ pending = "waiting" => prog = << >>

\* Of a project as many buckets are left as are not counted yet, and its row
\* is full when all of them are.
CountsFit ==
    \A p \in DOMAIN prog :
        /\ prog[p].max = prog[p].current + Cardinality(JobsOf(p, Left))
        /\ page.rows[p] \in 0 .. 100
        /\ prog[p].max # 0 =>
            (page.rows[p] = 100 <=> prog[p].current = prog[p].max)

\* The page's counters; its rows are empty until the workers start.
PageFits ==
    /\ pc = "repositories" =>
        /\ page.loaded = 0 /\ page.all = -Cardinality(jobs)
        /\ \A p \in DOMAIN prog : prog[p].current = 0
    /\ pc # "repositories" /\ pending = "no" =>
        page.all - page.loaded = Cardinality(Left)
    /\ pending # "no" => page.loaded = 0 /\ page.all = 0
    /\ pc = "repositories" \/ pending # "no" =>
        \A p \in DOMAIN page.rows : page.rows[p] = 0

IInv == /\ PoolTypeOK /\ JobsFit /\ PhasesFit /\ ProjectsFit /\ PageFits
        /\ pending = "no" => CountsFit

-----------------------------------------------------------------------------
(* The jobs that are left *)

(* A worker is busy with what it holds.                                     *)
LEMMA InBusy ==
  \A x : x \in Busy <=> x # Idle /\ \E w \in Workers : busy[w] = x
BY DEF Busy

LEMMA InBusyNext ==
  \A x : x \in Busy' <=> x # Idle /\ \E w \in Workers : busy'[w] = x
BY DEF Busy

(* The workers are those of the type.                                       *)
LEMMA BusyIsFunction ==
  ASSUME NEW f, f = [w \in Workers |-> f[w]], busy' = f
  PROVE  busy' \in [Workers -> Busy' \cup {Idle}]
<1>1. \A w \in Workers : f[w] \in Busy' \cup {Idle}
  BY InBusyNext
<1>2. f \in [Workers -> Busy' \cup {Idle}]
  BY <1>1
<1>3. QED
  BY <1>2

(* An idle worker takes a job.                                              *)
LEMMA Taken ==
  ASSUME PoolTypeOK, NEW w \in Workers, NEW j, j # Idle, busy[w] = Idle,
         busy' = [busy EXCEPT ![w] = j]
  PROVE  Busy' = Busy \cup {j} /\ busy' \in [Workers -> Busy' \cup {Idle}]
<1>1. busy = [v \in Workers |-> busy[v]]
  BY DEF PoolTypeOK
<1>2. busy' \in [Workers -> Busy' \cup {Idle}]
  BY <1>1, BusyIsFunction
<1>3. \A v \in Workers : busy'[v] = IF v = w THEN j ELSE busy[v]
  BY <1>1
<1>4. \A x : x \in Busy' <=> x \in Busy \/ x = j
  BY <1>3, InBusy, InBusyNext
<1>5. QED
  BY <1>2, <1>4

(* A worker is done with its job, which no other has.                       *)
LEMMA Freed ==
  ASSUME PoolTypeOK, NEW w \in Workers, busy[w] # Idle,
         busy' = [busy EXCEPT ![w] = Idle]
  PROVE  /\ busy[w] \in Busy
         /\ busy' \in [Workers -> Busy' \cup {Idle}]
         /\ \A v \in Workers : busy'[v] = IF v = w THEN Idle ELSE busy[v]
         /\ JobsFit => Busy' = Busy \ {busy[w]}
<1>1. busy = [v \in Workers |-> busy[v]]
  BY DEF PoolTypeOK
<1>2. busy' \in [Workers -> Busy' \cup {Idle}]
  BY <1>1, BusyIsFunction
<1>3. \A v \in Workers : busy'[v] = IF v = w THEN Idle ELSE busy[v]
  BY <1>1
<1>4. ASSUME JobsFit
      PROVE  \A x : x \in Busy' <=> x \in Busy /\ x # busy[w]
  BY <1>3, <1>4, InBusy, InBusyNext DEF JobsFit
<1>5. QED
  BY <1>2, <1>3, <1>4, InBusy

(* The jobs of a project are among those that are left.                     *)
LEMMA JobsOfFinite ==
  ASSUME NEW s, IsFiniteSet(s), NEW p
  PROVE  /\ IsFiniteSet(JobsOf(p, s))
         /\ Cardinality(JobsOf(p, s)) \in Nat
         /\ Cardinality(JobsOf(p, s)) = 0 <=> JobsOf(p, s) = {}
<1>1. JobsOf(p, s) \in SUBSET s
  BY DEF JobsOf
<1>2. IsFiniteSet(JobsOf(p, s))
  BY <1>1, FS_Subset
<1>3. QED
  BY <1>2, FS_CardinalityType, FS_EmptySet

(* One job less.                                                            *)
LEMMA OneLess ==
  ASSUME NEW s, IsFiniteSet(s), NEW j \in s, NEW p
  PROVE  Cardinality(JobsOf(p, s \ {j})) =
             IF p = ProjectOf(j) THEN Cardinality(JobsOf(p, s)) - 1
                                 ELSE Cardinality(JobsOf(p, s))
<1>1. CASE p = ProjectOf(j)
  <2>1. JobsOf(p, s \ {j}) = JobsOf(p, s) \ {j} /\ j \in JobsOf(p, s)
    BY <1>1 DEF JobsOf
  <2>2. QED
    BY <1>1, <2>1, JobsOfFinite, FS_RemoveElement
<1>2. CASE p # ProjectOf(j)
  <2>1. JobsOf(p, s \ {j}) = JobsOf(p, s)
    BY <1>2 DEF JobsOf
  <2>2. QED
    BY <1>2, <2>1
<1>3. QED
  BY <1>1, <1>2

-----------------------------------------------------------------------------
(* The types *)

(* The fields of a page that changes.                                       *)
LEMMA PageFields ==
  ASSUME NEW R, NEW pg \in [loaded : Int, all : Int, shown : BOOLEAN, rows : R],
         NEW n \in Int, NEW S, NEW r \in S
  PROVE  LET all == [pg EXCEPT !.all = n, !.rows = r]
             loaded == [pg EXCEPT !.loaded = n, !.rows = r]
         IN  /\ all \in [loaded : Int, all : Int, shown : BOOLEAN, rows : S]
             /\ all.loaded = pg.loaded /\ all.all = n /\ all.rows = r
             /\ loaded \in [loaded : Int, all : Int, shown : BOOLEAN, rows : S]
             /\ loaded.loaded = n /\ loaded.all = pg.all /\ loaded.rows = r
OBVIOUS

LEMMA PageStarts ==
  ASSUME NEW R, NEW pg \in [loaded : Int, all : Int, shown : BOOLEAN, rows : R],
         NEW S, NEW r \in S
  PROVE  LET shown == [pg EXCEPT !.shown = TRUE, !.all = -@]
             reset == [pg EXCEPT !.loaded = 0, !.all = 0, !.rows = r]
         IN  /\ shown \in [loaded : Int, all : Int, shown : BOOLEAN, rows : R]
             /\ shown.loaded = pg.loaded /\ shown.all = -pg.all
             /\ shown.rows = pg.rows
             /\ reset \in [loaded : Int, all : Int, shown : BOOLEAN, rows : S]
             /\ reset.loaded = 0 /\ reset.all = 0 /\ reset.rows = r
<1> DEFINE P == [loaded : Int, all : Int, shown : BOOLEAN, rows : R]
           mark == [pg EXCEPT !.shown = TRUE]
           shown == [pg EXCEPT !.shown = TRUE, !.all = -@]
           half == [pg EXCEPT !.loaded = 0]
           reset == [pg EXCEPT !.loaded = 0, !.all = 0, !.rows = r]
<1>1. pg.all \in Int /\ pg.rows \in R /\ -pg.all \in Int
  OBVIOUS
<1>2. /\ mark \in P /\ mark.loaded = pg.loaded /\ mark.all = pg.all
      /\ mark.rows = pg.rows
  OBVIOUS
<1>3. shown = [mark EXCEPT !.all = -pg.all, !.rows = pg.rows]
  OBVIOUS
<1>4. half \in P /\ half.loaded = 0
  OBVIOUS
<1>5. reset = [half EXCEPT !.all = 0, !.rows = r]
  OBVIOUS
<1> HIDE DEF half, reset, shown, mark
<1>6. /\ shown \in P /\ shown.loaded = pg.loaded /\ shown.all = -pg.all
      /\ shown.rows = pg.rows
  BY <1>1, <1>2, <1>3, PageFields
<1>7. /\ reset \in [loaded : Int, all : Int, shown : BOOLEAN, rows : S]
      /\ reset.loaded = 0 /\ reset.all = 0 /\ reset.rows = r
  BY <1>4, <1>5, PageFields
<1>8. QED
  BY <1>6, <1>7 DEF shown, reset

(* What trackProjectProgress says of a project for the first time, and of   *)
(* one that it knows.                                                       *)
LEMMA TrackFirst ==
  ASSUME PoolTypeOK, NEW p, p \notin DOMAIN prog,
         NEW gui, gui = trackProjectProgress(Gui, p, 1)
  PROVE  /\ gui.prog \in [DOMAIN gui.prog -> [current : Nat, max : Nat]]
         /\ gui.page \in [loaded : Int, all : Int, shown : BOOLEAN,
                          rows : [DOMAIN gui.page.rows -> Int]]
<1>1. /\ prog \in [DOMAIN prog -> [current : Nat, max : Nat]]
      /\ page \in [loaded : Int, all : Int, shown : BOOLEAN,
                   rows : [DOMAIN page.rows -> Int]]
  BY DEF PoolTypeOK
<1>2. gui = [prog |-> With(prog, p, [current |-> 0, max |-> 1]),
             page |-> [page EXCEPT !.all = @ - 1,
                                   !.rows = AddRows(@, {p})]]
  BY DEF trackProjectProgress, Gui
<1> DEFINE start == [current |-> 0, max |-> 1]
           rows == AddRows(page.rows, {p})
<1>3. start \in [current : Nat, max : Nat]
  OBVIOUS
<1>4. rows \in [DOMAIN rows -> Int]
  BY <1>1 DEF AddRows
<1>5. With(prog, p, start) \in [DOMAIN With(prog, p, start) ->
                                   [current : Nat, max : Nat]]
  BY <1>1, <1>3 DEF With
<1> DEFINE new == [page EXCEPT !.all = @ - 1, !.rows = rows]
<1>6. gui.page = new /\ gui.prog = With(prog, p, start)
  BY <1>2
<1> HIDE DEF start, rows
<1>7. /\ new \in [loaded : Int, all : Int, shown : BOOLEAN,
                 rows : [DOMAIN rows -> Int]]
      /\ new.rows = rows
  <2>1. page.all - 1 \in Int
    BY <1>1
  <2>2. QED
    BY <1>1, <1>4, <2>1, PageFields
<1> HIDE DEF new
<1>8. QED
  BY <1>1, <1>4, <1>5, <1>6, <1>7

LEMMA MaxOfTwo ==
  ASSUME NEW a \in Int, NEW b \in Int
  PROVE  Max({a, b}) = IF a >= b THEN a ELSE b
BY DEF Max

\* The percentage that is shown.
Percent(current, max) ==
    IF max = 0 \/ current = max THEN 100 ELSE (current * 100) \div max

LEMMA TrackNext ==
  ASSUME PoolTypeOK, NEW p \in DOMAIN prog,
         NEW gui, gui = trackProjectProgress(Gui, p, 1)
  PROVE  LET current == prog[p].current + 1
             percent == Percent(current, prog[p].max)
         IN  /\ gui.prog = [prog EXCEPT ![p].current = current]
             /\ gui.page.loaded = page.loaded + 1
             /\ gui.page.all = page.all
             /\ DOMAIN gui.page.rows = DOMAIN page.rows \cup {p}
             /\ \A q \in DOMAIN page.rows \ {p} :
                  gui.page.rows[q] = page.rows[q]
             /\ percent \in Int
             /\ p \in DOMAIN page.rows =>
                  gui.page.rows[p] = IF page.rows[p] >= percent
                                     THEN page.rows[p] ELSE percent
             /\ gui.prog \in [DOMAIN prog -> [current : Nat, max : Nat]]
             /\ gui.page \in [loaded : Int, all : Int, shown : BOOLEAN,
                              rows : [DOMAIN gui.page.rows -> Int]]
<1> DEFINE current == prog[p].current + 1
           percent == Percent(current, prog[p].max)
           row == IF p \in DOMAIN page.rows
                  THEN Max({page.rows[p], percent}) ELSE 0
           rows == With(page.rows, p, row)
<1>1. /\ prog \in [DOMAIN prog -> [current : Nat, max : Nat]]
      /\ page \in [loaded : Int, all : Int, shown : BOOLEAN,
                   rows : [DOMAIN page.rows -> Int]]
      /\ page.rows \in [DOMAIN page.rows -> Int]
  BY DEF PoolTypeOK
<1>2. prog[p].current \in Nat /\ prog[p].max \in Nat
  BY <1>1
<1>3. current \in Nat /\ percent \in Int
  BY <1>2 DEF Percent
<1> DEFINE counted == [prog EXCEPT ![p].current = current]
           new == [page EXCEPT !.loaded = @ + 1, !.rows = rows]
<1>4. gui.prog = counted /\ gui.page = new
  BY DEF trackProjectProgress, Gui, Percent
<1> HIDE DEF current, percent
<1>5. p \in DOMAIN page.rows =>
        row = IF page.rows[p] >= percent THEN page.rows[p] ELSE percent
  BY <1>1, <1>3, MaxOfTwo
<1>6. row \in Int
  BY <1>1, <1>3, <1>5
<1> HIDE DEF row
<1>7. /\ DOMAIN rows = DOMAIN page.rows \cup {p}
      /\ \A q \in DOMAIN page.rows \ {p} : rows[q] = page.rows[q]
      /\ rows[p] = row
      /\ rows \in [DOMAIN rows -> Int]
  BY <1>1, <1>6 DEF With
<1> HIDE DEF rows
<1>8. /\ new \in [loaded : Int, all : Int, shown : BOOLEAN,
                 rows : [DOMAIN rows -> Int]]
      /\ new.loaded = page.loaded + 1 /\ new.all = page.all
      /\ new.rows = rows
  <2>1. page.loaded + 1 \in Int
    BY <1>1
  <2>2. QED
    BY <1>1, <1>7, <2>1, PageFields
<1>9. counted \in [DOMAIN prog -> [current : Nat, max : Nat]]
  BY <1>1, <1>3
<1> HIDE DEF new
<1>10. gui.page \in [loaded : Int, all : Int, shown : BOOLEAN,
                     rows : [DOMAIN gui.page.rows -> Int]]
  BY <1>1, <1>4, <1>7, <1>8
<1>11. QED
  BY <1>3, <1>4, <1>5, <1>7, <1>8, <1>9, <1>10 DEF current, percent

(* A listing that is announced.                                             *)
LEMMA Announced ==
  ASSUME PoolTypeOK, NEW rep, NEW new, NEW projects,
         Announce(rep, new, projects)
  PROVE  /\ PoolTypeOK'
         /\ page'.loaded = page.loaded
         /\ page'.all = page.all - Cardinality(new)
         /\ DOMAIN page'.rows = DOMAIN page.rows \cup projects
         /\ \A p \in DOMAIN page'.rows :
              page'.rows[p] = IF p \in DOMAIN page.rows THEN page.rows[p]
                                                        ELSE 0
<1> DEFINE rows == AddRows(page.rows, projects)
           start(p) == [current |-> 0, max |-> Cardinality(JobsOf(p, new))]
<1>1. IsFiniteSet(new) /\ Cardinality(new) \in Nat
  BY FS_CardinalityType DEF Announce
<1>2. /\ page \in [loaded : Int, all : Int, shown : BOOLEAN,
                   rows : [DOMAIN page.rows -> Int]]
      /\ page.rows \in [DOMAIN page.rows -> Int]
      /\ prog \in [DOMAIN prog -> [current : Nat, max : Nat]]
  BY DEF PoolTypeOK
<1>3. /\ rows \in [DOMAIN rows -> Int]
      /\ DOMAIN rows = DOMAIN page.rows \cup projects
      /\ \A p \in DOMAIN rows :
           rows[p] = IF p \in DOMAIN page.rows THEN page.rows[p] ELSE 0
  BY <1>2 DEF AddRows
<1>4. page' = [page EXCEPT !.all = page.all - Cardinality(new), !.rows = rows]
  BY DEF Announce
<1> HIDE DEF rows
<1>5. page.all - Cardinality(new) \in Int
  BY <1>1, <1>2
<1>6. /\ page' \in [loaded : Int, all : Int, shown : BOOLEAN,
                   rows : [DOMAIN page'.rows -> Int]]
      /\ page'.loaded = page.loaded
      /\ page'.all = page.all - Cardinality(new)
      /\ page'.rows = rows
  BY <1>2, <1>3, <1>4, <1>5, PageFields
<1>7. \A p \in projects : start(p) \in [current : Nat, max : Nat]
  BY <1>1, JobsOfFinite
<1>8. prog' = [p \in DOMAIN prog \cup projects |->
                 IF p \in DOMAIN prog THEN prog[p] ELSE start(p)]
  BY DEF Announce
<1> HIDE DEF start
<1>9. prog' \in [DOMAIN prog' -> [current : Nat, max : Nat]]
  BY <1>2, <1>7, <1>8
<1>10. /\ pc' = pc /\ busy' = busy /\ skipped' = skipped /\ pending' = pending
       /\ todo' = todo \ {rep} /\ jobs' = jobs \cup new /\ ended' = ended
  BY DEF Announce
<1>11. IsFiniteSet(jobs' \cup skipped')
  <2>1. jobs' \cup skipped' = (jobs \cup skipped) \cup new
    BY <1>10
  <2>2. QED
    BY <1>1, <2>1, FS_Union DEF PoolTypeOK
<1>12. busy' \in [Workers -> Busy' \cup {Idle}]
  BY <1>10 DEF PoolTypeOK, Busy
<1>13. PoolTypeOK'
  BY <1>6, <1>9, <1>10, <1>11, <1>12 DEF PoolTypeOK
<1>14. QED
  BY <1>3, <1>6, <1>13

(* A bucket that is done is counted.                                        *)
LEMMA Reported ==
  ASSUME PoolTypeOK, NEW w \in Workers, ReportJob(w)
  PROVE  PoolTypeOK'
<1> DEFINE p == ProjectOf(busy[w])
           gui == trackProjectProgress(Gui, p, 1)
<1>1. prog' = gui.prog /\ page' = gui.page
  BY DEF ReportJob
<1>2. /\ gui.prog \in [DOMAIN gui.prog -> [current : Nat, max : Nat]]
      /\ gui.page \in [loaded : Int, all : Int, shown : BOOLEAN,
                       rows : [DOMAIN gui.page.rows -> Int]]
  <2>1. CASE p \notin DOMAIN prog
    BY <2>1, TrackFirst
  <2>2. CASE p \in DOMAIN prog
    BY <2>2, TrackNext
  <2>3. QED
    BY <2>1, <2>2
<1> HIDE DEF gui
<1>3. busy' \in [Workers -> Busy' \cup {Idle}]
  BY Freed DEF ReportJob
<1>4. QED
  BY <1>1, <1>2, <1>3 DEF ReportJob, PoolTypeOK

(* The page when the workers start, and when an update is asked for.        *)
LEMMA Started ==
  ASSUME PoolTypeOK, StartWorkers
  PROVE  /\ page' \in [loaded : Int, all : Int, shown : BOOLEAN,
                       rows : [DOMAIN page'.rows -> Int]]
         /\ page'.loaded = page.loaded /\ page'.all = -page.all
         /\ page'.rows = page.rows
<1>1. page \in [loaded : Int, all : Int, shown : BOOLEAN,
                rows : [DOMAIN page.rows -> Int]]
  BY DEF PoolTypeOK
<1>2. page' = [page EXCEPT !.shown = TRUE, !.all = -@]
  BY DEF StartWorkers
<1>3. QED
  BY <1>1, <1>2, PageStarts

LEMMA Emptied ==
  ASSUME PoolTypeOK, RequestUpdate
  PROVE  /\ page' \in [loaded : Int, all : Int, shown : BOOLEAN,
                       rows : [DOMAIN page'.rows -> Int]]
         /\ page'.loaded = 0 /\ page'.all = 0
         /\ DOMAIN page'.rows = DOMAIN page.rows
         /\ \A p \in DOMAIN page'.rows : page'.rows[p] = 0
<1> DEFINE rows == [r \in DOMAIN page.rows |-> 0]
<1>1. page \in [loaded : Int, all : Int, shown : BOOLEAN,
                rows : [DOMAIN page.rows -> Int]]
  BY DEF PoolTypeOK
<1>2. page' = [page EXCEPT !.loaded = 0, !.all = 0, !.rows = rows]
  BY DEF RequestUpdate
<1>3. rows \in [DOMAIN rows -> Int] /\ DOMAIN rows = DOMAIN page.rows
      /\ \A p \in DOMAIN rows : rows[p] = 0
  OBVIOUS
<1> HIDE DEF rows
<1>4. QED
  BY <1>1, <1>2, <1>3, PageStarts

(* Every step keeps the types, also when an update is asked for at any time.*)
LEMMA TypeStep ==
  ASSUME PoolTypeOK, [PoolNext]_pool
  PROVE  PoolTypeOK'
<1>1. ASSUME NEW rep \in Repositories, NothingListed(rep)
      PROVE  PoolTypeOK'
  BY <1>1 DEF NothingListed, PoolTypeOK, Busy
<1>2. ASSUME NEW rep \in Repositories,
             Announce(rep, jobs' \ jobs, DOMAIN prog' \ DOMAIN prog)
      PROVE  PoolTypeOK'
  BY <1>2, Announced
<1>3. CASE StartWorkers
  BY <1>3, Started DEF StartWorkers, PoolTypeOK, Busy
<1>4. ASSUME NEW w \in Workers, TakeJob(w)
      PROVE  PoolTypeOK'
  <2>1. PICK j \in jobs : jobs' = jobs \ {j} /\ busy' = [busy EXCEPT ![w] = j]
    BY <1>4 DEF TakeJob
  <2>2. IsFiniteSet(jobs' \cup skipped')
    BY <1>4, <2>1, FS_Subset DEF TakeJob, PoolTypeOK
  <2>3. busy = [v \in Workers |-> busy[v]]
    BY DEF PoolTypeOK
  <2>4. busy' \in [Workers -> Busy' \cup {Idle}]
    BY <2>1, <2>3, BusyIsFunction
  <2>5. QED
    BY <1>4, <2>2, <2>4 DEF TakeJob, PoolTypeOK
<1>5. ASSUME NEW w \in Workers, SkipJob(w)
      PROVE  PoolTypeOK'
  <2>1. jobs' \cup skipped' = (jobs \cup skipped) \cup {busy[w]}
    BY <1>5 DEF SkipJob
  <2>2. IsFiniteSet(jobs' \cup skipped')
    BY <2>1, FS_AddElement DEF PoolTypeOK
  <2>3. busy' \in [Workers -> Busy' \cup {Idle}]
    BY <1>5, Freed DEF SkipJob
  <2>4. QED
    BY <1>5, <2>2, <2>3 DEF SkipJob, PoolTypeOK
<1>6. ASSUME NEW w \in Workers, ReportJob(w)
      PROVE  PoolTypeOK'
  BY <1>6, Reported
<1>7. CASE AllDone
  <2>1. jobs' \cup skipped' = jobs \cup skipped
    BY <1>7 DEF AllDone
  <2>2. QED
    BY <1>7, <2>1 DEF AllDone, PoolTypeOK, Busy
<1>8. CASE RequestUpdate
  BY <1>8, Emptied DEF RequestUpdate, PoolTypeOK, Busy
<1>9. CASE DeleteProjects
  BY <1>9 DEF DeleteProjects, PoolTypeOK, Busy
<1>10. CASE StartAgain
  <2>1. IsFiniteSet(jobs)
    BY FS_Subset DEF PoolTypeOK
  <2>2. QED
    BY <1>10, <2>1 DEF StartAgain, PoolTypeOK, Busy
<1>11. CASE UNCHANGED pool
  BY <1>11 DEF pool, PoolTypeOK, Busy
<1>12. QED
  BY <1>1, <1>2, <1>3, <1>4, <1>5, <1>6, <1>7, <1>8, <1>9, <1>10, <1>11
     DEF PoolNext

(* A build begins with no jobs and no rows.                                 *)
LEMMA PoolInitType ==
  ASSUME PoolInit PROVE PoolTypeOK
<1>1. IsFiniteSet(jobs \cup skipped)
  BY FS_EmptySet DEF PoolInit
<1>2. busy \in [Workers -> Busy \cup {Idle}]
  BY DEF PoolInit
<1>3. /\ prog \in [DOMAIN prog -> [current : Nat, max : Nat]]
      /\ page.rows \in [DOMAIN page.rows -> Int]
  BY DEF PoolInit
<1>4. QED
  BY <1>1, <1>2, <1>3 DEF PoolInit, PoolTypeOK

(* The types hold whenever an update is asked for: by the button, and by    *)
(* the signal, which does not wait for the end of a build                   *)
(* (src/internal/filesystem/actions.go, WaitForUpdateSignal).               *)
THEOREM PoolTypes == PoolSpec => []PoolTypeOK
<1>1. PoolInit => PoolTypeOK
  BY PoolInitType
<1>2. QED
  BY <1>1, TypeStep, PTL DEF PoolSpec

-----------------------------------------------------------------------------
(* The invariant *)

(* A listing that is announced adds its buckets to the page and to the      *)
(* projects, none of which was there before.                                *)
LEMMA AnnounceKeeps ==
  ASSUME IInv, NEW rep \in Repositories,
         Announce(rep, jobs' \ jobs, DOMAIN prog' \ DOMAIN prog)
  PROVE  IInv'
<1> DEFINE new == jobs' \ jobs
           projects == DOMAIN prog' \ DOMAIN prog
<1>1. /\ PoolTypeOK /\ PoolTypeOK'
      /\ page'.loaded = page.loaded
      /\ page'.all = page.all - Cardinality(new)
      /\ DOMAIN page'.rows = DOMAIN page.rows \cup projects
      /\ \A p \in DOMAIN page'.rows :
           page'.rows[p] = IF p \in DOMAIN page.rows THEN page.rows[p] ELSE 0
  BY Announced DEF IInv
<1>2. /\ pc = "repositories" /\ pc' = pc /\ rep \in todo
      /\ todo' = todo \ {rep} /\ busy' = busy /\ skipped' = skipped
      /\ pending' = pending /\ IsFiniteSet(new) /\ Idle \notin new
      /\ \A j \in new : j.repository = rep /\ ProjectOf(j) \in projects
      /\ \A p \in projects : p[1] = rep
      /\ jobs' = jobs \cup new /\ jobs \cap new = {}
  BY DEF Announce
<1>3. Busy = {} /\ Busy' = {} /\ skipped = {} /\ pending = "no"
  BY <1>2 DEF IInv, PhasesFit, Busy
<1>4. Left = jobs /\ Left' = jobs'
  BY <1>2, <1>3 DEF Left
<1>5. /\ DOMAIN prog' = DOMAIN prog \cup projects
      /\ \A p \in DOMAIN prog : prog'[p] = prog[p]
      /\ \A p \in projects :
           prog'[p] = [current |-> 0, max |-> Cardinality(JobsOf(p, new))]
  <2> DEFINE start(p) == [current |-> 0, max |-> Cardinality(JobsOf(p, new))]
  <2>1. prog' = [p \in DOMAIN prog \cup projects |->
                   IF p \in DOMAIN prog THEN prog[p] ELSE start(p)]
    BY DEF Announce
  <2>2. \A p \in projects : p \notin DOMAIN prog
    OBVIOUS
  <2> HIDE DEF projects, start
  <2>3. /\ DOMAIN prog' = DOMAIN prog \cup projects
        /\ \A p \in DOMAIN prog : prog'[p] = prog[p]
        /\ \A p \in projects : prog'[p] = start(p)
    BY <2>1, <2>2
  <2>4. QED
    BY <2>3 DEF start
<1>6. \A p \in projects : p \notin DOMAIN prog
  OBVIOUS
<1> HIDE DEF new, projects
<1>7. /\ IsFiniteSet(jobs) /\ IsFiniteSet(jobs')
      /\ Cardinality(jobs') = Cardinality(jobs) + Cardinality(new)
      /\ Cardinality(jobs) \in Nat /\ Cardinality(new) \in Nat
  <2>1. IsFiniteSet(jobs)
    BY <1>4 DEF IInv, JobsFit
  <2>2. Cardinality(jobs \cap new) = 0
    BY <1>2, FS_EmptySet
  <2>3. Cardinality(jobs) \in Nat /\ Cardinality(new) \in Nat
    BY <1>2, <2>1, FS_CardinalityType
  <2>4. /\ IsFiniteSet(jobs \cup new)
        /\ Cardinality(jobs \cup new) =
             Cardinality(jobs) + Cardinality(new) - Cardinality(jobs \cap new)
    BY <1>2, <2>1, FS_Union
  <2>5. QED
    BY <1>2, <2>1, <2>2, <2>3, <2>4
<1>8. JobsFit'
  BY <1>2, <1>3, <1>4, <1>7 DEF IInv, JobsFit
<1>9. PhasesFit'
  BY <1>2, <1>3 DEF PhasesFit
<1>10. ProjectsFit'
  BY <1>1, <1>2, <1>3, <1>4, <1>5 DEF IInv, ProjectsFit
<1>11. PageFits'
  <2>1. page'.loaded = 0 /\ page'.all = -Cardinality(jobs')
    BY <1>1, <1>2, <1>7 DEF IInv, PageFits
  <2>2. \A p \in DOMAIN prog' : prog'[p].current = 0
    BY <1>2, <1>5 DEF IInv, PageFits
  <2>3. \A p \in DOMAIN page'.rows : page'.rows[p] = 0
    BY <1>1, <1>2 DEF IInv, PageFits
  <2>4. QED
    BY <1>2, <1>3, <2>1, <2>2, <2>3 DEF PageFits
<1>12. CountsFit'
  <2> SUFFICES ASSUME NEW p \in DOMAIN prog'
               PROVE  /\ prog'[p].max = prog'[p].current
                                        + Cardinality(JobsOf(p, jobs'))
                      /\ page'.rows[p] \in 0 .. 100
                      /\ prog'[p].max # 0 =>
                          (page'.rows[p] = 100 <=>
                              prog'[p].current = prog'[p].max)
    BY <1>4 DEF CountsFit
  <2>1. CASE p \in DOMAIN prog
    <3>1. p[1] # rep
      BY <1>2, <2>1 DEF IInv, ProjectsFit
    <3>2. \A j \in new : ProjectOf(j)[1] = rep
      BY <1>2 DEF ProjectOf
    <3>3. JobsOf(p, jobs') = JobsOf(p, jobs)
      BY <1>2, <3>1, <3>2 DEF JobsOf
    <3>4. p \in DOMAIN page.rows /\ page'.rows[p] = page.rows[p]
      BY <1>1, <2>1 DEF IInv, ProjectsFit
    <3>5. QED
      BY <1>3, <1>4, <1>5, <2>1, <3>3, <3>4 DEF IInv, CountsFit
  <2>2. CASE p \in projects
    <3>1. p \notin DOMAIN prog
      BY <1>6, <2>2
    <3>2. JobsOf(p, jobs') = JobsOf(p, new)
      BY <1>2, <1>3, <1>4, <3>1 DEF JobsOf, IInv, ProjectsFit
    <3>3. page'.rows[p] = 0
      BY <1>1, <1>2, <2>2 DEF IInv, PageFits
    <3>4. Cardinality(JobsOf(p, new)) \in Nat
      BY <1>2, JobsOfFinite
    <3>5. QED
      BY <1>5, <2>2, <3>2, <3>3, <3>4
  <2>3. QED
    BY <1>5, <2>1, <2>2
<1>13. QED
  BY <1>1, <1>8, <1>9, <1>10, <1>11, <1>12 DEF IInv

(* The percentage of a part is less than 100.                               *)
LEMMA Quotient ==
  ASSUME NEW n \in Nat, NEW d \in Nat \ {0}, n * 100 < 100 * d
  PROVE  (n * 100) \div d \in 0 .. 99
<1> DEFINE q == (n * 100) \div d
<1>1. q \in Int /\ d * q <= n * 100 /\ n * 100 < d * (q + 1)
  OBVIOUS
<1> HIDE DEF q
<1>2. CASE q < 0
  BY <1>1, <1>2
<1>3. CASE q >= 100
  BY <1>1, <1>3
<1>4. QED
  BY <1>1, <1>2, <1>3 DEF q

(* A bucket that is done is no longer left, and is counted in the row of    *)
(* its project and in the page.                                             *)
LEMMA ReportKeeps ==
  ASSUME IInv, NEW w \in Workers, ReportJob(w)
  PROVE  IInv'
<1> DEFINE job == busy[w]
           p == ProjectOf(job)
           current == prog[p].current + 1
           max == prog[p].max
           percent == Percent(current, max)
<1>1. PoolTypeOK /\ PoolTypeOK' /\ JobsFit
  BY Reported DEF IInv
<1>2. /\ busy[w] # Idle /\ busy' = [busy EXCEPT ![w] = Idle]
      /\ pc' = pc /\ todo' = todo /\ jobs' = jobs /\ skipped' = skipped
      /\ pending' = pending
  BY DEF ReportJob
<1>3. /\ job \in Busy /\ Busy' = Busy \ {job}
      /\ \A v \in Workers : busy'[v] = IF v = w THEN Idle ELSE busy[v]
  BY <1>1, <1>2, Freed
<1>4. job \in Left /\ Left' = Left \ {job}
  BY <1>1, <1>2, <1>3 DEF Left, JobsFit
<1>5. pc = "workers" /\ pending = "no"
  BY <1>1, <1>3 DEF IInv, PhasesFit, PoolTypeOK
<1>6. p \in DOMAIN prog /\ \A q \in DOMAIN prog : q \in DOMAIN page.rows
  BY <1>4, <1>5 DEF IInv, ProjectsFit
<1>7. /\ IsFiniteSet(Left) /\ IsFiniteSet(Left') /\ Cardinality(Left) \in Nat
      /\ Cardinality(Left') = Cardinality(Left) - 1
  BY <1>1, <1>4, FS_RemoveElement, FS_CardinalityType DEF JobsFit
<1>8. /\ prog \in [DOMAIN prog -> [current : Nat, max : Nat]]
      /\ page.loaded \in Int /\ page.all \in Int
  BY <1>1 DEF PoolTypeOK
<1>9. /\ prog' = [prog EXCEPT ![p].current = current]
      /\ page'.loaded = page.loaded + 1 /\ page'.all = page.all
      /\ DOMAIN page'.rows = DOMAIN page.rows
      /\ \A q \in DOMAIN page.rows \ {p} : page'.rows[q] = page.rows[q]
      /\ page'.rows[p] = IF page.rows[p] >= percent THEN page.rows[p]
                                                    ELSE percent
  <2> DEFINE gui == trackProjectProgress(Gui, p, 1)
  <2>1. prog' = gui.prog /\ page' = gui.page
    BY DEF ReportJob
  <2> HIDE DEF gui, p, percent, current
  <2>2. gui = trackProjectProgress(Gui, p, 1)
    BY DEF gui
  <2>3. /\ gui.prog = [prog EXCEPT ![p].current = current]
        /\ gui.page.loaded = page.loaded + 1
        /\ gui.page.all = page.all
        /\ DOMAIN gui.page.rows = DOMAIN page.rows \cup {p}
        /\ \A q \in DOMAIN page.rows \ {p} : gui.page.rows[q] = page.rows[q]
        /\ p \in DOMAIN page.rows =>
             gui.page.rows[p] = IF page.rows[p] >= percent
                                THEN page.rows[p] ELSE percent
    BY <1>1, <1>6, <2>2, TrackNext DEF percent, current
  <2>4. p \in DOMAIN page.rows /\ DOMAIN page.rows \cup {p} = DOMAIN page.rows
    BY <1>6
  <2>5. QED
    BY <2>1, <2>3, <2>4
<1>10. /\ DOMAIN prog' = DOMAIN prog
       /\ prog'[p].current = current /\ prog'[p].max = max
       /\ \A q \in DOMAIN prog \ {p} : prog'[q] = prog[q]
  BY <1>6, <1>8, <1>9
<1>11. CountsFit
  BY <1>5 DEF IInv
<1>12. /\ prog[p].current \in Nat /\ max \in Nat
       /\ max = prog[p].current + Cardinality(JobsOf(p, Left))
       /\ Cardinality(JobsOf(p, Left')) = Cardinality(JobsOf(p, Left)) - 1
       /\ Cardinality(JobsOf(p, Left)) \in Nat
       /\ Cardinality(JobsOf(p, Left')) \in Nat
       /\ page.rows[p] \in 0 .. 100
       /\ max # 0 => (page.rows[p] = 100 <=> prog[p].current = max)
  BY <1>4, <1>6, <1>7, <1>8, <1>11, OneLess, JobsOfFinite DEF CountsFit
<1> HIDE DEF p, job
<1>13. /\ page'.rows[p] \in 0 .. 100
       /\ page'.rows[p] = 100 <=> current = max
  <2>1. current \in 1 .. max /\ page.rows[p] \in 0 .. 99
    BY <1>12
  <2>2. percent \in 0 .. 100 /\ (percent = 100 <=> current = max)
    <3> HIDE DEF max, current
    <3>1. CASE current = max
      BY <2>1, <3>1 DEF Percent
    <3>2. CASE current # max
      <4>1. /\ current \in Nat /\ max \in Nat \ {0}
            /\ current * 100 < 100 * max
        BY <1>12, <2>1, <3>2
      <4>2. (current * 100) \div max \in 0 .. 99
        BY <4>1, Quotient
      <4>3. QED
        BY <2>1, <3>2, <4>2 DEF Percent
    <3>3. QED
      BY <3>1, <3>2
  <2>3. QED
    BY <1>9, <2>1, <2>2
<1> HIDE DEF current, max, percent
<1>14. CountsFit'
  <2> SUFFICES ASSUME NEW q \in DOMAIN prog
               PROVE  /\ prog'[q].max = prog'[q].current
                                        + Cardinality(JobsOf(q, Left'))
                      /\ page'.rows[q] \in 0 .. 100
                      /\ prog'[q].max # 0 =>
                          (page'.rows[q] = 100 <=>
                              prog'[q].current = prog'[q].max)
    BY <1>10 DEF CountsFit
  <2>1. CASE q = p
    BY <1>10, <1>12, <1>13, <2>1 DEF current
  <2>2. CASE q # p
    <3>1. Cardinality(JobsOf(q, Left')) = Cardinality(JobsOf(q, Left))
      BY <1>4, <1>7, <2>2, OneLess DEF p
    <3>2. QED
      BY <1>6, <1>9, <1>10, <1>11, <2>2, <3>1 DEF CountsFit
  <2>3. QED
    BY <2>1, <2>2
<1>15. JobsFit'
  BY <1>1, <1>2, <1>3, <1>7 DEF JobsFit
<1>16. PhasesFit'
  BY <1>2, <1>3, <1>5 DEF IInv, PhasesFit
<1>17. ProjectsFit'
  BY <1>2, <1>4, <1>5, <1>9, <1>10 DEF IInv, ProjectsFit
<1>18. PageFits'
  <2>1. page.all - page.loaded = Cardinality(Left)
    BY <1>5 DEF IInv, PageFits
  <2>2. QED
    BY <1>2, <1>5, <1>7, <1>8, <1>9, <2>1 DEF PageFits
<1>19. QED
  BY <1>1, <1>14, <1>15, <1>16, <1>17, <1>18 DEF IInv

(* The other steps of a worker move a job from one place to another.        *)
LEMMA JobKeeps ==
  ASSUME IInv, NEW w \in Workers, TakeJob(w) \/ SkipJob(w)
  PROVE  IInv'
<1>1. PoolTypeOK /\ PoolTypeOK' /\ JobsFit
  BY TypeStep DEF IInv, PoolNext
<1>2. pc = "workers" /\ pending = "no"
  BY <1>1, InBusy DEF IInv, PhasesFit, PoolTypeOK, TakeJob, SkipJob
<1>3. /\ pc' = pc /\ todo' = todo /\ prog' = prog /\ page' = page
      /\ pending' = pending
  BY DEF TakeJob, SkipJob
<1>4. /\ Left' = Left /\ Idle \notin jobs' \cup skipped'
      /\ jobs' \cap Busy' = {} /\ skipped' \cap (jobs' \cup Busy') = {}
      /\ \A v, u \in Workers : busy'[v] = busy'[u] /\ busy'[v] # Idle => v = u
  <2>1. CASE TakeJob(w)
    <3>1. PICK j \in jobs : /\ jobs' = jobs \ {j}
                            /\ busy' = [busy EXCEPT ![w] = j]
      BY <2>1 DEF TakeJob
    <3>2. j # Idle /\ busy[w] = Idle /\ skipped' = skipped
      BY <1>1, <2>1, <3>1 DEF JobsFit, TakeJob
    <3>3. Busy' = Busy \cup {j}
      BY <1>1, <3>1, <3>2, Taken
    <3>4. \A v \in Workers : busy'[v] = IF v = w THEN j ELSE busy[v]
      BY <1>1, <3>1 DEF PoolTypeOK
    <3>5. j \notin Busy /\ j \notin skipped
      BY <1>1, <3>1 DEF JobsFit
    <3>6. Left' = Left
      BY <3>1, <3>2, <3>3 DEF Left
    <3>7. QED
      BY <1>1, <3>1, <3>2, <3>3, <3>4, <3>5, <3>6, InBusy DEF JobsFit
  <2>2. CASE SkipJob(w)
    <3>1. /\ busy[w] # Idle /\ busy' = [busy EXCEPT ![w] = Idle]
          /\ skipped' = skipped \cup {busy[w]} /\ jobs' = jobs
      BY <2>2 DEF SkipJob
    <3>2. /\ busy[w] \in Busy /\ Busy' = Busy \ {busy[w]}
          /\ \A v \in Workers : busy'[v] = IF v = w THEN Idle ELSE busy[v]
      BY <1>1, <3>1, Freed
    <3>3. Left' = Left
      BY <3>1, <3>2 DEF Left
    <3>4. QED
      BY <1>1, <3>1, <3>2, <3>3 DEF JobsFit
  <2>3. QED
    BY <2>1, <2>2
<1>5. JobsFit'
  BY <1>1, <1>4 DEF JobsFit
<1>6. PhasesFit'
  BY <1>2, <1>3 DEF IInv, PhasesFit
<1>7. ProjectsFit'
  BY <1>3, <1>4 DEF IInv, ProjectsFit
<1>8. CountsFit'
  BY <1>2, <1>3, <1>4 DEF IInv, CountsFit
<1>9. PageFits'
  BY <1>2, <1>3, <1>4 DEF IInv, PageFits
<1>10. QED
  BY <1>1, <1>5, <1>6, <1>7, <1>8, <1>9 DEF IInv

(* Every step keeps the invariant if an update is only asked for once the   *)
(* build has ended.                                                         *)
LEMMA InvStep ==
  ASSUME "update" \notin Events, IInv, [PoolNext]_pool
  PROVE  IInv'
<1>1. PoolTypeOK /\ PoolTypeOK'
  BY TypeStep DEF IInv
<1>2. ASSUME NEW rep \in Repositories, NothingListed(rep)
      PROVE  IInv'
  <2>1. /\ pc = "repositories" /\ todo' = todo \ {rep} /\ Left' = Left
        /\ Busy' = Busy
        /\ UNCHANGED <<pc, jobs, busy, skipped, prog, page, pending>>
    BY <1>2 DEF NothingListed, Left, Busy
  <2>2. JobsFit' /\ PhasesFit' /\ ProjectsFit'
    BY <2>1 DEF IInv, JobsFit, PhasesFit, ProjectsFit
  <2>3. PageFits' /\ (pending' = "no" => CountsFit')
    BY <2>1 DEF IInv, PageFits, CountsFit
  <2>4. QED
    BY <1>1, <2>2, <2>3 DEF IInv
<1>3. ASSUME NEW rep \in Repositories,
             Announce(rep, jobs' \ jobs, DOMAIN prog' \ DOMAIN prog)
      PROVE  IInv'
  BY <1>3, AnnounceKeeps
<1>4. CASE StartWorkers
  <2>1. /\ pc = "repositories" /\ todo = {} /\ pc' = "workers"
        /\ UNCHANGED <<todo, jobs, busy, skipped, prog, pending>>
        /\ Left' = Left /\ Busy' = Busy
    BY <1>4 DEF StartWorkers, Left, Busy
  <2>2. /\ page'.loaded = page.loaded /\ page'.all = -page.all
        /\ page'.rows = page.rows
    BY <1>1, <1>4, Started
  <2>3. Left = jobs /\ Cardinality(jobs) \in Nat /\ pending = "no"
    <3>1. Busy = {} /\ skipped = {} /\ pending = "no"
      BY <2>1 DEF IInv, PhasesFit
    <3>2. Left = jobs /\ IsFiniteSet(jobs)
      BY <3>1 DEF Left, IInv, JobsFit
    <3>3. QED
      BY <3>1, <3>2, FS_CardinalityType
  <2>4. JobsFit' /\ PhasesFit' /\ ProjectsFit'
    BY <2>1, <2>2 DEF IInv, JobsFit, PhasesFit, ProjectsFit
  <2>5. page.loaded = 0 /\ page.all = -Cardinality(jobs)
    BY <2>1 DEF IInv, PageFits
  <2>6. PageFits'
    BY <2>1, <2>2, <2>3, <2>5 DEF PageFits
  <2>7. CountsFit'
    BY <2>1, <2>2, <2>3 DEF IInv, CountsFit
  <2>8. QED
    BY <1>1, <2>4, <2>6, <2>7 DEF IInv
<1>5. ASSUME NEW w \in Workers, TakeJob(w) \/ SkipJob(w)
      PROVE  IInv'
  BY <1>5, JobKeeps
<1>6. ASSUME NEW w \in Workers, ReportJob(w)
      PROVE  IInv'
  BY <1>6, ReportKeeps
<1>7. CASE AllDone
  <2>1. /\ pc = "workers" /\ pc' = "done" /\ Busy = {}
        /\ jobs' = {} /\ skipped' = skipped \cup jobs
        /\ UNCHANGED <<todo, busy, prog, page, pending>>
        /\ Left' = Left /\ Busy' = Busy
    BY <1>7 DEF AllDone, Left, Busy
  <2>2. pending = "no"
    BY <2>1 DEF IInv, PhasesFit
  <2>3. JobsFit' /\ PhasesFit' /\ ProjectsFit'
    BY <2>1, <2>2 DEF IInv, JobsFit, PhasesFit, ProjectsFit
  <2>4. PageFits' /\ CountsFit'
    BY <2>1, <2>2 DEF IInv, PageFits, CountsFit
  <2>5. QED
    BY <1>1, <2>3, <2>4 DEF IInv
<1>8. CASE RequestUpdate
  <2>1. /\ pc = "done" /\ pending = "no" /\ pending' = "asked"
        /\ UNCHANGED <<pc, todo, jobs, busy, skipped, prog>>
        /\ Left' = Left /\ Busy' = Busy
    BY <1>8 DEF RequestUpdate, Left, Busy
  <2>2. /\ page'.loaded = 0 /\ page'.all = 0
        /\ DOMAIN page'.rows = DOMAIN page.rows
        /\ \A p \in DOMAIN page'.rows : page'.rows[p] = 0
    BY <1>1, <1>8, Emptied
  <2>3. JobsFit' /\ PhasesFit' /\ ProjectsFit'
    BY <2>1, <2>2 DEF IInv, JobsFit, PhasesFit, ProjectsFit
  <2>4. PageFits'
    BY <2>1, <2>2 DEF PageFits
  <2>5. QED
    BY <1>1, <2>1, <2>3, <2>4 DEF IInv
<1>9. CASE DeleteProjects
  <2>1. /\ pending = "asked" /\ pending' = "waiting" /\ prog' = << >>
        /\ UNCHANGED <<pc, todo, jobs, busy, skipped, page>>
        /\ Left' = Left /\ Busy' = Busy
    BY <1>9 DEF DeleteProjects, Left, Busy
  <2>2. JobsFit' /\ PhasesFit' /\ ProjectsFit'
    BY <2>1 DEF IInv, JobsFit, PhasesFit, ProjectsFit
  <2>3. PageFits'
    BY <2>1 DEF IInv, PhasesFit, PageFits
  <2>4. QED
    BY <1>1, <2>1, <2>2, <2>3 DEF IInv
<1>10. CASE StartAgain
  <2>1. /\ pending = "waiting" /\ pc = "done" /\ pc' = "repositories"
        /\ skipped' = {} /\ pending' = "no" /\ Busy' = Busy
        /\ UNCHANGED <<jobs, busy, prog, page>>
    BY <1>10 DEF StartAgain, Busy
  <2>2. jobs = {} /\ Busy = {} /\ DOMAIN prog = {} /\ Left' = {}
    BY <2>1 DEF IInv, PhasesFit, ProjectsFit, Left
  <2>3. IsFiniteSet(Left') /\ Cardinality(jobs') = 0
    BY <2>1, <2>2, FS_EmptySet
  <2>4. JobsFit'
    BY <2>1, <2>2, <2>3 DEF IInv, JobsFit
  <2>5. PhasesFit' /\ ProjectsFit'
    BY <2>1, <2>2 DEF PhasesFit, ProjectsFit
  <2>6. PageFits' /\ CountsFit'
    BY <2>1, <2>2, <2>3 DEF IInv, PageFits, CountsFit
  <2>7. QED
    BY <1>1, <2>4, <2>5, <2>6 DEF IInv
<1>11. CASE UNCHANGED pool
  <2>1. /\ UNCHANGED <<pc, todo, jobs, busy, skipped, prog, page, pending>>
        /\ Left' = Left /\ Busy' = Busy
    BY <1>11 DEF pool, Left, Busy
  <2>2. JobsFit' /\ PhasesFit' /\ ProjectsFit'
    BY <2>1 DEF IInv, JobsFit, PhasesFit, ProjectsFit
  <2>3. PageFits' /\ (pending' = "no" => CountsFit')
    BY <2>1 DEF IInv, PageFits, CountsFit
  <2>4. QED
    BY <1>1, <2>2, <2>3 DEF IInv
<1>12. QED
  BY <1>2, <1>3, <1>4, <1>5, <1>6, <1>7, <1>8, <1>9, <1>10, <1>11
     DEF PoolNext

(* Jobs are in one place each and counted, for any number of repositories,  *)
(* buckets and workers, and over any number of updates.                     *)
THEOREM Inductive == ASSUME "update" \notin Events PROVE PoolSpec => []IInv
<1>1. ASSUME PoolInit PROVE IInv
  <2>1. /\ Busy = {} /\ Left = {} /\ DOMAIN prog = {}
        /\ page.loaded = 0 /\ page.all = 0 /\ DOMAIN page.rows = {}
    BY <1>1 DEF PoolInit, Busy, Left
  <2>2. IsFiniteSet(Left) /\ Cardinality(jobs) = 0
    BY <1>1, <2>1, FS_EmptySet DEF PoolInit
  <2>3. PoolTypeOK
    BY <1>1, PoolInitType
  <2>4. JobsFit
    BY <1>1, <2>1, <2>2 DEF PoolInit, JobsFit
  <2>5. PhasesFit /\ ProjectsFit
    BY <1>1, <2>1 DEF PoolInit, PhasesFit, ProjectsFit
  <2>6. PageFits /\ CountsFit
    BY <1>1, <2>1, <2>2 DEF PoolInit, PageFits, CountsFit
  <2>7. QED
    BY <2>3, <2>4, <2>5, <2>6 DEF IInv
<1>2. IInv /\ [PoolNext]_pool => IInv'
  BY InvStep
<1>3. QED
  BY <1>1, <1>2, PTL DEF PoolSpec

(* While the workers list objects, the page shows how many buckets are not  *)
(* done, and the row of a project is full when none of its own is left      *)
(* (src/cmd/gui/projects.go, trackProjectProgress).                         *)
THEOREM Progress == ASSUME "update" \notin Events PROVE PoolSpec => []PoolInv
<1>1. ASSUME IInv PROVE PoolInv
  <2>1. SUFFICES ASSUME pc # "repositories", pending = "no"
                 PROVE  /\ page.all - page.loaded = Cardinality(Left)
                        /\ \A p \in DOMAIN prog : prog[p].max # 0 =>
                            (page.rows[p] = 100 <=> JobsOf(p, Left) = {})
    BY <1>1 DEF IInv, PoolInv, ProgressIsTrue
  <2>2. page.all - page.loaded = Cardinality(Left)
    BY <1>1, <2>1 DEF IInv, PageFits
  <2>3. ASSUME NEW p \in DOMAIN prog, prog[p].max # 0
        PROVE  page.rows[p] = 100 <=> JobsOf(p, Left) = {}
    <3>1. /\ Cardinality(JobsOf(p, Left)) \in Nat
          /\ Cardinality(JobsOf(p, Left)) = 0 <=> JobsOf(p, Left) = {}
      BY <1>1, JobsOfFinite DEF IInv, JobsFit
    <3>2. prog[p].current \in Nat /\ prog[p].max \in Nat
      BY <1>1 DEF IInv, PoolTypeOK
    <3>3. /\ prog[p].max = prog[p].current + Cardinality(JobsOf(p, Left))
          /\ page.rows[p] = 100 <=> prog[p].current = prog[p].max
      BY <1>1, <2>1, <2>3 DEF IInv, CountsFit
    <3>4. QED
      BY <3>1, <3>2, <3>3
  <2>4. QED
    BY <2>2, <2>3
<1>2. QED
  BY <1>1, Inductive, PTL

=============================================================================
