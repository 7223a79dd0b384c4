------------------------------- MODULE Matrix -------------------------------
(***************************************************************************)
(* The matrix of the benchmark: bench/run-matrix.sh measures the cells of  *)
(* a plan one by one with bench/run-cell.sh, cmd/checker judges each, and  *)
(* cmd/matrix turns the directories into one artefact or refuses.          *)
(*                                                                         *)
(* It takes hours, on the machine somebody works on: it is interrupted,    *)
(* resumed, stopped by a red cell, and the tree moves under it.  What each *)
(* file says is data; which measurement it is from is what matters, and    *)
(* the loads are numbered for that.                                        *)
(*                                                                         *)
(* The last cell of the plan repeats the first: the control.  What k6      *)
(* counted and what the checker found are nondeterministic here: Bidder    *)
(* and the engines are about those.                                        *)
(***************************************************************************)
EXTENDS Integers

CONSTANTS
    Last,       \* the plan is 1..Last
    Pools,      \* values of DB_POOL_SIZE in the shell
    Rates,      \* accepted bids per second
    MaxLoads,   \* bound on the measured loads
    MaxMoves,   \* bound on the changes of tree and shell
    NoFile

ASSUME PlanHasAControl == Last \in Nat \ {0, 1}
ASSUME RatesArePositive == Rates \subseteq Nat \ {0}
ASSUME MaxLoadsIsNatural == MaxLoads \in Nat
ASSUME MaxMovesIsNatural == MaxMoves \in Nat

VARIABLES
    dir,        \* per cell, its client.json, env.json and checker.json
    root,       \* the directory of the matrix exists
    tree,       \* the working tree: its HEAD, and whether it is dirty
    pool,       \* DB_POOL_SIZE
    image,      \* the tree that auctiond was built from
    moved,      \* the tree changed since
    pc,         \* where run-matrix.sh is
    todo,       \* the selected cells it has not come to
    resume,     \* RESUME
    loads,      \* the measured loads so far
    cut,        \* the budget interrupted this load
    published,  \* the matrix.json of the directory
    moves

shell == <<tree, pool, moved, moves>>
script == <<pc, todo, resume>>
vars == <<dir, root, shell, image, script, loads, cut, published>>

Plan == 1..Last
Empty == [client |-> NoFile, env |-> NoFile, checker |-> NoFile]

Tree == [head: Nat, dirty: BOOLEAN]
Client == [load: Nat, rate: Rates]
Env == [load: Nat, git: Tree, pool: Pools, interrupted: BOOLEAN,
        built: Tree, moved: BOOLEAN]
Report == [load: Nat, client: Nat, exit: {0, 1}]

ASSUME NoFileIsNoData == NoFile \notin Client \cup Env \cup Report \cup Rates

TypeOK ==
    /\ dir \in [Plan -> [client: Client \cup {NoFile}, env: Env \cup {NoFile},
                         checker: Report \cup {NoFile}]]
    /\ \A c \in Plan :
          /\ dir[c].checker # NoFile => NoFile \notin {dir[c].client, dir[c].env}
          /\ dir[c] # Empty => root
    /\ root \in BOOLEAN /\ moved \in BOOLEAN /\ resume \in BOOLEAN /\ cut \in BOOLEAN
    /\ tree \in Tree /\ image \in Tree
    /\ pool \in Pools
    /\ pc \in {"idle", "loop", "built", "loaded", "recorded"}
    /\ todo \subseteq Plan /\ (pc \in {"built", "loaded", "recorded"} => todo # {})
    /\ loads \in Nat /\ moves \in Nat

Init ==
    /\ dir = [c \in Plan |-> Empty]
    /\ root = FALSE
    /\ tree \in [head: {0}, dirty: BOOLEAN] /\ image = tree /\ moved = FALSE
    /\ pool \in Pools
    /\ pc = "idle" /\ todo = {} /\ resume = FALSE
    /\ loads = 0 /\ cut = FALSE
    /\ published = NoFile
    /\ moves = 0

----------------------------------------------------------------------------
(* run-matrix.sh.                                                          *)

IsNext(c) == c \in todo /\ \A d \in todo : c <= d

(* Mutant: the directory of an earlier matrix is not in the way. *)
PreflightOverOld(again) == ~tree.dirty

(* preflight, where it looks at the tree and at the cells. *)
Preflight(again) ==
    /\ ~tree.dirty
    /\ root => again /\ \A c \in Plan : dir[c].env # NoFile => dir[c].env.git.head = tree.head

(* only: --only selects some of the cells. *)
Start(again, only) ==
    /\ pc = "idle" /\ only # {}
    /\ Preflight(again)
    /\ pc' = "loop" /\ todo' = only /\ resume' = again
    /\ UNCHANGED <<dir, root, shell, image, loads, cut, published>>

(* cell_green. *)
Green(cell) == cell.checker # NoFile /\ cell.checker.exit = 0

Skip(c) ==
    /\ pc = "loop" /\ IsNext(c)
    /\ resume /\ Green(dir[c])
    /\ todo' = todo \ {c}
    /\ UNCHANGED <<dir, root, shell, image, pc, resume, loads, cut, published>>

(* Mutant: the files of the last attempt are left there. *)
NoPurge(c) == UNCHANGED dir

(* purge_cell. *)
Purge(c) == dir' = [dir EXCEPT ![c] = Empty]

(* docker compose up -d --build auctiond, and the head of run-cell.sh.     *)
Build(c) ==
    /\ pc = "loop" /\ IsNext(c)
    /\ ~(resume /\ Green(dir[c]))
    /\ Purge(c)
    /\ image' = tree /\ moved' = FALSE
    /\ root' = TRUE
    /\ pc' = "built"
    /\ UNCHANGED <<tree, pool, moves, todo, resume, loads, cut, published>>

(* Mutant: no accepted bid is a rate of zero. *)
SummariesOfNothing == {NoFile} \cup [load: {loads + 1}, rate: Rates \cup {0}]

(* handleSummary, at the very end of k6 if it comes to that; without one   *)
(* accepted bid it throws, and there is no client.json.                    *)
Summaries == {NoFile} \cup [load: {loads + 1}, rate: Rates]

(* k6_run over the second reset.  Only the budget excuses an exit code.    *)
Load(c) ==
    /\ pc = "built" /\ IsNext(c) /\ loads < MaxLoads
    /\ loads' = loads + 1
    /\ \E s \in Summaries :
          dir' = IF s = NoFile THEN dir ELSE [dir EXCEPT ![c].client = s]
    /\ cut' \in BOOLEAN
    /\ \E ok \in BOOLEAN : pc' = IF ok \/ cut' THEN "loaded" ELSE "idle"
    /\ UNCHANGED <<root, shell, image, todo, resume, published>>

(* env.sh: the tree is looked at when the load is over. *)
Record(c) ==
    /\ pc = "loaded" /\ IsNext(c)
    /\ dir' = [dir EXCEPT ![c].env =
                  [load |-> loads, git |-> tree, pool |-> pool, interrupted |-> cut,
                   built |-> image, moved |-> moved]]
    /\ pc' = "recorded"
    /\ UNCHANGED <<root, shell, image, todo, resume, loads, cut, published>>

(* cmd/checker: no verdict, and no file, without client.json or Postgres;  *)
(* the code stands when checker.json cannot be written.                    *)
Check(c) ==
    /\ pc = "recorded" /\ IsNext(c)
    /\ \/ pc' = "idle" /\ UNCHANGED <<dir, todo>>
       \/ /\ dir[c].client # NoFile
          /\ \E code \in {0, 1}, written \in BOOLEAN :
                /\ dir' = IF written
                          THEN [dir EXCEPT ![c].checker =
                                   [load |-> loads, client |-> dir[c].client.load, exit |-> code]]
                          ELSE dir
                /\ IF code = 0 THEN pc' = "loop" /\ todo' = todo \ {c}
                   ELSE pc' = "idle" /\ UNCHANGED todo
    /\ UNCHANGED <<root, shell, image, resume, loads, cut, published>>

(* SIGINT, a step that fails under set -e, or the machine goes down. *)
Abort ==
    /\ pc # "idle"
    /\ pc' = "idle"
    /\ UNCHANGED <<dir, root, shell, image, todo, resume, loads, cut, published>>

----------------------------------------------------------------------------
(* cmd/matrix, at the end of the loop or by hand.                          *)

(* R2.  R1 is the same of a cell without a directory. *)
Unverified(c) == NoFile \in {dir[c].client, dir[c].env, dir[c].checker}

(* R4 and R6: one clean commit, one pool. *)
Incoherent(c) ==
    \/ dir[c].env.git.dirty
    \/ dir[c].env.git.head # dir[1].env.git.head
    \/ dir[c].env.pool # dir[1].env.pool

(* controlRefuse, in percent. *)
ControlRefuse == 25

(* R9: the control was cut short, or is too far from the first cell. *)
Drifted ==
    LET a == dir[1].client.rate
        b == dir[Last].client.rate IN
    \/ dir[1].env.interrupted \/ dir[Last].env.interrupted
    \/ 100 * (IF a < b THEN b - a ELSE a - b) > ControlRefuse * a

Refused ==
    \/ \E c \in Plan : Unverified(c)
    \/ \E c \in Plan : Incoherent(c)
    \/ Drifted

(* rows and stamp: the control is no row, and a cell that was interrupted  *)
(* has no rate.  An artefact with a violated invariant is written, and     *)
(* says so.  cells is the directory it was made of.                        *)
Artefact ==
    [publishable |-> \A c \in Plan : dir[c].checker.exit = 0,
     git |-> dir[1].env.git, pool |-> dir[1].env.pool,
     rates |-> [c \in Plan \ {Last} |-> IF dir[c].env.interrupted THEN NoFile ELSE dir[c].client.rate],
     cells |-> dir]

Aggregate ==
    /\ pc = "idle" \/ (pc = "loop" /\ todo = {})
    /\ pc' = "idle"
    /\ published' = IF Refused THEN published ELSE Artefact
    /\ UNCHANGED <<dir, root, shell, image, todo, resume, loads, cut>>

----------------------------------------------------------------------------
(* Whoever works on the machine.                                           *)

(* Edit, stash or commit, under the script too.  DB_POOL_SIZE is of the    *)
(* shell that starts the script.                                           *)
MoveTree(t) ==
    /\ moves < MaxMoves /\ t # tree
    /\ t.head \in {tree.head, tree.head + 1} /\ t.head <= MaxMoves
    /\ tree' = t /\ moved' = TRUE /\ moves' = moves + 1
    /\ UNCHANGED <<dir, root, pool, image, script, loads, cut, published>>

SetPool(p) ==
    /\ pc = "idle" /\ moves < MaxMoves /\ p # pool
    /\ pool' = p /\ moves' = moves + 1
    /\ UNCHANGED <<dir, root, tree, moved, image, script, loads, cut, published>>

Next ==
    \/ \E again \in BOOLEAN, only \in SUBSET Plan : Start(again, only)
    \/ \E c \in Plan : Skip(c) \/ Build(c) \/ Load(c) \/ Record(c) \/ Check(c)
    \/ Abort \/ Aggregate
    \/ \E t \in [head: 0..MaxMoves, dirty: BOOLEAN] : MoveTree(t)
    \/ \E p \in Pools : SetPool(p)

Spec == Init /\ [][Next]_vars

----------------------------------------------------------------------------
(* Properties.                                                             *)

(* A publishable matrix is one experiment, over every interruption and     *)
(* resumption: the three files of a cell are of one load and the checker   *)
(* verified that load, all cells say the same clean commit and the same    *)
(* pool, each was built from that commit unless the tree moved under it,   *)
(* and the control is whole (run-matrix.sh:129, main.go:406, :445,         *)
(* report.go:218).                                                         *)
PublishedIsOneExperiment ==
    published # NoFile /\ published.publishable =>
        LET cells == published.cells IN
        /\ \A c \in Plan :
              /\ cells[c].env.load = cells[c].client.load
              /\ cells[c].checker.load = cells[c].client.load
              /\ cells[c].checker.client = cells[c].client.load
              /\ cells[c].env.git = published.git /\ ~published.git.dirty
              /\ cells[c].env.pool = published.pool
              /\ cells[c].env.built = published.git \/ cells[c].env.moved
        /\ published.rates[1] # NoFile /\ ~cells[Last].env.interrupted

(* Hours of measurement are never thrown away: what a green cell recorded  *)
(* stays as it is, whatever is run, with or without RESUME                 *)
(* (run-matrix.sh:175, :252).                                              *)
GreenIsKept ==
    [][\A c \in Plan : Green(dir[c]) => dir'[c] = dir[c]]_vars

----------------------------------------------------------------------------
(* What the repository says and the code does not do.                      *)

(* "Two cells built from different commits are not one matrix" (R4): each  *)
(* cell of a publishable matrix was built from the commit it is published  *)
(* under.  env.sh reads the tree when the load is over, auctiond was built *)
(* before it.                                                              *)
BuiltFromItsCommit ==
    published # NoFile /\ published.publishable =>
        \A c \in Plan : published.cells[c].env.built = published.git
=============================================================================
