---------------------------- MODULE MatrixProofs ----------------------------
(***************************************************************************)
(* The matrix, for a plan of any length, any rates and any bounds: an      *)
(* artefact is one experiment, and a green cell is never lost.             *)
(*                                                                         *)
(* Both follow from what the files of a cell say of one another after any  *)
(* interruption (Wrapped, Underway), from what the script knows of the     *)
(* tree it built (BuiltIsTree), and from why a run without RESUME purges   *)
(* nothing that is green (NothingGreenAhead).                              *)
(***************************************************************************)
EXTENDS Matrix, TLAPS

(* The files a cell has are of one load, and a report is never alone. *)
Wrapped(cell) ==
    /\ cell.env # NoFile =>
          /\ cell.client # NoFile => cell.client.load = cell.env.load
          /\ cell.env.built = cell.env.git \/ cell.env.moved
    /\ cell.checker # NoFile =>
          /\ cell.checker.load = cell.env.load
          /\ cell.checker.client = cell.client.load

(* The cell run-cell.sh is about has no file but those of this load. *)
Underway(c) ==
    /\ pc = "built" => dir[c] = Empty
    /\ pc \in {"loaded", "recorded"} =>
          /\ dir[c].checker = NoFile
          /\ dir[c].client # NoFile => dir[c].client.load = loads
    /\ pc = "loaded" => dir[c].env = NoFile
    /\ pc = "recorded" => dir[c].env # NoFile /\ dir[c].env.load = loads

RootIsThere == pc \in {"built", "loaded", "recorded"} => root

BuiltIsTree == image = tree \/ moved

(* Without RESUME the script started on an empty directory, and what it    *)
(* measured green is no longer ahead.                                      *)
NothingGreenAhead == pc # "idle" /\ ~resume => \A c \in todo : ~Green(dir[c])

Files == \A c \in Plan : Wrapped(dir[c]) /\ (IsNext(c) => Underway(c))

IInv ==
    /\ TypeOK
    /\ RootIsThere
    /\ Files
    /\ BuiltIsTree
    /\ NothingGreenAhead
    /\ PublishedIsOneExperiment

----------------------------------------------------------------------------
(* The script is about one cell at a time. *)
LEMMA OneIsNext ==
    ASSUME NEW c \in Plan, NEW d \in Plan, IsNext(c), IsNext(d)
    PROVE  c = d
  BY PlanHasAControl DEF IsNext, Plan

(* A directory without files is of no measurement, and not green. *)
LEMMA NothingInEmpty ==
    /\ Wrapped(Empty)
    /\ ~Green(Empty)
    /\ Empty \in [client: Client \cup {NoFile}, env: Env \cup {NoFile},
                  checker: Report \cup {NoFile}]
  BY DEF Wrapped, Green, Empty

(* The script starts: the cells it selected are empty or RESUME is set. *)
LEMMA StartKeeps ==
    ASSUME IInv, NEW again \in BOOLEAN, NEW only \in SUBSET Plan, Start(again, only)
    PROVE  IInv'
  <1> USE DEF IInv, Start, shell, script
  <1>1. TypeOK'
    BY DEF TypeOK, Empty
  <1>2. RootIsThere'
    BY DEF RootIsThere
  <1>3. Files'
    BY DEF Files, Wrapped, Underway, IsNext
  <1>4. BuiltIsTree'
    BY DEF BuiltIsTree
  <1>5. NothingGreenAhead'
    <2>1. CASE again
      BY <2>1 DEF NothingGreenAhead
    <2>2. CASE ~again
      BY <2>2, NothingInEmpty DEF NothingGreenAhead, Preflight, TypeOK, Green
    <2> QED BY <2>1, <2>2
  <1>6. PublishedIsOneExperiment'
    BY DEF PublishedIsOneExperiment
  <1> QED BY <1>1, <1>2, <1>3, <1>4, <1>5, <1>6

(* A green cell is passed over under RESUME. *)
LEMMA SkipKeeps ==
    ASSUME IInv, NEW c \in Plan, Skip(c)
    PROVE  IInv'
  <1> USE DEF IInv, Skip, shell
  <1>1. TypeOK'
    BY DEF TypeOK, Empty
  <1>2. RootIsThere'
    BY DEF RootIsThere
  <1>3. Files'
    BY DEF Files, Wrapped, Underway, TypeOK
  <1>4. BuiltIsTree'
    BY DEF BuiltIsTree
  <1>5. NothingGreenAhead'
    BY DEF NothingGreenAhead
  <1>6. PublishedIsOneExperiment'
    BY DEF PublishedIsOneExperiment
  <1> QED BY <1>1, <1>2, <1>3, <1>4, <1>5, <1>6

(* The cell is emptied, and auctiond built from the tree as it is. *)
LEMMA BuildKeeps ==
    ASSUME IInv, NEW c \in Plan, Build(c)
    PROVE  IInv'
  <1> USE DEF IInv, Build, Purge
  <1>1. TypeOK'
    BY NothingInEmpty DEF TypeOK, IsNext, Empty
  <1>2. RootIsThere'
    BY DEF RootIsThere
  <1>3. Files'
    <2>1. ASSUME NEW d \in Plan
          PROVE  Wrapped(dir'[d])
      BY <2>1, NothingInEmpty DEF Files, TypeOK
    <2>2. ASSUME NEW d \in Plan, IsNext(d)'
          PROVE  Underway(d)'
      <3>1. IsNext(c)'
        BY DEF IsNext
      <3>2. d = c
        BY <2>2, <3>1, PlanHasAControl DEF IsNext, Plan
      <3> QED BY <3>2 DEF Underway, TypeOK
    <2> QED BY <2>1, <2>2 DEF Files, Wrapped
  <1>4. BuiltIsTree'
    BY DEF BuiltIsTree
  <1>5. NothingGreenAhead'
    BY NothingInEmpty DEF NothingGreenAhead, TypeOK
  <1>6. PublishedIsOneExperiment'
    BY DEF PublishedIsOneExperiment
  <1> QED BY <1>1, <1>2, <1>3, <1>4, <1>5, <1>6

(* The load is numbered, and so is the summary it leaves, if any. *)
LEMMA LoadKeeps ==
    ASSUME IInv, NEW c \in Plan, Load(c)
    PROVE  IInv'
  <1> USE DEF IInv, Load, shell
  <1>1. PICK s \in Summaries :
           dir' = IF s = NoFile THEN dir ELSE [dir EXCEPT ![c].client = s]
    OBVIOUS
  <1>2. dir[c] = Empty /\ root
    BY DEF Files, Underway, RootIsThere
  <1>3. pc' \in {"loaded", "idle"}
    OBVIOUS
  <1>4. s # NoFile => s \in Client /\ s.load = loads'
    BY RatesArePositive DEF Summaries, Client, TypeOK
  <1>5. TypeOK'
    <2>1. dir' \in [Plan -> [client: Client \cup {NoFile}, env: Env \cup {NoFile},
                             checker: Report \cup {NoFile}]]
      BY <1>1, <1>4 DEF TypeOK
    <2>2. \A d \in Plan : dir'[d].checker = dir[d].checker /\ dir'[d].env = dir[d].env
      BY <1>1 DEF TypeOK
    <2>3. \A d \in Plan : dir'[d].checker # NoFile => NoFile \notin {dir'[d].client, dir'[d].env}
      BY <1>1, <1>2, <2>2 DEF TypeOK, Empty
    <2> QED BY <1>2, <1>3, <2>1, <2>3 DEF TypeOK, IsNext
  <1>6. RootIsThere'
    BY <1>2 DEF RootIsThere
  <1>7. Files'
    <2>1. ASSUME NEW d \in Plan
          PROVE  Wrapped(dir'[d])
      BY <1>1, <1>2, <2>1 DEF Files, TypeOK, Wrapped, Empty
    <2>2. ASSUME NEW d \in Plan, IsNext(d)'
          PROVE  Underway(d)'
      <3>1. IsNext(d)
        BY <2>2 DEF IsNext
      <3>2. d = c
        BY <3>1, OneIsNext
      <3>3. dir'[c].checker = NoFile /\ dir'[c].env = NoFile
            /\ (dir'[c].client # NoFile => dir'[c].client.load = loads')
        BY <1>1, <1>2, <1>4 DEF TypeOK, Empty
      <3> QED BY <1>3, <3>2, <3>3 DEF Underway
    <2> QED BY <2>1, <2>2 DEF Files, Wrapped
  <1>8. BuiltIsTree'
    BY DEF BuiltIsTree
  <1>9. NothingGreenAhead'
    BY <1>1 DEF NothingGreenAhead, TypeOK, Green
  <1>10. PublishedIsOneExperiment'
    BY DEF PublishedIsOneExperiment
  <1> QED BY <1>5, <1>6, <1>7, <1>8, <1>9, <1>10

(* env.sh: what it wrote down is of this load, and says whether the tree   *)
(* that was built is the one it saw.                                       *)
LEMMA RecordKeeps ==
    ASSUME IInv, NEW c \in Plan, Record(c)
    PROVE  IInv'
  <1> DEFINE env == [load |-> loads, git |-> tree, pool |-> pool, interrupted |-> cut,
                     built |-> image, moved |-> moved]
  <1> USE DEF IInv, Record, shell
  <1>1. env \in Env /\ env # NoFile
    BY NoFileIsNoData DEF TypeOK, Env
  <1>2. /\ root
        /\ dir[c].checker = NoFile /\ dir[c].env = NoFile
        /\ dir[c].client # NoFile => dir[c].client.load = loads
    BY DEF Files, Underway, RootIsThere
  <1>3. dir' = [dir EXCEPT ![c].env = env]
    OBVIOUS
  <1>4. TypeOK'
    <2>1. dir' \in [Plan -> [client: Client \cup {NoFile}, env: Env \cup {NoFile},
                             checker: Report \cup {NoFile}]]
      BY <1>1, <1>3 DEF TypeOK
    <2>2. \A d \in Plan : dir'[d].checker # NoFile => NoFile \notin {dir'[d].client, dir'[d].env}
      BY <1>2, <1>3 DEF TypeOK
    <2> QED BY <1>2, <2>1, <2>2 DEF TypeOK
  <1>5. RootIsThere'
    BY <1>2 DEF RootIsThere
  <1>6. Files'
    <2>1. ASSUME NEW d \in Plan
          PROVE  Wrapped(dir'[d])
      <3>1. CASE d = c
        <4>1. dir'[c].env = env /\ dir'[c].client = dir[c].client /\ dir'[c].checker = NoFile
          BY <1>2, <1>3 DEF TypeOK
        <4>2. env.load = loads /\ (env.built = env.git \/ env.moved)
          BY DEF BuiltIsTree
        <4> HIDE DEF env
        <4> QED BY <1>2, <3>1, <4>1, <4>2 DEF Wrapped
      <3>2. CASE d # c
        <4>1. dir'[d] = dir[d]
          BY <1>3, <3>2 DEF TypeOK
        <4> QED BY <4>1 DEF Files
      <3> QED BY <3>1, <3>2
    <2>2. ASSUME NEW d \in Plan, IsNext(d)'
          PROVE  Underway(d)'
      <3>1. IsNext(d)
        BY <2>2 DEF IsNext
      <3>2. d = c
        BY <3>1, OneIsNext
      <3>3. /\ dir'[c].checker = NoFile /\ dir'[c].client = dir[c].client
            /\ dir'[c].env = env /\ env.load = loads
        BY <1>2, <1>3 DEF TypeOK
      <3> QED BY <1>1, <1>2, <3>2, <3>3 DEF Underway
    <2> QED BY <2>1, <2>2 DEF Files, Wrapped
  <1>7. BuiltIsTree'
    BY DEF BuiltIsTree
  <1>8. NothingGreenAhead'
    BY <1>3 DEF NothingGreenAhead, TypeOK, Green
  <1>9. PublishedIsOneExperiment'
    BY DEF PublishedIsOneExperiment
  <1> QED BY <1>4, <1>5, <1>6, <1>7, <1>8, <1>9

(* The checker: its report stands beside the files it is about, and a cell *)
(* it finds green is behind the script.                                    *)
LEMMA CheckKeeps ==
    ASSUME IInv, NEW c \in Plan, Check(c)
    PROVE  IInv'
  <1> USE DEF IInv, Check, shell
  <1>1. UNCHANGED <<root, tree, pool, moved, moves, image, resume, loads, cut, published>>
        /\ IsNext(c) /\ c \in todo /\ todo' \subseteq todo /\ pc' \in {"idle", "loop"}
    BY DEF IsNext
  <1>2. /\ root
        /\ dir[c].checker = NoFile
        /\ dir[c].env # NoFile /\ dir[c].env.load = loads
        /\ dir[c].client # NoFile => dir[c].client.load = loads
    BY DEF Files, Underway, RootIsThere
  <1>3. RootIsThere' /\ BuiltIsTree' /\ PublishedIsOneExperiment'
    <2>1. RootIsThere'
      BY <1>1 DEF RootIsThere
    <2>2. BuiltIsTree'
      BY <1>1 DEF BuiltIsTree
    <2>3. published' = published /\ PublishedIsOneExperiment
      BY <1>1
    <2>4. PublishedIsOneExperiment'
      <3> HIDE DEF IInv, Check, shell
      <3> QED BY <2>3 DEF PublishedIsOneExperiment
    <2> QED BY <2>1, <2>2, <2>4
  <1>4. CASE dir' = dir
    <2>1. TypeOK'
      BY <1>1, <1>4 DEF TypeOK
    <2>3. Files'
      BY <1>1, <1>4 DEF Files, Wrapped, Underway
    <2>4. NothingGreenAhead'
      BY <1>1, <1>4 DEF NothingGreenAhead
    <2> QED BY <1>3, <2>1, <2>3, <2>4
  <1>5. ASSUME NEW code \in {0, 1}, dir[c].client # NoFile,
               dir' = [dir EXCEPT ![c].checker =
                          [load |-> loads, client |-> dir[c].client.load, exit |-> code]],
               \/ code = 0 /\ pc' = "loop" /\ todo' = todo \ {c}
               \/ code = 1 /\ pc' = "idle" /\ todo' = todo
        PROVE  IInv'
    <2> DEFINE report == [load |-> loads, client |-> dir[c].client.load, exit |-> code]
    <2>1. report \in Report /\ dir[c].client \in Client
      BY <1>5 DEF TypeOK, Report, Client
    <2>2. /\ dir'[c].client = dir[c].client /\ dir'[c].env = dir[c].env
          /\ dir'[c].checker = report
      BY <1>5 DEF TypeOK
    <2>3. \A d \in Plan \ {c} : dir'[d] = dir[d]
      BY <1>5 DEF TypeOK
    <2>4. TypeOK'
      <3>1. dir' \in [Plan -> [client: Client \cup {NoFile}, env: Env \cup {NoFile},
                               checker: Report \cup {NoFile}]]
        BY <1>5, <2>1 DEF TypeOK
      <3>2. \A d \in Plan : dir'[d].checker # NoFile => NoFile \notin {dir'[d].client, dir'[d].env}
        BY <1>2, <1>5, <2>2, <2>3 DEF TypeOK
      <3> QED BY <1>1, <1>2, <3>1, <3>2 DEF TypeOK
    <2>6. Wrapped(dir'[c])
      <3>1. report.load = loads /\ report.client = dir[c].client.load
        OBVIOUS
      <3>2. Wrapped(dir[c])
        BY DEF Files
      <3> HIDE DEF report
      <3> QED BY <1>2, <2>2, <3>1, <3>2 DEF Wrapped
    <2>7. Files'
      BY <1>1, <2>3, <2>6 DEF Files, Wrapped, Underway
    <2>8. NothingGreenAhead'
      BY <1>1, <1>5, <2>3 DEF NothingGreenAhead, TypeOK
    <2> QED BY <1>3, <2>4, <2>7, <2>8
  <1>6. ASSUME dir' # dir
        PROVE  IInv'
    <2>1. PICK code \in {0, 1} :
             /\ dir[c].client # NoFile
             /\ dir' = [dir EXCEPT ![c].checker =
                           [load |-> loads, client |-> dir[c].client.load, exit |-> code]]
             /\ \/ code = 0 /\ pc' = "loop" /\ todo' = todo \ {c}
                \/ code = 1 /\ pc' = "idle" /\ todo' = todo
      BY <1>6
    <2> QED BY <1>5, <2>1
  <1> QED BY <1>4, <1>6

(* The aggregator: what it does not refuse is one experiment. *)
LEMMA AggregateKeeps ==
    ASSUME IInv, Aggregate
    PROVE  IInv'
  <1> USE DEF IInv, Aggregate, shell
  <1>1. TypeOK'
    BY DEF TypeOK
  <1>2. RootIsThere' /\ BuiltIsTree' /\ NothingGreenAhead'
    BY DEF RootIsThere, BuiltIsTree, NothingGreenAhead
  <1>3. Files'
    BY DEF Files, Wrapped, Underway
  <1>4. PublishedIsOneExperiment'
    <2>1. CASE Refused
      BY <2>1 DEF PublishedIsOneExperiment
    <2>2. CASE ~Refused
      <3>1. published' = Artefact
        BY <2>2
      <3>2. /\ published'.cells = dir /\ published'.git = dir[1].env.git
            /\ published'.pool = dir[1].env.pool
            /\ published'.rates = [c \in Plan \ {Last} |->
                  IF dir[c].env.interrupted THEN NoFile ELSE dir[c].client.rate]
        BY <3>1 DEF Artefact
      <3>3. 1 \in Plan \ {Last} /\ Last \in Plan
        BY PlanHasAControl DEF Plan
      <3>4. ~dir[1].env.interrupted /\ ~dir[Last].env.interrupted
        BY <2>2 DEF Refused, Drifted
      <3>5. published'.rates[1] # NoFile
        <4>1. dir[1].client \in Client
          BY <2>2, <3>3 DEF Refused, Unverified, TypeOK
        <4>2. dir[1].client.rate # NoFile
          BY <4>1, NoFileIsNoData DEF Client
        <4>3. published'.rates[1] = dir[1].client.rate
          BY <3>2, <3>3, <3>4
        <4> QED BY <4>2, <4>3
      <3>6. ASSUME NEW c \in Plan
            PROVE  /\ dir[c].env.load = dir[c].client.load
                   /\ dir[c].checker.load = dir[c].client.load
                   /\ dir[c].checker.client = dir[c].client.load
                   /\ dir[c].env.built = dir[c].env.git \/ dir[c].env.moved
        <4>1. NoFile \notin {dir[c].client, dir[c].env, dir[c].checker}
          BY <2>2 DEF Refused, Unverified
        <4> QED BY <4>1 DEF Files, Wrapped
      <3>7. ASSUME NEW c \in Plan
            PROVE  /\ dir[c].env.git = dir[1].env.git /\ ~dir[1].env.git.dirty
                   /\ dir[c].env.pool = dir[1].env.pool
        <4>1. NoFile \notin {dir[c].env, dir[1].env}
          BY <2>2, <3>3 DEF Refused, Unverified
        <4>2. dir[c].env \in Env /\ dir[1].env \in Env
          BY <3>3, <4>1 DEF TypeOK
        <4>3. dir[c].env.git \in Tree /\ dir[1].env.git \in Tree
          BY <4>2 DEF Env
        <4>4. /\ ~dir[c].env.git.dirty /\ ~dir[1].env.git.dirty
              /\ dir[c].env.git.head = dir[1].env.git.head
              /\ dir[c].env.pool = dir[1].env.pool
          BY <2>2, <3>3 DEF Refused, Incoherent
        <4> QED BY <4>3, <4>4 DEF Tree
      <3> HIDE DEF IInv, Aggregate, shell
      <3> QED BY <3>2, <3>3, <3>4, <3>5, <3>6, <3>7 DEF PublishedIsOneExperiment
    <2> QED BY <2>1, <2>2
  <1> QED BY <1>1, <1>2, <1>3, <1>4

(* An interruption, and whoever works on the machine, touch no file. *)
LEMMA OthersKeep ==
    ASSUME IInv,
           \/ Abort
           \/ \E t \in [head: 0..MaxMoves, dirty: BOOLEAN] : MoveTree(t)
           \/ \E p \in Pools : SetPool(p)
           \/ UNCHANGED vars
    PROVE  IInv' /\ dir' = dir
  <1> USE DEF IInv, Abort, MoveTree, SetPool, vars, shell, script
  <1>1. UNCHANGED <<dir, root, todo, resume, loads, image, published>>
        /\ pc' \in {pc, "idle"}
    OBVIOUS
  <1>2. TypeOK'
    <2>1. tree' \in Tree /\ pool' \in Pools /\ moved' \in BOOLEAN /\ moves' \in Nat /\ cut' \in BOOLEAN
      <3>1. CASE \E t \in [head: 0..MaxMoves, dirty: BOOLEAN] : MoveTree(t)
        BY <3>1, MaxMovesIsNatural DEF TypeOK, Tree
      <3>2. CASE \E p \in Pools : SetPool(p)
        BY <3>2 DEF TypeOK
      <3>3. CASE Abort \/ UNCHANGED vars
        BY <3>3 DEF TypeOK
      <3> QED BY <3>1, <3>2, <3>3
    <2> QED BY <1>1, <2>1 DEF TypeOK
  <1>3. RootIsThere' /\ BuiltIsTree' /\ NothingGreenAhead' /\ PublishedIsOneExperiment'
    BY DEF RootIsThere, BuiltIsTree, NothingGreenAhead, PublishedIsOneExperiment
  <1>4. Files'
    BY <1>1 DEF Files, Wrapped, Underway, IsNext
  <1> QED BY <1>1, <1>2, <1>3, <1>4

----------------------------------------------------------------------------
(* What the files of every cell say of one another is an invariant of the  *)
(* scripts: Init establishes it and every step keeps it.                   *)
THEOREM Inductive == Spec => []IInv
  <1>1. Init => IInv
    <2> SUFFICES ASSUME Init PROVE IInv
      OBVIOUS
    <2> USE DEF Init
    <2>1. TypeOK
      <3>1. dir \in [Plan -> [client: Client \cup {NoFile}, env: Env \cup {NoFile},
                              checker: Report \cup {NoFile}]]
        BY NothingInEmpty
      <3>2. \A c \in Plan : dir[c] = Empty /\ dir[c].checker = NoFile
        BY DEF Empty
      <3>3. tree \in Tree
        BY DEF Tree
      <3> QED BY <3>1, <3>2, <3>3 DEF TypeOK
    <2>2. Files
      BY NothingInEmpty DEF Files, IsNext
    <2>3. RootIsThere /\ BuiltIsTree /\ NothingGreenAhead /\ PublishedIsOneExperiment
      BY DEF RootIsThere, BuiltIsTree, NothingGreenAhead, PublishedIsOneExperiment
    <2> QED BY <2>1, <2>2, <2>3 DEF IInv
  <1>2. IInv /\ [Next]_vars => IInv'
    BY StartKeeps, SkipKeeps, BuildKeeps, LoadKeeps, RecordKeeps, CheckKeeps,
       AggregateKeeps, OthersKeep DEF Next
  <1> QED BY <1>1, <1>2, PTL DEF Spec

(* The type invariant of the matrix, which says too that a report never    *)
(* stands alone and that no file outlives its directory (the order of      *)
(* writes of run-cell.sh and run-matrix.sh).                               *)
THEOREM TypeCorrect == Spec => []TypeOK
  <1>1. IInv => TypeOK
    BY DEF IInv
  <1> QED BY <1>1, Inductive, PTL

(* An artefact that is published is one experiment, whatever interrupted   *)
(* and resumed the runs behind it and however the tree moved meanwhile.    *)
THEOREM AlwaysOneExperiment == Spec => []PublishedIsOneExperiment
  <1>1. IInv => PublishedIsOneExperiment
    BY DEF IInv
  <1> QED BY <1>1, Inductive, PTL

(* No run, resumed or from the start, takes a green cell away. *)
THEOREM GreenStays == Spec => GreenIsKept
  <1> DEFINE Kept == \A c \in Plan : Green(dir[c]) => dir'[c] = dir[c]
  <1>1. ASSUME IInv, [Next]_vars
        PROVE  Kept
    <2>1. ASSUME NEW c \in Plan, Build(c)
          PROVE  Kept
      <3>1. ~Green(dir[c])
        BY <1>1, <2>1 DEF Build, IsNext, IInv, NothingGreenAhead
      <3>2. \A d \in Plan \ {c} : dir'[d] = dir[d]
        BY <1>1, <2>1 DEF Build, Purge, IInv, TypeOK
      <3> QED BY <3>1, <3>2
    <2>2. ASSUME NEW c \in Plan, Load(c) \/ Record(c) \/ Check(c)
          PROVE  Kept
      <3>1. ~Green(dir[c])
        BY <1>1, <2>2 DEF Load, Record, Check, IInv, Files, Underway, Green, Empty
      <3>2. \A d \in Plan \ {c} : dir'[d] = dir[d]
        BY <1>1, <2>2 DEF Load, Record, Check, IInv, TypeOK
      <3> QED BY <3>1, <3>2
    <2>3. ASSUME \/ \E again \in BOOLEAN, only \in SUBSET Plan : Start(again, only)
                 \/ \E c \in Plan : Skip(c)
                 \/ Aggregate
          PROVE  Kept
      BY <2>3 DEF Start, Skip, Aggregate
    <2> QED BY <1>1, <2>1, <2>2, <2>3, OthersKeep DEF Next
  <1>2. IInv /\ [Next]_vars => [Kept]_vars
    BY <1>1
  <1> QED BY <1>2, Inductive, PTL DEF Spec, GreenIsKept

----------------------------------------------------------------------------
(* A dead end: two green cells that no artefact can hold together, or one  *)
(* that was recorded dirty (the tree and the shell move under the script,  *)
(* and cell_green looks at neither).                                       *)
AtOdds(e, f) == e.git.dirty \/ e.git.head # f.git.head \/ e.pool # f.pool

DeadEnd ==
    \E c, d \in Plan :
        Green(dir[c]) /\ Green(dir[d]) /\ AtOdds(dir[c].env, dir[d].env)

(* The aggregator refuses a directory with a dead end (R4 and R6). *)
LEMMA DeadEndIsRefused == DeadEnd => Refused
  <1> SUFFICES ASSUME DeadEnd, \A c \in Plan : ~Incoherent(c) PROVE FALSE
    BY DEF Refused
  <1>1. PICK c \in Plan, d \in Plan : AtOdds(dir[c].env, dir[d].env)
    BY DEF DeadEnd
  <1>2. /\ ~dir[c].env.git.dirty
        /\ dir[c].env.git.head = dir[1].env.git.head /\ dir[c].env.pool = dir[1].env.pool
        /\ dir[d].env.git.head = dir[1].env.git.head /\ dir[d].env.pool = dir[1].env.pool
    BY DEF Incoherent
  <1> QED BY <1>1, <1>2 DEF AtOdds

(* What GreenIsKept costs: no command of the scripts leads out of a dead   *)
(* end, neither RESUME nor a run from the start, and nothing is published  *)
(* from then on (run-matrix.sh:175 skips the cell, :252 never purges it,   *)
(* main.go:445 refuses it).  Only removing a directory by hand does.       *)
THEOREM ADeadEndIsForGood ==
    Spec => /\ [](DeadEnd => []DeadEnd)
            /\ [][DeadEnd => published' = published]_vars
  <1> DEFINE Kept == \A c \in Plan : Green(dir[c]) => dir'[c] = dir[c]
  <1>1. [Kept]_vars => (DeadEnd => DeadEnd')
    <2> SUFFICES ASSUME [Kept]_vars, DeadEnd PROVE DeadEnd'
      OBVIOUS
    <2>1. PICK c \in Plan, d \in Plan :
             Green(dir[c]) /\ Green(dir[d]) /\ AtOdds(dir[c].env, dir[d].env)
      BY DEF DeadEnd
    <2>2. dir'[c] = dir[c] /\ dir'[d] = dir[d]
      BY <2>1 DEF vars
    <2> QED BY <2>1, <2>2 DEF DeadEnd, Plan
  <1>2. [Next]_vars => [DeadEnd => published' = published]_vars
    <2> SUFFICES ASSUME Next, DeadEnd PROVE published' = published
      OBVIOUS
    <2>1. CASE Aggregate
      BY <2>1, DeadEndIsRefused DEF Aggregate
    <2>2. CASE ~Aggregate
      BY <2>2 DEF Next, Start, Skip, Build, Load, Record, Check, Abort, MoveTree, SetPool
    <2> QED BY <2>1, <2>2
  <1>3. Spec => [][Kept]_vars
    BY GreenStays DEF GreenIsKept
  <1> QED BY <1>1, <1>2, <1>3, PTL DEF Spec
=============================================================================
