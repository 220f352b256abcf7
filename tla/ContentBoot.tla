---------------------------- MODULE ContentBoot -----------------------------
(***************************************************************************)
(* The boot of the container (scripts/docker-entrypoint.sh): level by      *)
(* level, one program after the other loads a directory of the release,    *)
(* replaces the rows of its level in one transaction, and uploads the      *)
(* clips; then the application serves.  The first program that fails ends  *)
(* the boot and the container restarts (set -e, restart: unless-stopped).  *)
(* The database and the bucket outlive releases and crashes.               *)
(***************************************************************************)
EXTENDS ContentFiles

CONSTANTS
    Releases,    \* names of the releases that may be deployed
    Tree,        \* the content directory of each release
    First,       \* the release of the first deploy
    LEVELS,      \* the levels the script names, in its order
    MaxDeploys,  \* bound: deploys after the first
    MaxCrashes   \* bound: times the container dies on its own

\* A clip is a file of its directory: it has a name of its own.  The files of a directory,
\* and the lessons of a unit, are listed.
ASSUME ContentBootAssumption ==
    /\ First \in Releases
    /\ MaxDeploys \in Nat /\ MaxCrashes \in Nat
    /\ LEVELS \in Seq(Files(LEVELS))
    /\ \A r \in Releases : Files(LEVELS) \cup {TEF_LEVEL} \subseteq DOMAIN Tree[r]
    /\ \A r \in Releases : \A lv \in Files(LEVELS) : \A c, d \in Tree[r][lv].clips :
           c.name = d.name => c = d
    /\ \A r \in Releases : \A lv \in Files(LEVELS) :
           /\ Tree[r][lv].lessons \in Seq(Files(Tree[r][lv].lessons))
           /\ \A u \in Files(Tree[r][lv].path.units) : u.lessons \in Seq(Files(u.lessons))

VARIABLES
    release,   \* the release the container runs
    db,        \* the rows of the seven authored tables
    bucket,    \* the clips in the object storage
    step,      \* the step of the boot, 0 once the application serves
    uploads,   \* the clips the current step has yet to upload
    deployed,  \* history: the releases deployed so far, in order
    crashes    \* history: the times the container died

bootVars == <<release, db, bucket, step, uploads, deployed, crashes>>

Kinds == <<"content", "comprehension", "writing", "topics", "exam">>

Steps == [i \in 1..(5 * Len(LEVELS)) |->
             <<LEVELS[1 + ((i - 1) \div 5)], Kinds[1 + ((i - 1) % 5)]>>]
         \o << <<TEF_LEVEL, "exam">> >>

Tables == {"units", "lessons", "vocab", "sets", "tasks", "topics", "exams"}

Written(kind) ==
    CASE kind = "content" -> {"units", "lessons", "vocab"}
      [] kind = "comprehension" -> {"sets"}
      [] kind = "writing" -> {"tasks"}
      [] kind = "topics" -> {"topics"}
      [] kind = "exam" -> {"exams"}

Loads(tree, lv, kind) ==
    CASE kind = "content" -> LoadsContent(tree, lv)
      [] kind = "comprehension" -> LoadsSets(tree[lv])
      [] kind = "writing" -> LoadsTasks(tree[lv])
      [] kind = "topics" -> LoadsTopics(tree[lv])
      [] kind = "exam" -> LoadsExams(tree, lv)

\* The objects of a directory that go into a table.  Units are not keyed by the loader.
Objects(d, table) == IF table = "units" THEN d.path.units ELSE d[table]

\* sync_bundle files its rows under the level path.yaml names, the others under the
\* level on the command line.
Label(tree, lv, table) ==
    IF table \in {"units", "lessons", "vocab"} THEN tree[lv].path.level ELSE lv

Rows(tree, lv, table) ==
    LET objects == Objects(tree[lv], table)
    IN {[id |-> objects[i].id, level |-> Label(tree, lv, table), data |-> <<i, objects[i]>>] :
            i \in DOMAIN objects}

\* delete(table).where(level == ...): the rows the insert finds in its way are those of
\* other levels.
Spared(table, label) == {row \in db[table] : row.level # label}

Clashes(tree, lv, table) ==
    \/ ~Keyed(Objects(tree[lv], table))
    \/ \E row \in Spared(table, Label(tree, lv, table)) : row.id \in Ids(Objects(tree[lv], table))

Replaced_Upsert(tree, lv, table) ==
    {row \in db[table] : row.id \notin Ids(Objects(tree[lv], table))} \cup Rows(tree, lv, table)

Replaced(tree, lv, table) == Spared(table, Label(tree, lv, table)) \cup Rows(tree, lv, table)

\* The clips of a directory go up with its lessons and again with its sets.
Clips(tree, lv, kind) ==
    IF kind \in {"content", "comprehension"}
    THEN {[level |-> lv, name |-> c.name, take |-> c.take] : c \in tree[lv].clips}
    ELSE {}

-----------------------------------------------------------------------------

BootInit ==
    /\ release = First
    /\ db = [t \in Tables |-> {}]
    /\ bucket = {}
    /\ step = 1
    /\ uploads = {}
    /\ deployed = <<First>>
    /\ crashes = 0

Booting == step # 0

Runs(i) ==
    /\ Loads(Tree[release], Steps[i][1], Steps[i][2])
    /\ \A t \in Written(Steps[i][2]) : ~Clashes(Tree[release], Steps[i][1], t)

After_Stays(i) == IF i = Len(Steps) THEN 1 ELSE i + 1

After(i) == IF i = Len(Steps) THEN 0 ELSE i + 1

\* A step that has loaded commits the rows of all its tables at once.
Sync ==
    /\ Booting /\ uploads = {}
    /\ Runs(step)
    /\ LET lv == Steps[step][1] kind == Steps[step][2] IN
           /\ db' = [t \in Tables |-> IF t \in Written(kind)
                                       THEN Replaced(Tree[release], lv, t) ELSE db[t]]
           /\ uploads' = Clips(Tree[release], lv, kind)
           /\ step' = IF uploads' = {} THEN After(step) ELSE step
    /\ UNCHANGED <<release, bucket, deployed, crashes>>

\* storage.put overwrites.
PutClip(clip) == {c \in bucket : <<c.level, c.name>> # <<clip.level, clip.name>>} \cup {clip}

Upload ==
    /\ Booting
    /\ \E clip \in uploads :
           /\ bucket' = PutClip(clip)
           /\ uploads' = uploads \ {clip}
           /\ step' = IF uploads' = {} THEN After(step) ELSE step
    /\ UNCHANGED <<release, db, deployed, crashes>>

\* A file that does not load, or a key that another level holds: the transaction rolls
\* back, the script ends, the container starts over.
Fail ==
    /\ Booting /\ uploads = {}
    /\ ~Runs(step)
    /\ step' = 1
    /\ UNCHANGED <<release, db, bucket, uploads, deployed, crashes>>

BootStep == Sync \/ Upload \/ Fail

Crash ==
    /\ crashes < MaxCrashes
    /\ crashes' = crashes + 1
    /\ step' = 1
    /\ uploads' = {}
    /\ UNCHANGED <<release, db, bucket, deployed>>

\* A redeploy replaces the container wherever it is; a rollback deploys a release again.
Deploy(r) ==
    /\ Len(deployed) <= MaxDeploys
    /\ release' = r
    /\ deployed' = Append(deployed, r)
    /\ step' = 1
    /\ uploads' = {}
    /\ UNCHANGED <<db, bucket, crashes>>

BootNext == BootStep \/ Crash \/ \E r \in Releases : Deploy(r)

\* The script does not wait for anything: its next command runs.
BootSpec == BootInit /\ [][BootNext]_bootVars /\ WF_bootVars(BootStep)

-----------------------------------------------------------------------------
\* Properties

BootTypeOK ==
    /\ release \in Releases
    /\ DOMAIN db = Tables
    /\ \A t \in Tables : \A row \in db[t] : row.level \in Files(LEVELS) \cup {TEF_LEVEL}
    /\ step \in 0..Len(Steps)
    /\ deployed \in Seq(Releases)
    /\ crashes \in 0..MaxCrashes

Serving == step = 0

Failing == Booting /\ uploads = {} /\ ~Runs(step)

Levels == Files(LEVELS)

\* path.yaml names the directory it lies in; nothing checks that it does.
Labelled(tree) == \A lv \in Levels : tree[lv].path # NoPath => tree[lv].path.level = lv

PassesTheChecker == Checked(Tree[release]) /\ Labelled(Tree[release])

RowsAt(table, lv) == {row \in db[table] : row.level = lv}

\* "removed lessons/vocab actually disappear" (content/sync.py:4): once the application
\* serves, whatever was deployed before and wherever it died, the rows of every level are
\* those of this release and no others, and every clip of it lies in the bucket in its
\* latest recording.
ServesTheRelease ==
    Serving /\ Labelled(Tree[release]) =>
        /\ \A lv \in Levels : \A t \in Tables : RowsAt(t, lv) = Rows(Tree[release], lv, t)
        /\ RowsAt("exams", TEF_LEVEL) = Rows(Tree[release], TEF_LEVEL, "exams")
        /\ \A lv \in Levels : Clips(Tree[release], lv, "content") \subseteq bucket

\* "so a typo'd id fails the load instead of 500ing at exam time" (exam/loader.py:45): the
\* application never serves a mock with a section it cannot open.  It holds of releases
\* without a level the script does not know: a TEF mock may name the sets of any.
MocksResolve ==
    Serving /\ ContentLevels(Tree[release]) \subseteq Levels =>
        \A row \in db["exams"] : \A sec \in Files(row.data[2].sections) :
            /\ \A sid \in sec.sets :
                   \E s \in db["sets"] : s.id = sid /\ s.data[2].skill = sec.skill
            /\ \A tid \in sec.tasks : \E t \in db["tasks"] : t.id = tid

\* The keys the checker does not compare: those of every table but the words.
KeysApart(tree) ==
    /\ \A lv \in Levels : Keyed(tree[lv].path.units)
    /\ \A t \in Tables \ {"vocab", "exams"} : \A a, b \in Levels : a # b =>
           Ids(Objects(tree[a], t)) \cap Ids(Objects(tree[b], t)) = {}
    /\ \A a, b \in Levels \cup {TEF_LEVEL} : a # b =>
           Ids(tree[a].exams) \cap Ids(tree[b].exams) = {}

\* The checker passes over a directory without path.yaml, and the script does not.
Complete(tree) == Levels \subseteq ContentLevels(tree)

\* The directories of the boot, in its order.
Places == Append(LEVELS, TEF_LEVEL)

\* An object that a release deployed before filed under a level that is booted later than
\* the one it is in now, or is not booted at all.
MovedDown ==
    \E r \in Files(deployed) \ {release}, t \in Tables, i, j \in DOMAIN Places :
        /\ Label(Tree[r], Places[j], t) \notin {Places[h] : h \in 1..i}
        /\ Ids(Objects(Tree[release][Places[i]], t)) \cap Ids(Objects(Tree[r][Places[j]], t)) # {}

\* "safe to run on every start/redeploy" (docker-entrypoint.sh:3) is true with four
\* provisos: a release the checker passes never fails to boot, whatever the database
\* holds, unless a level has no path.yaml or one that names another level, a key the
\* checker does not compare is given twice, or an object has come down from a level booted
\* later.
CheckedReleaseBoots ==
    Failing /\ PassesTheChecker =>
        ~Complete(Tree[release]) \/ ~KeysApart(Tree[release]) \/ MovedDown

Gate(d) == INSTANCE Gating WITH
    Lessons <- Ids(d.lessons),
    Units <- Ids(d.path.units),
    LessonsOf <- [u \in Ids(d.path.units) |->
                     UNION {Files(v.lessons) : v \in {w \in Files(d.path.units) : w.id = u}}],
    Requires <- [u \in Ids(d.path.units) |->
                     UNION {v.requires : v \in {w \in Files(d.path.units) : w.id = u}}],
    UnitLevel <- [u \in Ids(d.path.units) |-> 1],
    LessonLevel <- [l \in Ids(d.lessons) |-> 1]

\* One round of lessons: with those that are open now.
Opens(d, met) == met \cup {l \in InPath(d) : Gate(d)!IsLessonUnlocked(l, met)}

\* The lessons of the path a learner can get to: as many rounds as there are lessons.
Reachable(d) ==
    LET opened[n \in 0..Len(d.lessons)] == IF n = 0 THEN {} ELSE Opens(d, opened[n - 1])
    IN opened[Len(d.lessons)]

\* The lessons that are behind one of the units.
Behind(d, S) == {l \in InPath(d) : \E u \in S : u.id = Gate(d)!OwningUnit(l)}

\* Units that wait for a unit without lessons, or for lessons behind one another, never
\* open.  A lesson is behind one unit only, and a unit that lists it too waits with it.
Deadlocked(d) ==
    LET units == Files(d.path.units)
        Waits(u, held) ==
            \/ u.requires \cap held # {}
            \/ \E v \in units : v.id \in u.requires /\ Files(v.lessons) \cap held # {}
    IN \/ \E u, v \in units : v.id \in u.requires /\ v.lessons = <<>>
       \/ \E S \in SUBSET units \ {{}} : \A u \in S : Waits(u, Behind(d, S))

\* What the rules of the checker come to: when a release it passes is served, the path can
\* be finished from the first lesson on, unless its units wait for one another, which no
\* rule looks for; every word is introduced by a lesson that shows it (the known gaps
\* excepted); and every word can be heard.
CheckedReleaseTeaches ==
    Serving /\ PassesTheChecker =>
        \A lv \in Levels :
            LET d == Tree[release][lv]
                met == {l \in Files(d.lessons) : l.id \in Reachable(d)}
                Known(l) == {g[3] : g \in {h \in KnownGaps \cup ConjugatedOnly :
                                                 h[1] = lv /\ h[2] = l.id}}
            IN /\ Deadlocked(d) \/ met = Files(d.lessons)
               /\ ~Deadlocked(d) => \A row \in RowsAt("vocab", lv) :
                      \E l \in met : row.id \in Shown(l) \cup Known(l)
               /\ \A row \in RowsAt("vocab", lv) : \A n \in ClipNames(row.data[2]) :
                      \E c \in bucket : c.level = lv /\ c.name = n

=============================================================================
