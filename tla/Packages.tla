------------------------------ MODULE Packages ------------------------------
(***************************************************************************)
(* The package tool uni (userspace/uni.c): `uni install FILE...` and       *)
(* `uni remove PACKAGE`, run by the desktop, by acur and from a shell, so  *)
(* that several run at once, each preempted between any two system calls.  *)
(* An install copies the payload, writes a manifest of what it created and *)
(* then rewrites the database of installed packages; a failure unlinks     *)
(* what was created and removes the packages the command had installed     *)
(* before.  A removal unlinks what the manifest lists, then the manifest,  *)
(* then rewrites the database.                                             *)
(*                                                                         *)
(* A path holds the package that created it, `Given' when it was there     *)
(* before, or `Absent'.  The system calls are the kernel's: O_EXCL refuses *)
(* an existing path, a missing parent refuses a creation and a directory   *)
(* that is not empty refuses rmdir.  The database is the set of packages   *)
(* recorded; it is below the 64 KiB that one write system call moves, so   *)
(* that a failed write leaves what the truncation left: nothing.  The      *)
(* directories of the tool's own state exist.  A payload file or a         *)
(* manifest is looked for, created and written in one step, in which one   *)
(* call fails, or every open does (EMFILE): the kernel looks for the       *)
(* descriptor last, so that an open that fails may have created the file   *)
(* or emptied it, and uni takes a path that it cannot open for absent.     *)
(***************************************************************************)
EXTENDS Naturals, Sequences, FiniteSets, SequencesExt

CONSTANTS Unis,        \* the uni processes that may run at once
          Pkgs,        \* package identifiers
          System,      \* those that are .deb files and install below /
          Paths,       \* payload paths
          Dirs,        \* the directories among them
          Parent,      \* Parent[x]: the directory a path lies in
          Base,        \* Base[p]: the private directory of a package not in System
          Payload,     \* Payload[p]: its paths in extraction order, parents first
          Depends,     \* Depends[p]: what its dependency fields name
          Before,      \* the paths that exist before any package is installed
          MaxCreated,  \* UNI_MAX_CREATED_PATHS
          DbCap,       \* packages the database buffer has room for
          MaxPlan,     \* bound: packages in one install command
          MaxFaults    \* bound: failed system calls and killed processes

ASSUME PackagesAssumption ==
    /\ System \subseteq Pkgs /\ Dirs \subseteq Paths /\ Before \subseteq Paths
    /\ Parent \in [Paths -> Dirs] /\ Payload \in [Pkgs -> Seq(Paths)]
    /\ Base \in [Pkgs \ System -> Dirs] /\ Depends \in [Pkgs -> SUBSET Pkgs]
    /\ {MaxCreated, DbCap, MaxPlan, MaxFaults} \subseteq Nat

VARIABLES tree,      \* tree[x]: what made path x
          manifest,  \* manifest[p]: the paths the manifest of p lists, NoManifest or Emptied
          db,        \* the packages installed.db records
          uni,       \* uni[u]: the state of a process
          faults,
          cut,       \* history: packages whose install or removal stopped half way
          removed,   \* history: packages whose removal began since their installation
          strayed,   \* history: packages that lost a file to another one's removal
          leaked,    \* history: paths and manifests that a failed open hid from uni
          met,       \* history: packages that two commands worked on at once
          torn       \* history: a database rewrite failed, met another one or read nothing

vars == <<tree, manifest, db, uni, faults, cut, removed, strayed, leaked, met,
          torn>>

Absent == "absent"
Given == "given"

\* No manifest file, or one without a byte; a manifest never lists these names.
NoManifest == <<Absent>>
Emptied == <<Given>>

\* load_manifest refuses an empty file.
Readable(p) == manifest[p] \notin {NoManifest, Emptied}

Exists(x) == tree[x] # Absent
Empty(d) == \A x \in Paths : Parent[x] = d => ~Exists(x)

\* A manifest file is named by its package, a payload path by itself.
Created == Paths \cup Pkgs

Idle == [cmd |-> "none", plan |-> <<>>, at |-> 0, pc |-> "idle",
         created |-> <<>>, left |-> <<>>, buf |-> {}]

Pkg(u) == uni[u].plan[uni[u].at]
Busy == UNION {ToSet(uni[u].plan) : u \in Unis}

Init ==
    /\ tree = [x \in Paths |-> IF x \in Before THEN Given ELSE Absent]
    /\ manifest = [p \in Pkgs |-> NoManifest]
    /\ db = {}
    /\ uni = [u \in Unis |-> Idle]
    /\ faults = 0
    /\ cut = {}
    /\ removed = {}
    /\ strayed = {}
    /\ leaked = {}
    /\ met = {}
    /\ torn = FALSE

Fault == faults < MaxFaults /\ faults' = faults + 1

Go(u, pc) == uni' = [uni EXCEPT ![u].pc = pc]

\* What cleanup_created and the removals of the packages installed before leave to do.
StepBackOneShort(u) ==
    IF uni[u].at > 2
    THEN [Idle EXCEPT !.cmd = "rollback", !.plan = uni[u].plan,
                      !.at = uni[u].at - 1, !.pc = "find"]
    ELSE Idle

StepBack(u) ==
    IF uni[u].at > 1
    THEN [Idle EXCEPT !.cmd = "rollback", !.plan = uni[u].plan,
                      !.at = uni[u].at - 1, !.pc = "find"]
    ELSE Idle

--------------------------------------------------------------------------
(* uni install *)

\* validate_dependency_field: every dependency is installed or in the same command.
Satisfied(p, plan, records) == Depends[p] \subseteq records \cup ToSet(plan)

\* prepare_install_plan: none installed, none twice, no dependency missing.
Ready(plan, records) ==
    /\ IsInjective(plan)
    /\ ToSet(plan) \cap records = {}
    /\ \A p \in ToSet(plan) : Satisfied(p, plan, records)

\* A database that cannot be opened reads as empty.
install_packages(u) ==
    /\ uni[u].pc = "idle"
    /\ \E plan \in SeqOf(Pkgs, MaxPlan) \ {<<>>} :
          /\ (Ready(plan, db) /\ UNCHANGED faults) \/ (Ready(plan, {}) /\ Fault)
          /\ uni' = [uni EXCEPT ![u] = [Idle EXCEPT !.cmd = "install", !.plan = plan,
                                                    !.at = 1, !.pc = "begin"]]
          /\ met' = met \cup (ToSet(plan) \cap Busy)
    /\ UNCHANGED <<tree, manifest, db, cut, removed, strayed, leaked, torn>>

\* The checks of install_archive_payload, install_deb and install_appimage.  A
\* database that cannot be read has no record, a directory that cannot be opened
\* is taken for absent.
Occupied(p) == p \notin System /\ Exists(Base[p])

begin_install(u) ==
    /\ uni[u].pc = "begin"
    /\ \/ /\ Pkg(u) \in db \/ Occupied(Pkg(u))
          /\ Go(u, "cleanup")
          /\ UNCHANGED faults
       \/ /\ (Pkg(u) \notin db /\ ~Occupied(Pkg(u)) /\ UNCHANGED faults) \/ Fault
          /\ uni' = [uni EXCEPT ![u].pc = "extract", ![u].left = Payload[Pkg(u)]]
    /\ UNCHANGED <<tree, manifest, db, cut, removed, strayed, leaked, met, torn>>

\* remember_created has room.
Room(u) == Len(uni[u].created) < MaxCreated

\* ensure_directory and the creation of a file: is there nothing to do, may it be done?
Skipped(x) == x \in Dirs /\ Exists(x)
CreatableOverwriting(u, x) == Exists(Parent[x]) /\ Room(u)
Creatable(u, x) == ~Exists(x) /\ Exists(Parent[x]) /\ Room(u)

\* The path is made, and then the call fails or the one that looks for it or undoes
\* it: uni does not remember the path.  Only the files of a .deb are looked for
\* room beforehand.
Leaks(u, x) ==
    ~Exists(x) /\ Exists(Parent[x]) /\ (Room(u) \/ x \in Dirs \/ Pkg(u) \notin System)

extract_entry(u) ==
    /\ uni[u].pc = "extract" /\ uni[u].left # <<>>
    /\ LET x == Head(uni[u].left) IN
       \/ /\ Skipped(x)
          /\ uni' = [uni EXCEPT ![u].left = Tail(@)]
          /\ UNCHANGED <<tree, leaked, faults>>
       \/ /\ ~Skipped(x) /\ Creatable(u, x)
          /\ tree' = [tree EXCEPT ![x] = Pkg(u)]
          /\ uni' = [uni EXCEPT ![u].left = Tail(@), ![u].created = Append(@, x)]
          /\ UNCHANGED <<leaked, faults>>
       \/ /\ (~Skipped(x) /\ ~Creatable(u, x) /\ UNCHANGED faults) \/ Fault
          /\ Go(u, "cleanup")
          /\ UNCHANGED <<tree, leaked>>
       \/ /\ Leaks(u, x) /\ Fault
          /\ tree' = [tree EXCEPT ![x] = Pkg(u)]
          /\ leaked' = leaked \cup {x}
          /\ Go(u, "cleanup")
    /\ UNCHANGED <<manifest, db, cut, removed, strayed, met, torn>>

\* Payload and directories in the reverse of the order of their creation.
ManifestLinesOneShort(u) == Reverse(Front(uni[u].created))
ManifestLines(u) == Reverse(uni[u].created)

\* A manifest is refused when there is one, and overwritten when that cannot be
\* seen; one whose writing fails is unlinked, one whose open fails may stay, empty.
write_manifest(u) ==
    /\ uni[u].pc = "extract" /\ uni[u].left = <<>>
    /\ LET p == Pkg(u) IN
       \/ /\ (manifest[p] = NoManifest /\ UNCHANGED faults) \/ Fault
          /\ manifest' = [manifest EXCEPT ![p] = ManifestLines(u)]
          /\ IF Room(u)
             THEN uni' = [uni EXCEPT ![u].pc = "load", ![u].created = Append(@, p)]
             ELSE Go(u, "cleanup")
          /\ UNCHANGED leaked
       \/ /\ (manifest[p] # NoManifest /\ UNCHANGED faults) \/ Fault
          /\ Go(u, "cleanup")
          /\ UNCHANGED <<manifest, leaked>>
       \/ /\ Fault
          /\ \/ /\ manifest' = [manifest EXCEPT ![p] = NoManifest]
                /\ UNCHANGED leaked
             \/ /\ manifest' = [manifest EXCEPT ![p] = Emptied]
                /\ leaked' = leaked \cup {p}
          /\ Go(u, "cleanup")
    /\ UNCHANGED <<tree, db, cut, removed, strayed, met, torn>>

\* One step of cleanup_created: the last path remembered is unlinked.  A
\* directory that is no longer empty stays, and a failure is ignored.
Undone(x) == IF x \in Dirs /\ ~Empty(x) THEN tree ELSE [tree EXCEPT ![x] = Absent]

\* A command on p may unlink what another package has put there since, when it
\* repeats a removal that stopped half way, when it meets another command on p,
\* or when p's own file was taken in this way.
Strays(u, x) == IF Pkg(u) \in cut \cup met \cup strayed THEN strayed \cup {tree[x]} ELSE strayed

cleanup_created(u) ==
    /\ uni[u].pc = "cleanup"
    /\ IF uni[u].created = <<>>
       THEN /\ uni' = [uni EXCEPT ![u] = StepBack(u)]
            /\ UNCHANGED <<tree, manifest, faults, cut, strayed>>
       ELSE LET x == Last(uni[u].created) IN
            /\ uni' = [uni EXCEPT ![u].created = Front(@)]
            /\ \/ /\ x \in Paths
                  /\ tree' = Undone(x)
                  /\ strayed' = Strays(u, x)
                  /\ UNCHANGED <<manifest, faults, cut>>
               \/ /\ x \in Pkgs
                  /\ manifest' = [manifest EXCEPT ![x] = NoManifest]
                  /\ UNCHANGED <<tree, faults, cut, strayed>>
               \/ /\ Fault
                  /\ cut' = cut \cup {Pkg(u)}
                  /\ UNCHANGED <<tree, manifest, strayed>>
    /\ UNCHANGED <<db, removed, leaked, met, torn>>

--------------------------------------------------------------------------
(* uni remove, also the rollback of a package installed by the same command *)

remove_package(u) ==
    /\ uni[u].pc = "idle"
    /\ \E p \in Pkgs :
          /\ uni' = [uni EXCEPT ![u] = [Idle EXCEPT !.cmd = "remove", !.plan = <<p>>,
                                                   !.at = 1, !.pc = "find"]]
          /\ met' = met \cup ({p} \cap Busy)
    /\ UNCHANGED <<tree, manifest, db, faults, cut, removed, strayed, leaked, torn>>

\* A removal gives up; `half' when it may have changed something already, or
\* when it was the rollback of a transaction.
GiveUp(u, half) ==
    /\ uni' = [uni EXCEPT ![u] = StepBack(u)]
    /\ cut' = IF half \/ uni[u].cmd = "rollback" THEN cut \cup {Pkg(u)} ELSE cut

\* validate_manifest_paths: a private package lists only what lies in its directory.
Inside(p, x) == x = Base[p] \/ Parent[x] = Base[p]
ManifestValid(p) == p \notin System => \A x \in ToSet(manifest[p]) : Inside(p, x)

\* remove_tree: what is in the private directory, then the directory.
PrivateTree(p) == Reverse(SelectSeq(Payload[p], LAMBDA x : Inside(p, x) /\ Exists(x)))

StartUnlinking(u, how, paths) ==
    /\ uni' = [uni EXCEPT ![u].pc = how, ![u].left = paths]
    /\ removed' = removed \cup {Pkg(u)}

\* A private package without a manifest that can be read is removed by its
\* directory, and one whose directory cannot be opened only from the database.
find_installed(u) ==
    /\ uni[u].pc = "find"
    /\ LET p == Pkg(u) IN
       \/ /\ p \in db /\ Readable(p) /\ ManifestValid(p)
          /\ StartUnlinking(u, "unlink", manifest[p])
          /\ UNCHANGED <<faults, cut>>
       \/ /\ p \in db /\ p \notin System
          /\ \/ /\ ~Readable(p)
                /\ StartUnlinking(u, "tree", PrivateTree(p))
                /\ UNCHANGED <<faults, cut>>
             \/ /\ Fault
                /\ \E paths \in {PrivateTree(p), <<>>} : StartUnlinking(u, "tree", paths)
                /\ cut' = cut \cup {p}
       \/ /\ \/ p \notin db
             \/ ~Readable(p) /\ p \in System
             \/ Readable(p) /\ ~ManifestValid(p)
          /\ GiveUp(u, FALSE)
          /\ UNCHANGED <<faults, removed>>
       \/ /\ Fault
          /\ GiveUp(u, FALSE)
          /\ UNCHANGED removed
    /\ UNCHANGED <<tree, manifest, db, strayed, leaked, met, torn>>

\* What remove_tree listed has gone, or has been filled, since.
Overtaken(u, x) == uni[u].pc = "tree" /\ (~Exists(x) \/ (x \in Dirs /\ ~Empty(x)))

\* remove_manifest_paths and remove_tree: a file that cannot be unlinked ends the
\* removal; a directory that cannot ends only remove_tree.  A file of the manifest
\* that cannot be opened is passed over like a directory that stays.
Tolerated(u, x) == uni[u].pc = "unlink" /\ x \in Dirs

unlink_path(u) ==
    /\ uni[u].pc \in {"unlink", "tree"} /\ uni[u].left # <<>>
    /\ LET x == Head(uni[u].left) IN
       \/ /\ ~Overtaken(u, x)
          /\ tree' = Undone(x)
          /\ strayed' = Strays(u, x)
          /\ uni' = [uni EXCEPT ![u].left = Tail(@)]
          /\ UNCHANGED <<faults, cut, leaked>>
       \/ /\ Fault /\ uni[u].pc = "unlink" /\ Exists(x)
          /\ uni' = [uni EXCEPT ![u].left = Tail(@)]
          /\ leaked' = leaked \cup {x}
          /\ UNCHANGED <<tree, cut, strayed>>
       \/ /\ ~Tolerated(u, x)
          /\ IF Overtaken(u, x) THEN UNCHANGED faults ELSE Fault
          /\ GiveUp(u, TRUE)
          /\ UNCHANGED <<tree, strayed, leaked>>
    /\ UNCHANGED <<manifest, db, removed, met, torn>>

\* The manifest is unlinked; when that fails, or it is already gone, the removal ends.
unlink_manifest(u) ==
    /\ uni[u].pc \in {"unlink", "tree"} /\ uni[u].left = <<>>
    /\ \/ /\ uni[u].pc = "tree"
          /\ Go(u, "load")
          /\ UNCHANGED <<manifest, faults, cut>>
       \/ /\ uni[u].pc = "unlink" /\ manifest[Pkg(u)] # NoManifest
          /\ manifest' = [manifest EXCEPT ![Pkg(u)] = NoManifest]
          /\ Go(u, "load")
          /\ UNCHANGED <<faults, cut>>
       \/ /\ uni[u].pc = "unlink"
          /\ (manifest[Pkg(u)] = NoManifest /\ UNCHANGED faults) \/ Fault
          /\ GiveUp(u, TRUE)
          /\ UNCHANGED manifest
    /\ UNCHANGED <<tree, db, removed, strayed, leaked, met, torn>>

--------------------------------------------------------------------------
(* The database, rewritten whole by both commands *)

Rewriting == {u \in Unis : uni[u].pc \in {"trunc", "write"}}

\* An install that fails cleans up, a removal that fails gives up.
Failed(u) ==
    IF uni[u].cmd = "install" THEN Go(u, "cleanup") /\ UNCHANGED cut ELSE GiveUp(u, TRUE)

\* database_without reads the file and leaves out the package; record_package
\* adds it.  A file that cannot be opened reads as empty, and the records of all
\* other packages are then lost in the rewrite.
NewRecords(u, records) ==
    (records \ {Pkg(u)}) \cup (IF uni[u].cmd = "install" THEN {Pkg(u)} ELSE {})

load_database(u) ==
    /\ uni[u].pc = "load"
    /\ \/ /\ Cardinality(NewRecords(u, db)) <= DbCap
          /\ uni' = [uni EXCEPT ![u].pc = "trunc", ![u].buf = NewRecords(u, db)]
          /\ torn' = (torn \/ Rewriting # {})
          /\ UNCHANGED <<faults, cut>>
       \/ /\ Fault
          /\ uni' = [uni EXCEPT ![u].pc = "trunc", ![u].buf = NewRecords(u, {})]
          /\ torn' = TRUE
          /\ UNCHANGED cut
       \/ /\ (Cardinality(NewRecords(u, db)) > DbCap /\ UNCHANGED faults) \/ Fault
          /\ Failed(u)
          /\ UNCHANGED torn
    /\ UNCHANGED <<tree, manifest, db, removed, strayed, leaked, met>>

\* An open that fails may have truncated the file before.
open_truncated(u) ==
    /\ uni[u].pc = "trunc"
    /\ \/ /\ db' = {}
          /\ Go(u, "write")
          /\ UNCHANGED <<faults, cut, torn>>
       \/ /\ Fault
          /\ db' \in {db, {}}
          /\ torn' = (torn \/ db' # db)
          /\ Failed(u)
    /\ UNCHANGED <<tree, manifest, removed, strayed, leaked, met>>

\* The next package of the command, or its end.
Proceed(u) ==
    IF uni[u].cmd # "install" THEN StepBack(u)
    ELSE IF uni[u].at < Len(uni[u].plan)
         THEN [Idle EXCEPT !.cmd = "install", !.plan = uni[u].plan,
                           !.at = uni[u].at + 1, !.pc = "begin"]
         ELSE Idle

\* Records another process wrote since the truncation remain where they reach
\* further than this one's.
write_database(u) ==
    /\ uni[u].pc = "write"
    /\ \/ /\ \E tail \in SUBSET db : db' = uni[u].buf \cup tail
          /\ uni' = [uni EXCEPT ![u] = Proceed(u)]
          /\ IF uni[u].cmd = "install"
             THEN cut' = cut \ {Pkg(u)} /\ removed' = removed \ {Pkg(u)}
             ELSE UNCHANGED <<cut, removed>>
          /\ UNCHANGED <<faults, torn>>
       \/ /\ Fault
          /\ Failed(u)
          /\ torn' = TRUE
          /\ UNCHANGED <<db, removed>>
    /\ UNCHANGED <<tree, manifest, strayed, leaked, met>>

\* The process is killed, or the machine stops, between two system calls.
killed(u) ==
    /\ uni[u].pc # "idle" /\ Fault
    /\ uni' = [uni EXCEPT ![u] = Idle]
    /\ cut' = cut \cup ToSet(uni[u].plan)
    /\ torn' = (torn \/ uni[u].pc = "write")
    /\ UNCHANGED <<tree, manifest, db, removed, strayed, leaked, met>>

Next ==
    \E u \in Unis :
        \/ install_packages(u) \/ begin_install(u) \/ extract_entry(u)
        \/ write_manifest(u) \/ cleanup_created(u)
        \/ remove_package(u) \/ find_installed(u) \/ unlink_path(u)
        \/ unlink_manifest(u)
        \/ load_database(u) \/ open_truncated(u) \/ write_database(u)
        \/ killed(u)

Spec == Init /\ [][Next]_vars

--------------------------------------------------------------------------
(* Properties *)

TypeOK ==
    /\ tree \in [Paths -> Pkgs \cup {Absent, Given}]
    /\ \A p \in Pkgs : Readable(p) => ToSet(manifest[p]) \subseteq Paths
    /\ leaked \subseteq Created
    /\ UNION {db, cut, removed, met} \subseteq Pkgs
    /\ strayed \subseteq Pkgs \cup {Absent, Given}
    /\ faults \in 0..MaxFaults /\ torn \in BOOLEAN
    /\ \A u \in Unis :
          /\ uni[u].at \in 0..Len(uni[u].plan)
          /\ ToSet(uni[u].created) \subseteq Created
          /\ Len(uni[u].created) <= MaxCreated

PayloadFiles(p) == ToSet(Payload[p]) \ Dirs

\* A package is recorded only when it is wholly there: every package in
\* installed.db whose removal has not begun, and on which no two commands worked
\* at once, has its manifest and every file of its payload, each written by its
\* own installation, whatever fails, is killed or runs at the same time.  Only
\* the repetition of a removal that stopped half way, or two commands on one
\* package, take a file from another package.
RecordedIsWhole ==
    \A p \in db \ (removed \cup met) :
        /\ Readable(p)
        /\ p \notin strayed => \A x \in PayloadFiles(p) : tree[x] = p

\* A package that no command is working on and that is not recorded has left
\* nothing behind, neither files nor a manifest that would refuse it later: a
\* failed install undoes itself, a removal takes everything.  Excused are the
\* single files that a failed open hid (left by the kernel although their creation
\* was reported failed, or taken for absent by the removal), commands that were
\* killed or could not unlink or read their manifest, two commands on one package,
\* and rewrites of the database that failed, met another one or could not open it.
NothingLeftBehind ==
    (~torn /\ \A u \in Unis : uni[u].pc # "write") =>
        \A p \in Pkgs \ (db \cup cut \cup met \cup Busy) :
            /\ p \in leaked \/ manifest[p] = NoManifest
            /\ \A x \in Paths \ (Dirs \cup leaked) : tree[x] # p

\* When no command runs, what a recorded package depends on is recorded too, or a
\* removal of it has begun since it was installed: a transaction that fails takes
\* back the packages it had installed.  uni remove does not look at dependants, so
\* a removal excuses the missing dependency whatever began it.
DependenciesRecorded ==
    (~torn /\ \A u \in Unis : uni[u].pc = "idle") =>
        \A p \in db \ cut : Depends[p] \subseteq db \cup removed

\* What install recorded remove accepts: the manifest of every recorded package
\* passes the validation that precedes the removal.
RecordedIsRemovable ==
    \A p \in db : Readable(p) => ManifestValid(p)
=============================================================================
