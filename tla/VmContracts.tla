----------------------------- MODULE VmContracts -----------------------------
(***************************************************************************)
(* The evidence the VM paths accept, as decisions over what was read: the  *)
(* signed manifest (internal/artifactauth), the runtime archive and the    *)
(* tree it becomes (internal/runtimebundle, vm_runtime.go), the builder's  *)
(* log (vm_builder_result.go) and the capacity of the disks                *)
(* (vm_storage_profile.go, vm_storage_selection.go).                       *)
(*                                                                         *)
(* A path is a sequence of components [text, case, legal]: equal texts are *)
(* the same name to Windows, whatever their case.  A refusal is the empty  *)
(* set, an answer a singleton.                                             *)
(***************************************************************************)
EXTENDS Naturals, Sequences, FiniteSets

CONSTANTS
    Required,        \* the files a runtime cannot do without
    MaxFiles, MaxFileBytes, MaxExpandedBytes,  \* the bounds of an archive
    Reserve,         \* vmWindowsReserveBytes
    MaxInt, MaxUint  \* the largest int64 and uint64

ASSUME ContractAssumption ==
    /\ {MaxFiles, MaxFileBytes, MaxExpandedBytes, Reserve, MaxInt, MaxUint} \subseteq Nat
    /\ Reserve <= MaxInt /\ MaxInt < MaxUint

-----------------------------------------------------------------------------
(* The signed manifest: [signed, entries], an entry [path, hash, sound] *)

Parse(entries) ==
    IF /\ entries # <<>>
       /\ \A i \in DOMAIN entries : entries[i].sound
       /\ \A i, j \in DOMAIN entries : entries[i].path = entries[j].path => i = j
    THEN {[p \in {entries[i].path : i \in DOMAIN entries} |->
             (CHOOSE i \in DOMAIN entries : entries[i].path = p)]} ELSE {}

\* The signature is checked before a byte of the manifest is interpreted.
Verify(manifest) == IF manifest.signed THEN Parse(manifest.entries) ELSE {}

Signed(manifest, sums, path) == manifest.entries[sums[path]].hash

-----------------------------------------------------------------------------
(* The archive: [hash, manifest, files], a file [path, hash, size, regular] *)

folded(path) == [i \in DOMAIN path |-> path[i].text]
Prefixes(path) == {SubSeq(path, 1, i) : i \in DOMAIN path}
validComponent(part) == part.legal

SumOf(sizes) ==
    LET sum[i \in 0 .. Len(sizes)] == IF i = 0 THEN 0 ELSE sum[i - 1] + sizes[i]
    IN  sum[Len(sizes)]

inspect(files) ==
    LET paths    == {files[i].path : i \in DOMAIN files}
        prefixes == UNION {Prefixes(p) : p \in paths}
    IN  /\ Len(files) \in 1 .. MaxFiles
        /\ \A i \in DOMAIN files : files[i].regular /\ files[i].size <= MaxFileBytes
        /\ \A p \in paths : \A i \in DOMAIN p : validComponent(p[i])
        /\ \A p, q \in prefixes : folded(p) = folded(q) => p = q
        /\ Cardinality(paths) = Len(files)
        /\ SumOf([i \in DOMAIN files |-> files[i].size]) <= MaxExpandedBytes
        /\ \A p \in paths : (Prefixes(p) \ {p}) \intersect paths = {}

\* What is on disk once every file was extracted: size and hash as signed.
extract(file, hash) == file.whole /\ file.hash = hash

\* Mutant: a file the manifest does not name is extracted all the same.
InstallUnlisted(archive, expected) ==
    IF archive.hash = expected /\ inspect(archive.files)
    THEN {[manifest |-> archive.manifest,
           files |-> {[path |-> archive.files[i].path, hash |-> archive.files[i].hash]
                        : i \in DOMAIN archive.files}]
            : s \in Verify(archive.manifest)}
    ELSE {}

\* The tree the archive becomes, published by one rename.
Install(archive, expected) ==
    LET paths == {archive.files[i].path : i \in DOMAIN archive.files}
    IN  IF /\ archive.hash = expected
           /\ inspect(archive.files)
           /\ \E sums \in Verify(archive.manifest) :
                /\ DOMAIN sums = paths
                /\ Required \subseteq paths
                /\ \A i \in DOMAIN archive.files :
                     extract(archive.files[i],
                             Signed(archive.manifest, sums, archive.files[i].path))
        THEN {[manifest |-> archive.manifest,
               files |-> {[path |-> archive.files[i].path, hash |-> archive.files[i].hash]
                            : i \in DOMAIN archive.files}]}
        ELSE {}

\* Every launch authenticates the whole tree again: each file is signed, none missing.
verifyVMRuntime(tree) ==
    \E sums \in Verify(tree.manifest) :
      /\ \A f, g \in tree.files : folded(f.path) = folded(g.path) => f = g
      /\ \A f \in tree.files :
           f.path \in DOMAIN sums /\ f.hash = Signed(tree.manifest, sums, f.path)
      /\ \A p \in DOMAIN sums : \E f \in tree.files : f.path = p

-----------------------------------------------------------------------------
(* The builder's log: lines "success", "error", "noise" or a result         *)

IsResult(line) == line \in {"result", "foreign"}  \* this run's, or another's

\* One receipt of this run, image and disk; then success; and never an error.
verifyVMBuilderReceipt(log) ==
    LET results == {i \in DOMAIN log : IsResult(log[i])}
    IN  /\ \A i \in DOMAIN log : log[i] # "error"
        /\ Cardinality(results) = 1
        /\ \E i \in DOMAIN log : log[i] = "success" /\ \E j \in results : j < i
        /\ \A i \in results : log[i] = "result"

-----------------------------------------------------------------------------
(* Capacity.  Numbers keep their width: a sum is compared before it is made. *)

defaultVMStoragePlan(size) == [target |-> size, scratch |-> size, reserve |-> Reserve]

\* The builder's protocol file; a minimum it does not give is the empty set.
parseVMStorageMinimums(meta) ==
    IF \/ ~meta.unique \/ ~meta.contract \/ meta.null
       \/ (meta.target = {}) # (meta.scratch = {})
       \/ 0 \in meta.legacy \union meta.target \union meta.scratch
       \/ \E l \in meta.legacy : \E n \in meta.target \union meta.scratch : l < n
    THEN {}
    ELSE IF meta.target = {} THEN {[target |-> l, scratch |-> l] : l \in meta.legacy}
    ELSE {[target |-> t, scratch |-> s] : t \in meta.target, s \in meta.scratch}

requiredFree(plan, minimums) ==
    IF \/ plan.target < minimums.target \/ plan.scratch < minimums.scratch
       \/ plan.reserve < Reserve
       \/ plan.target > MaxInt \/ plan.scratch > MaxInt
       \/ plan.target > MaxUint - plan.scratch
       \/ plan.target + plan.scratch > MaxUint - plan.reserve
    THEN {} ELSE {plan.target + plan.scratch + plan.reserve}

admit(plan, minimums, available) ==
    \E required \in requiredFree(plan, minimums) : available >= required

\* A smaller profile only by build-time choice, for exactly this image and runtime.
selectVMStorageProfile(experiment, image, manifest, minimums, profiles, standard) ==
    LET named == {p \in profiles : p.id = experiment}
        plans == IF experiment = "" THEN {standard}
                 ELSE IF Cardinality(named) # 1 THEN {}
                 ELSE {p.plan : p \in {q \in named : q.image = image /\ q.manifest = manifest}}
    IN  IF image.immutable
        THEN {plan \in plans : requiredFree(plan, minimums) # {}} ELSE {}
=============================================================================
