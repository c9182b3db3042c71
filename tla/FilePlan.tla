------------------------------ MODULE FilePlan ------------------------------
(***************************************************************************)
(* The pure part of the file service: how a request's path becomes a path  *)
(* on the phone (runtime.rs, resolve_remote_path) and how a preflight      *)
(* decides destinations and conflicts (runtime.rs plan helpers,            *)
(* file_plan.rs).                                                          *)
(*                                                                         *)
(* A path is the sequence of its components; a request's path also says    *)
(* whether it started with a slash.  A file system maps paths to "none",   *)
(* "dir" or the content of a file.                                         *)
(***************************************************************************)
EXTENDS Naturals, Sequences, SequencesExt

CONSTANT Root       \* DeviceInfo.root_path of the session

\* The entry at a path; what the model has no room for does not exist.
At(fs, p) == IF p \in DOMAIN fs THEN fs[p] ELSE "none"
IsFile(e) == e \notin {"none", "dir"}
Parent(p) == Front(p)

\* normalize_remote_path: "." and empty components go, ".." pops, never above
\* the root of the file system.
push_component(stack, c) ==
    CASE c \in {"", "."} -> stack
      [] c = ".." -> IF stack = <<>> THEN stack ELSE Front(stack)
      [] OTHER -> Append(stack, c)
normalize_remote_path(parts) ==
    LET stack[n \in 0 .. Len(parts)] ==
            IF n = 0 THEN <<>> ELSE push_component(stack[n - 1], parts[n])
    IN  stack[Len(parts)]

\* resolve_remote_path: nothing and "." are the root, /sdcard is an alias of
\* it, and a relative path that would leave the root is pinned back to it.
resolve_remote_path(raw) ==
    IF raw.abs
    THEN IF raw.parts # <<>> /\ Head(raw.parts) = "sdcard"
         THEN normalize_remote_path(Root \o Tail(raw.parts))
         ELSE normalize_remote_path(raw.parts)
    ELSE LET n == normalize_remote_path(Root \o raw.parts)
         IN  IF raw.parts \notin {<<>>, <<".">>} /\ IsPrefix(Root, n) THEN n ELSE Root

(***************************************************************************)
(* Conflicts.                                                              *)
(***************************************************************************)

ConflictKinds == {"DestinationExists", "DestinationTypeMismatch", "RecursiveRequired",
                  "DuplicateDestination", "SourceMissing"}

Conflict(kind, overridable) == [kind |-> kind, overridable |-> overridable]

\* resolve_local_download_destination and resolve_remote_upload_destination:
\* several sources need an existing directory, and an existing directory gets
\* the base name of the source.  The result is empty when there is none.
resolve_destination(dest, destIsDir, source, count) ==
    IF source = <<>> \/ (count > 1 /\ ~destIsDir) THEN {}
    ELSE {IF destIsDir THEN Append(dest, Last(source)) ELSE dest}

\* inspect_local_destination and append_remote_destination_conflict: what the
\* entry at a resolved destination means for the plan.
inspect_destination(entry, isDirectory, overwrite) ==
    CASE entry = "none" -> {}
      [] entry # "none" /\ (entry = "dir") # isDirectory -> {Conflict("DestinationTypeMismatch", FALSE)}
      [] IsFile(entry) /\ ~isDirectory -> {Conflict("DestinationExists", overwrite)}
      [] entry = "dir" /\ isDirectory -> {}

\* Mutant of append_duplicate_destination_conflicts: nobody looks.
append_duplicate_destination_conflicts_none(items) == {}

\* append_duplicate_destination_conflicts: two items with one destination.
append_duplicate_destination_conflicts(items) ==
    {Conflict("DuplicateDestination", FALSE) :
        ij \in {x \in (1 .. Len(items)) \X (1 .. Len(items)) :
                  x[1] < x[2] /\ items[x[1]].dst = items[x[2]].dst}}

\* FileOperationPlan::is_executable_with.
is_executable_with(conflicts, overwrite) ==
    \A c \in conflicts : c.overridable /\ (c.kind = "DestinationExists" => overwrite)
=============================================================================
