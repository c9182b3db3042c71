------------------------------ MODULE SyncPlan ------------------------------
(***************************************************************************)
(* The data of one photo-sync profile and the two pure functions of        *)
(* handshaker-core's sync.rs: plan_diff, which compares the phone's list   *)
(* of files with the ledger, and check_conflicts, which compares the       *)
(* ledger with the disk.                                                   *)
(*                                                                         *)
(* A phone path stands for its local destination too (local_destination    *)
(* is injective on the paths of one profile).  The bytes of a file are a   *)
(* member of Contents, and a SHA-256 is the bytes it was computed from.    *)
(* The phone's checksum is not a hash of all the bytes (it covers name,    *)
(* size and head, and may be missing), so it is an arbitrary function of   *)
(* the content.                                                            *)
(***************************************************************************)
EXTENDS Naturals, FiniteSets, Sequences

CONSTANTS
    Paths,          \* phone paths under the profile's phone root
    Contents,       \* the byte contents a file can have
    PhoneContents,  \* the contents files have on the phone
    UserContents,   \* the contents the host's user may give a local file
    Metas,          \* values of ext_data / modified_at
    Sums,           \* values of the phone's checksum field, the missing one included
    SumOf,          \* the checksum the phone reports for a content
    Absent,         \* no file at this path
    Dir,            \* a directory is at this path
    NoRow           \* the ledger has no record for this path

ASSUME SyncPlanAssumption ==
    /\ PhoneContents \subseteq Contents
    /\ UserContents \subseteq Contents \cup {Dir}
    /\ SumOf \in [Contents \cup {Dir} -> Sums]
    /\ Absent \notin Contents \cup {Dir}
    /\ Dir \notin Contents

\* domain.rs SyncFileRecord; local_sha256 is the content hashed at commit time.
Row == [checksum: Sums, meta: Metas, local_sha256: Contents]

ASSUME NoRowAssumption == NoRow \notin Row

\* domain.rs SyncSnapshot: the ledger keyed by phone path.
Snapshot == [Paths -> Row \cup {NoRow}]

\* domain.rs RemoteFile, as PHOTO_SYNC_REQUEST and FILE_CHANGE report it.
RemoteFile == [content: PhoneContents \cup {Dir}, meta: Metas]
Listing == [Paths -> RemoteFile \cup {Absent}]

\* What a path of the local disk can hold.
LocalFile == Contents \cup {Absent, Dir}

is_directory(file) == file.content = Dir
checksum(file) == SumOf[file.content]

(***************************************************************************)
(* plan_diff: a file without a record, or whose checksum differs from its  *)
(* record, is downloaded; one whose metadata alone differs is only         *)
(* recorded again; a record without a phone file is deleted.  A directory  *)
(* on the phone is skipped, but it still counts as present for "deleted".  *)
(***************************************************************************)
Files(listing) == {p \in Paths : listing[p] # Absent /\ ~is_directory(listing[p])}

added(listing, snapshot) ==
    {p \in Files(listing) :
        \/ snapshot[p] = NoRow
        \/ snapshot[p].checksum # checksum(listing[p])}

\* Mutant of info_modified: metadata is never compared.
info_ignored(listing, snapshot) == {}

info_modified(listing, snapshot) ==
    {p \in Files(listing) \ added(listing, snapshot) :
        snapshot[p].meta # listing[p].meta}

deleted(listing, snapshot) ==
    {p \in Paths : snapshot[p] # NoRow /\ listing[p] = Absent}

(***************************************************************************)
(* check_conflicts over the paths a plan would touch: a recorded path      *)
(* whose local file exists and does not hash to the recorded SHA-256.      *)
(* A directory cannot be hashed, and an unreadable file is a conflict.     *)
(***************************************************************************)
check_conflicts(touched, snapshot, disk) ==
    {p \in touched :
        /\ snapshot[p] # NoRow
        /\ disk[p] # Absent
        /\ disk[p] # snapshot[p].local_sha256}

(***************************************************************************)
(* Metadata-only update of a record (the info_modified loop of             *)
(* execute_plan_with_checkpoint and the InfoModified branch of             *)
(* apply_file_change_with_checkpoint): the checksum is copied too.         *)
(***************************************************************************)
with_metadata(row, file) ==
    [row EXCEPT !.checksum = checksum(file), !.meta = file.meta]
=============================================================================
