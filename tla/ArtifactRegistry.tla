-------------------------- MODULE ArtifactRegistry --------------------------
(***************************************************************************)
(* The version history of ONE logical artifact (a dataset_id and an        *)
(* artifact_key) in ingest.artifact, and what register_artifact makes of   *)
(* it.  A history is the sequence of rows in artifact_version order; the   *)
(* position of a row is its artifact_version.  The function runs in one    *)
(* transaction under pg_advisory_xact_lock, so a registration is one step  *)
(* of whichever module uses these operators.                               *)
(*                                                                         *)
(* The module has no variables: callers keep the history and say which     *)
(* retained files still hold the bytes their name promises ("intact").     *)
(***************************************************************************)
EXTENDS Naturals, Sequences

CONSTANTS
    Checksums,   \* SHA-256 digests; a collision-free hash names its bytes
    NoChecksum   \* SQL NULL in checksum_sha256

ASSUME ChecksumAssumption == NoChecksum \notin Checksums

(* The lifecycle states callers may pass.                                  *)
Provisional == {"planned", "downloading", "failed"}
Usable == {"downloaded", "skipped", "loaded"}
Status == Provisional \cup Usable

(* local_path is told apart only as far as the code tells it apart: a      *)
(* virtual:// reference, or a file.  A file row with a checksum is at the  *)
(* retained path of that checksum, because validate_retained refused any   *)
(* other when the row was written.                                         *)
Row == [status: Status, checksum: Checksums \cup {NoChecksum}, virtual: BOOLEAN]

Latest(rows) == rows[Len(rows)]

(* Would validate_retained accept this (path, checksum)?                   *)
Valid(row, intact) == row.virtual \/ row.checksum \in intact

IsProvisionalNoStatus(row) == row.checksum = NoChecksum    \* mutant
IsProvisionalNoChecksum(row) ==                            \* mutant
    row.status \in Provisional \cup {"downloaded"}
IsProvisional(row) == row.checksum = NoChecksum /\ row.status \in Provisional

(* _artifact_action: a provisional newest row is promoted; the same        *)
(* content with a usable status retries in place; everything else appends. *)
ArtifactAction(rows, new, intact) ==
    CASE rows = <<>> -> "append"
      [] rows # <<>> /\ IsProvisional(Latest(rows)) -> "promote"
      [] OTHER ->
            IF /\ new.checksum = Latest(rows).checksum
               /\ new.checksum # NoChecksum =>
                     /\ ~(Latest(rows).virtual /\ ~new.virtual)
                     /\ Valid(Latest(rows), intact)
               /\ new.status \notin Provisional
            THEN "retry"
            ELSE "append"

(* register_artifact, once its own validate_retained has passed: a         *)
(* promotion rewrites the newest row, a retry only its status.             *)
Registered(rows, new, intact) ==
    LET action == ArtifactAction(rows, new, intact)
        n == Len(rows)
    IN  CASE action = "append"  -> Append(rows, new)
          [] action = "promote" -> [rows EXCEPT ![n] = new]
          [] action = "retry"   -> [rows EXCEPT ![n].status = new.status]

(* The version consumers read: ingest.current_artifact is the newest row   *)
(* whose status is usable.  0 stands for "no row".                         *)
UsableVersions(rows) == {i \in 1..Len(rows) : rows[i].status \in Usable}

IsCurrent(rows, i) ==
    /\ i \in UsableVersions(rows)
    /\ \A j \in UsableVersions(rows) : j <= i

Current(rows) ==
    IF UsableVersions(rows) = {} THEN 0
    ELSE CHOOSE i \in UsableVersions(rows) : IsCurrent(rows, i)
=============================================================================
