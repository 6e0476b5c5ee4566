-------------------------- MODULE GovInfoArtifacts --------------------------
(***************************************************************************)
(* What sync-billstatus and sync-bill-text keep in ingest.artifact: rows   *)
(* of ArtifactRegistry with the part of their metadata that later runs     *)
(* read, namely which publication a HEAD described when the bytes were     *)
(* fetched (remote_size and remote_last_modified), the verdict of the      *)
(* comparison with GovInfo's manifest, and whether the path is the old     *)
(* lake's.  Retained files stay intact here; ArtifactDownload is about     *)
(* those.                                                                  *)
(***************************************************************************)
EXTENDS ArtifactRegistry

GovInfoRow(status, c, lake, stamp, verdict) ==
    [status |-> status, checksum |-> c, virtual |-> FALSE, lake |-> lake,
     stamp |-> stamp, verdict |-> verdict]

(* The metadata of a registration is merged into the row's.                *)
Merged(old, new) ==
    [new EXCEPT !.stamp = IF @ = NoChecksum THEN old.stamp ELSE @,
                !.verdict = IF @ = NoChecksum THEN old.verdict ELSE @]

(* register_artifact: the action is ArtifactRegistry's.  A promotion puts  *)
(* the new row in the place of an attempt that failed, a retry leaves the  *)
(* bytes and the path of the row.                                          *)
Filed(rs, new) ==
    LET n == Len(rs)
        action == ArtifactAction(rs, new, Checksums)
    IN  CASE action = "append"  -> Append(rs, new)
          [] action = "promote" -> [rs EXCEPT ![n] = Merged(rs[n], new)]
          [] action = "retry"   ->
                [rs EXCEPT ![n] = [Merged(rs[n], new) EXCEPT !.lake = rs[n].lake]]

CurrentFile(rs) == rs[Current(rs)]
=============================================================================
