--------------------------- MODULE ScreenshotStore ---------------------------
(***************************************************************************)
(* The screenshot directory of adapters/filesystem/screenshots.go.  A file *)
(* is known by its key: the subdirectory it lies in and the identifier the *)
(* store drew for it.  uuid.NewString() never returns the same identifier  *)
(* twice, so a key is written here with the caller that drew it: the       *)
(* request that promoted or quarantined the file, the capture attempt that *)
(* staged it.  The state of the directory is the set of keys that name a   *)
(* file.  Every operation is one system call and ignores its context.      *)
(***************************************************************************)
LOCAL INSTANCE Naturals

StagedKey(attempt)   == <<"staging", attempt>>
PromotedKey(caller)  == <<"promoted", caller>>
QuarantinedKey(caller) == <<"quarantine", caller>>

\* os.Rename: Promote, Quarantine and Restore move a file in one step, and
\* fail when there is no file under the old key.
CanRename(files, from) == from \in files
Rename(files, from, to) == (files \ {from}) \cup {to}

\* os.Remove with a missing file counted as removed: Remove and Discard.
Unlink(files, k) == files \ {k}
=============================================================================
