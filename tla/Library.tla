------------------------------ MODULE Library --------------------------------
(***************************************************************************)
(* The library as its user meets it: the Locked Folder and encrypted mode, *)
(* ZIP imports, uploads of the web app, its gallery and viewer, and the    *)
(* timeline and the cloud grids of the phone.  The areas share no state of *)
(* their own, so each behaviour is one session in one of them.             *)
(***************************************************************************)
EXTENDS VaultScreens, ZipImports, WebUploads, WebGallery, MobileFeed, CloudGrids

libraryVars == <<jobVars, vaultVars, zipVars, uploadVars, webVars, feedVars, gridVars>>

(* The user opens one area; the others lie idle. *)
LibraryInit ==
  /\ acts = 0 /\ mishaps = 0
  /\ \/ area = "vault" /\ VaultInit /\ ZipIdle /\ UploadIdle /\ WebIdle /\ FeedIdle /\ GridIdle
     \/ area \in {"web import", "mobile import"} /\ VaultIdle /\ ZipInit /\ UploadIdle /\ WebIdle /\ FeedIdle /\ GridIdle
     \/ area = "web upload" /\ VaultIdle /\ ZipIdle /\ UploadInit /\ WebIdle /\ FeedIdle /\ GridIdle
     \/ area = "web gallery" /\ VaultIdle /\ ZipIdle /\ UploadIdle /\ WebInit /\ FeedIdle /\ GridIdle
     \/ area = "feed" /\ VaultIdle /\ ZipIdle /\ UploadIdle /\ WebIdle /\ FeedInit /\ GridIdle
     \/ area = "cloud grid" /\ VaultIdle /\ ZipIdle /\ UploadIdle /\ WebIdle /\ FeedIdle /\ GridInit

InVault == area = "vault" /\ VaultNext /\ UNCHANGED <<zipVars, uploadVars, webVars, feedVars, gridVars>>
InImport == /\ area \in {"web import", "mobile import"} /\ ZipNext
            /\ UNCHANGED <<vaultVars, uploadVars, webVars, feedVars, gridVars>>
InUpload == area = "web upload" /\ UploadNext /\ UNCHANGED <<vaultVars, zipVars, webVars, feedVars, gridVars>>
InGallery == area = "web gallery" /\ WebNext /\ UNCHANGED <<vaultVars, zipVars, uploadVars, feedVars, gridVars>>
InFeed == area = "feed" /\ FeedNext /\ UNCHANGED <<vaultVars, zipVars, uploadVars, webVars, gridVars>>
InGrid == area = "cloud grid" /\ GridNext /\ UNCHANGED <<vaultVars, zipVars, uploadVars, webVars, feedVars>>

LibraryNext == (InVault \/ InImport \/ InUpload \/ InGallery \/ InFeed \/ InGrid) /\ UNCHANGED area
LibrarySpec == LibraryInit /\ [][LibraryNext]_libraryVars

(* Every area's state stays in its type, so that no answer that comes late
   leaves a screen with an index, an entry or a page it does not have. *)
LibraryTypeOK == VaultTypeOK /\ ZipTypeOK /\ UploadTypeOK /\ WebTypeOK /\ FeedTypeOK /\ GridTypeOK

(* What was handed over is followed to its end: no archive and no file hangs
   in a list whose request is gone, and none is sent twice at once (the pump
   and the polls of import-panel.tsx, the mobile import store, the processor
   of the upload queue). *)
TransfersFollowed == ImportsFollowed /\ UploadsServed
=============================================================================
