---------------------------- MODULE VaultScreens -----------------------------
(***************************************************************************)
(* The Locked Folder screen with its set-up, its gates and its grid, the   *)
(* screen of the encrypted mode with its store, and the bulk actions of    *)
(* the gallery that feed them.  The user is one person with one password;  *)
(* a PIN is a member of Pins, entered at once.                             *)
(***************************************************************************)
EXTENDS Vault

CONSTANTS Pins, VaultDisks
Disk == [media : SUBSET Assets, saves : [Photos -> 0..MaxSaves], legacy : SUBSET Assets,
         vault : [VaultIds -> [row : BOOLEAN, file : {"none", "whole"}, key : Nat,
                               plain : {"none", "partial", "whole"}, of : Photos \cup {Nil}]],
         mode : [Assets -> [row : BOOLEAN, file : {"none", "whole"}, key : Nat,
                            plain : {"none", "partial", "whole"}, thumb : BOOLEAN, small : BOOLEAN,
                            stuck : SUBSET {"full", "thumb"}]],
         vkey : Nat, mkey : Nat, last : Nat, lock : {Nil} \cup [pin : Pins, bio : BOOLEAN], bio : BOOLEAN]
(* At first every photo is somewhere, what is encrypted is so under the keys
   that are stored, and nothing is decrypted. *)
Filed(e, key) == e.plain = "none" /\ (e.row => e.file = "whole" /\ e.key = key /\ key # 0)
ASSUME DisksAssumption ==
  \A d \in VaultDisks :
    /\ d \in Disk
    /\ \A a \in d.media : a[2] <= d.saves[a[1]]
    /\ \A v \in VaultIds : Filed(d.vault[v], d.vkey) /\ (d.vault[v].row => d.vault[v].of # Nil)
    /\ \A a \in Assets : Filed(d.mode[a], d.mkey) /\ (IF d.mode[a].row THEN ~d.mode[a].small /\ d.mode[a].stuck = {}
                                                      ELSE d.mode[a] = NoCopy)
    /\ \A p \in Photos : \/ \E a \in d.media : a[1] = p
                         \/ \E v \in VaultIds : d.vault[v].row /\ d.vault[v].of = p
                         \/ \E a \in Assets : d.mode[a].row /\ a[1] = p

On(screen) == area = "vault" /\ app.screen = screen /\ app.dialog = Nil
FolderConfig(lock) == IF lock = Nil THEN [on |-> FALSE, pin |-> Nil, bio |-> FALSE]
                      ELSE [on |-> TRUE, pin |-> lock.pin, bio |-> lock.bio]
(* The key store answers, or it cannot be read and counts as empty. *)
StoreRead(stored, empty, read) == \/ read = stored /\ Calm
                                  \/ read = empty /\ stored # empty /\ Mishap

(* ------------------ what a change of state brings about ------------------ *)

(* The folder's list is loaded anew when any of these changes. *)
Deps(a) == <<a.folder.stage, a.unlocked, a.folder.config, a.stamp>>
Wanted(a) ==
  /\ a.screen = "locked"
  /\ a.folder.stage = "unlocked" \/ (a.folder.config # Nil /\ a.folder.config.on /\ a.unlocked)
GridJob(d, from) ==
  [Task("vgrid", SetToSeq({v \in VaultIds : d.vault[v].row})) EXCEPT !.id = d.legacy \cap d.media, !.from = from]
Reloads(a, d) == IF Wanted(a) /\ Deps(a) # Deps(app) THEN <<GridJob(d, Nil)>> ELSE <<>>
Previews(a, d) ==
  IF a.screen = "mode" /\ a.mode.unlocked /\ ~(app.screen = "mode" /\ app.mode.unlocked)
  THEN <<Task("previews", SetToSeq({x \in Assets : d.mode[x].row}))>> ELSE <<>>
(* The app becomes a and the files d, with js in flight. *)
Settles(a, d, js) ==
  LET new == Reloads(a, d) \o Previews(a, d)
      kept == IF app.mode.unlocked /\ ~a.mode.unlocked THEN Orphaned(js, {"previews"}) ELSE js IN
  /\ Len(kept) + Len(new) <= MaxJobs[area]
  /\ disk' = d /\ jobs' = kept \o new
  /\ app' = IF Reloads(a, d) = <<>> THEN a ELSE [a EXCEPT !.folder.loading = TRUE]
Shows(a) == Settles(a, disk, jobs) /\ UNCHANGED <<slips, erased>>
ShowsWith(a, js) == Settles(a, disk, jobs \o js) /\ UNCHANGED <<slips, erased>>
Finds(i, a) == Settles(a, disk, RemoveAt(jobs, i)) /\ UNCHANGED <<slips, erased>>

(* ------------------------ the folder: set-up, gates ---------------------- *)

OpenLocked == /\ On("gallery") /\ Act
              /\ ShowsWith([app EXCEPT !.screen = "locked", !.folder = [NoFolder EXCEPT !.stage = "loading"]],
                           <<Job("config")>>)
ConfigBack(i) ==
  /\ At(i, "config")
  /\ \E lock \in {disk.lock, Nil} :
       LET cfg == FolderConfig(lock) IN
       /\ StoreRead(disk.lock, Nil, lock)
       /\ Finds(i, IF ~jobs[i].live THEN app ELSE
            [app EXCEPT !.folder.config = cfg,
                        !.folder.stage = CASE ~cfg.on -> "setup-intro"
                                           [] cfg.on /\ cfg.bio /\ disk.bio -> "gate"
                                           [] OTHER -> "gate-pin"])
GridShown == app.folder.stage = "unlocked" \/ (app.folder.stage \in {"gate", "gate-pin"} /\ app.unlocked)
FolderControls ==
  IF GridShown THEN {"play", "unlock", "delete"} \cup
                    (IF app.folder.legacy # {} /\ ~app.folder.loading /\ ~app.folder.migrating
                     THEN {"migrate"} ELSE {})
  ELSE CASE app.folder.stage = "setup-intro" -> {"start"}
         [] app.folder.stage = "setup-pin" -> {"pin"}
         [] app.folder.stage = "setup-confirm" -> {"pin", "start"}
         [] app.folder.stage = "setup-biometric" -> {"biometric"}
         [] app.folder.stage = "gate" -> {"unlock with biometrics", "use pin"}
         [] app.folder.stage = "gate-pin" -> {"pin"} \cup (IF disk.bio /\ app.folder.config.bio
                                                           THEN {"use biometrics"} ELSE {})
         [] OTHER -> {}
InFolder(control) == On("locked") /\ control \in FolderControls
StartSetup == /\ InFolder("start") /\ Act
              /\ Shows([app EXCEPT !.folder.stage = "setup-pin", !.folder.first = Nil, !.folder.entered = FALSE])
(* The fourth digit starts a timer that reads this render's state. *)
EnterPin(pin) ==
  /\ InFolder("pin") /\ ~app.folder.entered /\ Act
  /\ ShowsWith([app EXCEPT !.folder.entered = TRUE],
               <<Ask("pin", [stage |-> app.folder.stage, pin |-> pin, first |-> app.folder.first])>>)
ErasePin == InFolder("pin") /\ app.folder.entered /\ Act /\ Shows([app EXCEPT !.folder.entered = FALSE])
Lives(i, a, b) == IF jobs[i].live THEN a ELSE b
SetupJob(pin, bio) == Ask("setup", [pin |-> pin, bio |-> bio])
PinTimer(i) ==
  LET j == jobs[i].arg
      clear == [app EXCEPT !.folder.entered = FALSE] IN
  /\ At(i, "pin") /\ Calm /\ UNCHANGED <<slips, erased>>
  /\ \/ /\ j.stage = "setup-pin"
        /\ Settles(Lives(i, [clear EXCEPT !.folder.first = j.pin, !.folder.stage = "setup-confirm"], app),
                   disk, RemoveAt(jobs, i))
     \/ /\ j.stage = "setup-confirm" /\ j.pin # j.first
        /\ Settles(Lives(i, [clear EXCEPT !.folder.first = Nil, !.folder.stage = "setup-pin"], app),
                   disk, RemoveAt(jobs, i))
     \/ /\ j.stage = "setup-confirm" /\ j.pin = j.first
        /\ IF disk.bio
           THEN Settles(Lives(i, [app EXCEPT !.folder.first = j.pin, !.folder.stage = "setup-biometric"], app),
                        disk, RemoveAt(jobs, i))
           ELSE Settles(app, disk, RemoveAt(jobs, i) \o <<SetupJob(j.pin, FALSE)>>)
     \/ /\ j.stage = "gate-pin"
        /\ LET a == IF disk.lock.pin = j.pin THEN [app EXCEPT !.unlocked = TRUE] ELSE app IN
           Settles(Lives(i, [a EXCEPT !.folder.entered = FALSE,
                                      !.folder.stage = IF disk.lock.pin = j.pin THEN "unlocked" ELSE @], a),
                   disk, RemoveAt(jobs, i))
ChooseBiometric(bio) == /\ InFolder("biometric") /\ Act
                        /\ ShowsWith(app, <<SetupJob(app.folder.first, bio)>>)
SetupWritten(i) ==
  LET lock == [pin |-> jobs[i].arg.pin, bio |-> jobs[i].arg.bio]
      a == [app EXCEPT !.unlocked = TRUE] IN
  /\ At(i, "setup") /\ Calm /\ UNCHANGED <<slips, erased>>
  /\ Settles(Lives(i, [a EXCEPT !.folder.config = FolderConfig(lock), !.folder.stage = "unlocked"], a),
             [disk EXCEPT !.lock = lock], RemoveAt(jobs, i))
TryBiometric == InFolder("unlock with biometrics") /\ Act /\ ShowsWith(app, <<Job("bio")>>)
BioBack(i) ==
  /\ At(i, "bio")
  /\ \/ /\ Calm
        /\ Finds(i, Lives(i, [app EXCEPT !.unlocked = TRUE, !.folder.stage = "unlocked"],
                             [app EXCEPT !.unlocked = TRUE]))
     \/ Mishap /\ Finds(i, app)
SwitchGate ==
  /\ Act
  /\ \/ InFolder("use pin") /\ Shows([app EXCEPT !.folder.stage = "gate-pin"])
     \/ InFolder("use biometrics") /\ Shows([app EXCEPT !.folder.stage = "gate"])

(* --------------------- the hidden grid, the bulk actions ----------------- *)

Dialog(kind, ids, photos, right) == [kind |-> kind, ids |-> ids, photos |-> photos, right |-> right]
Picks == {s \in (SUBSET app.folder.items) \X (SUBSET app.folder.legacy) : s # <<{}, {}>>}
RunMigration == /\ InFolder("migrate") /\ Act
                /\ Shows([app EXCEPT !.dialog = Dialog("migrate", {}, {}, TRUE)])
LockedDelete(s) == /\ InFolder("delete") /\ ~app.folder.loading /\ Act
                   /\ Shows([app EXCEPT !.dialog = Dialog("delete", s[1], s[2], TRUE)])
(* Hide-only items are let go at once, vault items one by one. *)
Refreshed(a, d) == [a EXCEPT !.stamp = Cardinality(d.legacy)]
Delisted(a, ids, photos) == [a EXCEPT !.folder.items = @ \ ids, !.folder.legacy = @ \ photos]
LockedUnlock(s) ==
  LET d == [disk EXCEPT !.legacy = @ \ s[2]]
      a == IF s[2] = {} THEN app ELSE Refreshed(app, d) IN
  /\ InFolder("unlock") /\ ~app.folder.loading /\ Act /\ UNCHANGED <<slips, erased>>
  /\ IF s[1] = {} THEN Settles(Delisted(a, {}, s[2]), d, jobs)
     ELSE Settles(a, d, jobs \o <<[Task("export", SetToSeq(s[1])) EXCEPT !.id = s[2]]>>)
ExportOver(i) == Over(i, "export") /\ Calm
                 /\ Finds(i, Lives(i, Delisted(app, jobs[i].all, jobs[i].id), app))
PlayVideo(v) == /\ InFolder("play") /\ ~app.folder.loading /\ v \in app.folder.items
                /\ disk.vault[v].of \in Videos /\ Act
                /\ ShowsWith(app, <<Task("play", <<v>>)>>)
GridOver(i) ==
  /\ Over(i, "vgrid") /\ Calm
  /\ Finds(i, Lives(i, [app EXCEPT !.folder.items = jobs[i].all, !.folder.legacy = jobs[i].id,
                                   !.folder.loading = FALSE,
                                   !.folder.migrating = @ /\ jobs[i].from # "migrate"], app))
(* After a migration the store and the list are refreshed. *)
ImportOver(i) ==
  LET j == jobs[i]
      reload == [GridJob(disk, "migrate") EXCEPT !.live = j.live] IN
  /\ Over(i, "import") /\ Calm /\ UNCHANGED <<slips, erased>>
  /\ IF j.from = "migrate"
     THEN Settles(Lives(i, [Refreshed(app, disk) EXCEPT !.folder.loading = TRUE], Refreshed(app, disk)),
                  disk, RemoveAt(jobs, i) \o <<reload>>)
     ELSE Settles(app, disk, RemoveAt(jobs, i))
Removal(photos) == Ask("remove", photos)
RemoveBack(i) ==
  LET gone == jobs[i].arg
      d == [disk EXCEPT !.media = @ \ gone, !.legacy = @ \ gone] IN
  /\ At(i, "remove")
  /\ \/ /\ Calm /\ erased' = erased \cup {x[1] : x \in gone} /\ UNCHANGED slips
        /\ Settles(Delisted(Refreshed(app, d), {}, gone), d, RemoveAt(jobs, i))
     \/ Mishap /\ Finds(i, app)
(* A variant that leaves the folder as it was under the gallery. *)
GoneShown(a) == [a EXCEPT !.screen = "gallery"]
(* Going back, wherever the user is by then. *)
Gone(a) == [a EXCEPT !.screen = "gallery", !.folder = NoFolder]
Unmounted(js) == Orphaned(js, {"config", "pin", "setup", "bio", "vgrid", "import", "export",
                               "previews", "enable", "disable", "unlock"})
CloseLocked == /\ On("locked") /\ Act /\ UNCHANGED <<slips, erased>>
               /\ Settles(Gone(app), disk, Unmounted(jobs))

GalleryPhotos == disk.media \ disk.legacy
GalleryMove(s) == /\ On("gallery") /\ s # {} /\ s \subseteq GalleryPhotos /\ Act
                  /\ ShowsWith(app, <<Ask("ask", s)>>)
(* A new question settles the one before it as declined. *)
AskBack(i) ==
  /\ At(i, "ask")
  /\ \E lock \in {disk.lock, Nil} :
       /\ StoreRead(disk.lock, Nil, lock)
       /\ Finds(i, IF lock = Nil THEN app
                   ELSE [app EXCEPT !.dialog = Dialog("move", {}, jobs[i].arg, TRUE)])
GalleryRemove(s) == /\ On("gallery") /\ s # {} /\ s \subseteq GalleryPhotos /\ Act
                    /\ ShowsWith(app, <<Removal(s)>>)
Confirm(accepted) ==
  LET q == app.dialog
      a == [app EXCEPT !.dialog = Nil] IN
  /\ area = "vault" /\ q # Nil /\ Act
  /\ \/ ~accepted /\ Shows(a)
     \/ /\ accepted /\ q.kind = "migrate"
        /\ ShowsWith([a EXCEPT !.folder.migrating = TRUE],
                     <<[Task("import", SetToSeq(disk.legacy \cap disk.media)) EXCEPT !.from = "migrate"]>>)
     \/ accepted /\ q.kind = "move" /\ ShowsWith(a, <<Task("import", SetToSeq(q.photos))>>)
     \/ /\ accepted /\ q.kind = "delete"
        /\ Settles(Delisted(a, q.ids, {}), VaultErased(disk, q.ids),
                   jobs \o IF q.photos = {} THEN <<>> ELSE <<Removal(q.photos)>>)
        /\ erased' = erased \cup {disk.vault[v].of : v \in q.ids}
        /\ UNCHANGED slips
     \/ /\ accepted /\ q.kind = "disable"
        /\ IF a.mode.migrating THEN Shows(a)
           ELSE ShowsWith([a EXCEPT !.busy = TRUE],
                          <<[Task("disable", <<>>) EXCEPT !.at = "check", !.id = q.right]>>)

(* --------------------------- the encrypted mode -------------------------- *)

OpenMode == /\ On("gallery") /\ Act
            /\ ShowsWith([app EXCEPT !.screen = "mode", !.busy = FALSE, !.grid = {}], <<Job("refresh")>>)
CloseMode == /\ On("mode") /\ Act /\ UNCHANGED <<slips, erased>>
             /\ Settles(Gone(app), disk, Unmounted(jobs))
RefreshBack(i) ==
  /\ At(i, "refresh")
  /\ \E key \in {disk.mkey, 0} :
       /\ StoreRead(disk.mkey, 0, key)
       /\ Finds(i, [app EXCEPT !.mode.enabled = key # 0, !.mode.unlocked = key # 0 /\ app.mkey # 0])
ModeShown == CASE app.mode.migrating \/ app.busy -> "progress"
               [] OTHER -> IF ~app.mode.enabled THEN "intro" ELSE IF ~app.mode.unlocked THEN "gate" ELSE "grid"
InMode(shown) == On("mode") /\ ModeShown = shown
EnableMode ==
  /\ InMode("intro") /\ Act
  /\ ShowsWith([app EXCEPT !.busy = TRUE, !.mode.migrating = TRUE, !.mode.error = FALSE],
               <<[Task("enable", <<>>) EXCEPT !.at = "setup"]>>)
Unbusy(i, a) == [a EXCEPT !.busy = @ /\ ~jobs[i].live]
EnableFailed(i) == /\ Step(i, "enable", "setup") /\ Mishap
                   /\ Finds(i, Unbusy(i, [app EXCEPT !.mode.migrating = FALSE, !.mode.error = TRUE]))
(* It ends unlocked even if the session was locked meanwhile. *)
EnableOver(i) ==
  /\ Over(i, "enable") /\ Calm /\ UNCHANGED <<slips, erased>>
  /\ Settles(Unbusy(i, [Gone(app) EXCEPT !.mode = [enabled |-> TRUE, unlocked |-> TRUE, migrating |-> FALSE,
                                                    error |-> jobs[i].bad > 0]]),
             disk, Unmounted(RemoveAt(jobs, i)))
UnlockMode(right) ==
  /\ InMode("gate") /\ Act
  /\ ShowsWith([app EXCEPT !.busy = TRUE], <<Ask("unlock", right)>>)
UnlockBack(i) ==
  /\ At(i, "unlock")
  /\ \E key \in {disk.mkey, 0} :
       LET ok == key # 0 /\ jobs[i].arg IN
       /\ StoreRead(disk.mkey, 0, key)
       /\ Finds(i, Unbusy(i, [app EXCEPT !.mkey = IF ok THEN key ELSE @, !.mode.unlocked = ok,
                                         !.mode.error = ~ok]))
DisableMode(right) == /\ InMode("gate") /\ Act
                      /\ Shows([app EXCEPT !.dialog = Dialog("disable", {}, {}, right)])
(* Whether a migration runs was asked before the password was checked. *)
DisableChecked(i) ==
  /\ Step(i, "disable", "check") /\ UNCHANGED erased
  /\ \E key \in {disk.mkey, 0} :
       /\ StoreRead(disk.mkey, 0, key)
       /\ IF key # 0 /\ jobs[i].id
          THEN /\ slips' = IF app.mode.migrating THEN slips \cup {"crossed"} ELSE slips
               /\ Settles([app EXCEPT !.mkey = key, !.mode.migrating = TRUE, !.mode.error = FALSE], disk,
                          [jobs EXCEPT ![i] = [@ EXCEPT !.at = "item", !.todo = SetToSeq(Copies)]])
          ELSE Settles(Unbusy(i, [app EXCEPT !.mode.error = TRUE]), disk, RemoveAt(jobs, i)) /\ UNCHANGED slips
(* A variant that drops the key whatever could not be restored. *)
DestroysAlways(bad) == TRUE
(* The key goes only once every photo is back. *)
Destroys(bad) == bad = 0
DisableOver(i) ==
  LET bad == jobs[i].bad
      a == [app EXCEPT !.mode.migrating = FALSE] IN
  /\ Over(i, "disable") /\ Calm /\ UNCHANGED <<slips, erased>>
  /\ IF Destroys(bad)
     THEN Settles(Unbusy(i, [Gone(a) EXCEPT !.mkey = 0, !.mode.enabled = FALSE, !.mode.unlocked = FALSE]),
                  [disk EXCEPT !.mkey = 0], Unmounted(RemoveAt(jobs, i)))
     ELSE Settles(Unbusy(i, [a EXCEPT !.mode.error = TRUE]), disk, RemoveAt(jobs, i))
(* A variant that forgets the key but not what was decrypted with it. *)
LockedKept(d, left) == d
(* Locking forgets the key and everything decrypted with it that can be
   deleted; what cannot counts as one mishap. *)
Locked(d, left) == CopiesPurged(d, left)
LockedMode(a) == [a EXCEPT !.mkey = 0, !.mode.unlocked = FALSE]
Purging(fails) ==
  /\ acts < MaxActs[area] /\ acts' = acts + 1 /\ UNCHANGED area
  /\ \/ ~fails /\ UNCHANGED mishaps
     \/ fails /\ mishaps < MaxMishaps /\ mishaps' = mishaps + 1
LockMode(left) ==
  /\ InMode("grid") /\ left \subseteq Decrypted(disk) /\ Purging(left # {}) /\ UNCHANGED <<slips, erased>>
  /\ Settles(LockedMode(app), Locked(disk, left), jobs)
OpenOriginal(p) ==
  /\ InMode("grid") /\ p \in app.grid /\ app.mkey # 0 /\ Act /\ UNCHANGED <<slips, erased>>
  /\ Settles(app, [disk EXCEPT !.mode[p] = Opened(@, app.mkey)], jobs)
PreviewsOver(i) == /\ Over(i, "previews") /\ Calm
                   /\ Finds(i, Lives(i, [app EXCEPT !.grid = jobs[i].all], app))

(* ---------------------- the app comes and goes --------------------------- *)

Background(left, entries) ==
  /\ area = "vault" /\ left \subseteq Decrypted(disk) /\ entries \subseteq DecryptedEntries(disk)
  /\ Purging(left # {} \/ entries # {}) /\ UNCHANGED <<slips, erased>>
  /\ Settles([LockedMode(app) EXCEPT !.unlocked = FALSE], PlainsPurged(Locked(disk, left), entries), jobs)
Crash == /\ area = "vault" /\ Mishap
         /\ app' = Refreshed(NoApp, disk) /\ jobs' = <<>>
         /\ slips' = slips \cup {"crash"} /\ UNCHANGED <<disk, erased>>

VaultInit == /\ disk \in VaultDisks /\ app = Refreshed(NoApp, disk)
             /\ slips = {} /\ erased = {} /\ jobs = <<>>
VaultIdle == /\ disk = [media |-> {}, saves |-> [p \in Photos |-> 0], legacy |-> {}, vault |-> [v \in VaultIds |-> NoEntry],
                        mode |-> [x \in Assets |-> NoCopy], vkey |-> 0, mkey |-> 0, last |-> 0,
                        lock |-> Nil, bio |-> FALSE]
             /\ app = NoApp /\ slips = {} /\ erased = {}
VaultScreenNext ==
  \/ OpenLocked \/ StartSetup \/ (\E p \in Pins : EnterPin(p)) \/ ErasePin
  \/ (\E b \in BOOLEAN : ChooseBiometric(b)) \/ TryBiometric \/ SwitchGate \/ CloseLocked
  \/ RunMigration \/ (\E s \in Picks : LockedDelete(s) \/ LockedUnlock(s)) \/ \E v \in VaultIds : PlayVideo(v)
  \/ (\E s \in SUBSET disk.media : GalleryMove(s) \/ GalleryRemove(s)) \/ \E ok \in BOOLEAN : Confirm(ok)
  \/ OpenMode \/ CloseMode \/ EnableMode \/ (\E r \in BOOLEAN : UnlockMode(r) \/ DisableMode(r))
  \/ (\E x \in Assets : OpenOriginal(x)) \/ Crash
  \/ \E left \in SUBSET Decrypted(disk) :
       LockMode(left) \/ \E entries \in SUBSET DecryptedEntries(disk) : Background(left, entries)
VaultAnswers ==
  \E i \in DOMAIN jobs :
    \/ ConfigBack(i) \/ PinTimer(i) \/ SetupWritten(i) \/ BioBack(i)
    \/ ExportOver(i) \/ GridOver(i) \/ ImportOver(i) \/ RemoveBack(i) \/ AskBack(i)
    \/ RefreshBack(i) \/ EnableFailed(i) \/ EnableOver(i) \/ UnlockBack(i)
    \/ DisableChecked(i) \/ DisableOver(i) \/ PreviewsOver(i)
VaultNext == area = "vault" /\ (VaultSteps \/ VaultScreenNext \/ VaultAnswers)

VaultTypeOK ==
  /\ disk \in Disk /\ app.grid \subseteq Assets
  /\ \A v \in VaultIds : disk.vault[v].row => disk.vault[v].file = "whole"
  /\ app.screen \in {"gallery", "locked", "mode"} /\ (app.folder.stage # "none" => app.screen = "locked")
  /\ slips \subseteq {"rekeyed", "partial", "crossed", "crash"}

InVaultOf(p) == \E v \in Rows : disk.vault[v].of = p /\ disk.vault[v].file = "whole" /\ disk.vault[v].key = disk.vkey
InCopyOf(p) == \E x \in Copies : x[1] = p /\ disk.mode[x].file = "whole" /\ disk.mode[x].key = disk.mkey
InLibrary(p) == \E x \in disk.media : x[1] = p
(* Whatever was begun, refused, failed, cut off by a lock or by the end of
   the app, a photo the user did not delete is in the device library, or
   encrypted under the key that is stored.  Three slips of the code lose
   photos and are set apart: a key store that cannot be read gets a new key,
   a plaintext cut short is taken as whole, and the encrypted mode may be
   disabled while it is being enabled, which drops the key of both. *)
NothingLost ==
  (area = "vault" /\ slips \cap {"rekeyed", "partial", "crossed"} = {}) =>
    \A p \in Photos \ erased : InLibrary(p) \/ InVaultOf(p) \/ InCopyOf(p)
(* While the encrypted mode is locked, nothing decrypted with its key is on
   the device but the files the last lock could not delete: no migration,
   preview or viewer that was running writes one after it.  Only a crash
   leaves others behind, until the next lock, or two migrations at once. *)
ModePlaintextGone ==
  (app.mkey = 0 /\ slips \cap {"crash", "crossed"} = {}) =>
    \A x \in Assets : /\ disk.mode[x].plain # "none" => "full" \in disk.mode[x].stuck
                      /\ disk.mode[x].small => "thumb" \in disk.mode[x].stuck
=============================================================================
