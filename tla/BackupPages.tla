----------------------------- MODULE BackupPages -----------------------------
(***************************************************************************)
(* The backups page of the web client (BackupsPage.tsx): the dialogs that  *)
(* ask for a backup of an app (CreateBackupModal) and for a restore of one *)
(* (BackupRestoreModal), and the requests they make.                       *)
(*                                                                         *)
(* The dialogs are mounted with the page, shown or not, and keep what was  *)
(* chosen in them.  A backup is a mutation without a key: when its request *)
(* has failed it is made once more, a second later, for the instance on    *)
(* screen and the app in the dialog by then.  A restore is a plain request *)
(* to the instance on screen.  Which instance that is makes no difference  *)
(* to the page, which stays when it changes, and is left out; which apps   *)
(* and backups there are is free.                                          *)
(***************************************************************************)
EXTENDS Naturals, FiniteSets

CONSTANTS
    BackupApps,
    MaxBackups    \* bound: backups under way, and timers

ASSUME BackupsAssumption == MaxBackups \in Nat

NoneChosen == "none"

VARIABLES
    onBackups,   \* the page is mounted
    named,       \* the app the address names
    createOpen, createApp,   \* the dialog of a backup, the app chosen in it
    timers,      \* its timers of half a second, each to clear and close it
    backups,     \* chosen = the app when Create was clicked; app = what the last request said
    selectedBackup, selectedAppForRestore,   \* the page's: apps of backups that were clicked
    detailsOpen,
    restoreOpen, restoreApp, \* the dialog of a restore, its own app
    picked,      \* it has a timestamp: of any app's backup, and never forgotten
    restoring,   \* the page takes a restore to be under way
    restores     \* those the mounted page asked for; shown = the app the dialog showed

backupVars == <<onBackups, named, createOpen, createApp, timers, backups,
                selectedBackup, selectedAppForRestore, detailsOpen, restoreOpen, restoreApp, picked, restoring,
                restores>>
whereVars == <<onBackups, named>>
createVars == <<createOpen, createApp, timers, backups>>
restoreVars == <<selectedBackup, selectedAppForRestore, detailsOpen, restoreOpen, restoreApp, picked, restoring,
                 restores>>

Creating == \E b \in backups : b.here   \* isCreatingBackup

BackupsInit ==
    /\ onBackups = FALSE /\ named = NoneChosen
    /\ createOpen = FALSE /\ createApp = NoneChosen /\ timers = 0 /\ backups = {}
    /\ selectedBackup = NoneChosen /\ selectedAppForRestore = NoneChosen /\ detailsOpen = FALSE
    /\ restoreOpen = FALSE /\ restoreApp = NoneChosen /\ picked = FALSE
    /\ restoring = FALSE /\ restores = {}

VisitBackups(a) ==
    /\ ~onBackups /\ onBackups' = TRUE
    /\ named' = a /\ createApp' = a
    /\ UNCHANGED <<createOpen, timers, backups, restoreVars>>

LeaveBackups ==
    /\ onBackups /\ onBackups' = FALSE /\ named' = NoneChosen
    /\ createOpen' = FALSE /\ createApp' = NoneChosen /\ timers' = 0
    /\ backups' = {IF b.here THEN [b EXCEPT !.here = FALSE, !.next = createApp] ELSE b : b \in backups}
    /\ selectedBackup' = NoneChosen /\ selectedAppForRestore' = NoneChosen /\ detailsOpen' = FALSE
    /\ restoreOpen' = FALSE /\ restoreApp' = NoneChosen /\ picked' = FALSE /\ restoring' = FALSE
    /\ restores' = {}   \* a page that is gone does nothing at the answer

(* The browser goes back or forward: the app the address then names, if    *)
(* any, is chosen in the dialog of a backup.                               *)
AddressNames(a) ==
    /\ onBackups /\ a # named /\ named' = a
    /\ createApp' = IF a = NoneChosen THEN createApp ELSE a
    /\ backups' = {[b EXCEPT !.readdressed = @ \/ (b.here /\ a # NoneChosen)] : b \in backups}
    /\ UNCHANGED <<onBackups, createOpen, timers, restoreVars>>

-----------------------------------------------------------------------------
(* CreateBackupModal.                                                      *)
Modal == createOpen \/ restoreOpen \/ detailsOpen   \* nothing else can be clicked

OpenCreate ==
    /\ onBackups /\ ~Modal /\ createOpen' = TRUE
    /\ UNCHANGED <<whereVars, createApp, timers, backups, restoreVars>>

ChooseAppAlways(a) ==   \* mutant
    /\ createOpen /\ createApp' = a
    /\ UNCHANGED <<whereVars, createOpen, timers, backups, restoreVars>>
ChooseApp(a) ==
    /\ createOpen /\ ~Creating /\ createApp' = a
    /\ UNCHANGED <<whereVars, createOpen, timers, backups, restoreVars>>

CreateOffered == createOpen /\ createApp # NoneChosen /\ ~Creating

HandleCreate ==
    /\ CreateOffered
    /\ Cardinality(backups) < MaxBackups /\ timers < MaxBackups
    /\ backups' = backups \cup {[chosen |-> createApp, app |-> createApp, tries |-> 1, waits |-> FALSE,
                                 here |-> TRUE, next |-> NoneChosen, readdressed |-> FALSE]}
    /\ timers' = timers + 1
    /\ UNCHANGED <<whereVars, createOpen, createApp, restoreVars>>

(* Also of a dialog that was closed and opened again meanwhile.            *)
TimerCloses ==
    /\ timers > 0 /\ timers' = timers - 1
    /\ createApp' = NoneChosen /\ createOpen' = FALSE
    /\ UNCHANGED <<whereVars, backups, restoreVars>>

(* Escape closes it even while Cancel is disabled.                         *)
HandleClose ==
    /\ createOpen /\ createOpen' = FALSE /\ createApp' = NoneChosen
    /\ UNCHANGED <<whereVars, timers, backups, restoreVars>>

BackupEnds(b) ==
    /\ ~b.waits /\ backups' = backups \ {b}
    /\ UNCHANGED <<whereVars, createOpen, createApp, timers, restoreVars>>

BackupFails(b) ==
    /\ ~b.waits
    /\ backups' = (backups \ {b}) \cup (IF b.tries = 1 THEN {[b EXCEPT !.waits = TRUE]} ELSE {})
    /\ UNCHANGED <<whereVars, createOpen, createApp, timers, restoreVars>>

(* The second a retry waits is longer than the timer's half.  A page that  *)
(* is gone leaves its request what its dialog had last.                    *)
BackupRetried(b) ==
    /\ b.waits /\ (b.here => timers = 0)
    /\ backups' = (backups \ {b})
                  \cup {[b EXCEPT !.waits = FALSE, !.tries = 2, !.app = IF b.here THEN createApp ELSE b.next]}
    /\ UNCHANGED <<whereVars, createOpen, createApp, timers, restoreVars>>

-----------------------------------------------------------------------------
(* BackupRestoreModal, and BackupDetailsModal that leads to it.  An effect *)
(* takes the app the page names to be the one of the dialog.               *)
Named(app, backup) == IF app # NoneChosen THEN app ELSE backup
AppName == Named(selectedAppForRestore, selectedBackup)

Select(app, backup) ==
    /\ selectedAppForRestore' = app /\ selectedBackup' = backup
    /\ restoreApp' = IF Named(app, backup) \in {NoneChosen, AppName} THEN restoreApp ELSE Named(app, backup)

OpenDetails(a) ==
    /\ onBackups /\ ~Modal /\ detailsOpen' = TRUE
    /\ Select(selectedAppForRestore, a)
    /\ UNCHANGED <<whereVars, createVars, restoreOpen, picked, restoring, restores>>

CloseDetails ==
    /\ detailsOpen /\ detailsOpen' = FALSE
    /\ UNCHANGED <<whereVars, createVars, selectedBackup, selectedAppForRestore, restoreOpen, restoreApp, picked,
                   restoring, restores>>

HandleRestore(a) == Select(a, a) /\ restoreOpen' = TRUE

RestoreFromRow(a) ==
    /\ onBackups /\ ~Modal /\ HandleRestore(a)
    /\ UNCHANGED <<whereVars, createVars, detailsOpen, picked, restoring, restores>>

RestoreFromDetails ==
    /\ detailsOpen /\ ~createOpen /\ ~restoreOpen
    /\ HandleRestore(selectedBackup) /\ detailsOpen' = FALSE
    /\ UNCHANGED <<whereVars, createVars, picked, restoring, restores>>

OpenRestore ==
    /\ onBackups /\ ~Modal /\ restoreOpen' = TRUE
    /\ Select(NoneChosen, NoneChosen)
    /\ UNCHANGED <<whereVars, createVars, detailsOpen, picked, restoring, restores>>

(* The app can be chosen when the page names none.                         *)
ChooseRestoreApp(a) ==
    /\ restoreOpen /\ AppName = NoneChosen /\ restoreApp' = a
    /\ UNCHANGED <<whereVars, createVars, selectedBackup, selectedAppForRestore, detailsOpen, restoreOpen, picked,
                   restoring, restores>>

PickBackup ==
    /\ restoreOpen /\ restoreApp # NoneChosen /\ picked' = TRUE
    /\ UNCHANGED <<whereVars, createVars, selectedBackup, selectedAppForRestore, detailsOpen, restoreOpen,
                   restoreApp, restoring, restores>>

RestoreOffered == restoreOpen /\ picked /\ restoreApp # NoneChosen /\ ~restoring

HandleConfirm ==
    /\ RestoreOffered
    /\ restoring' = TRUE
    /\ restores' = restores \cup {[app |-> restoreApp, shown |-> Named(AppName, restoreApp)]}
    /\ restoreOpen' = FALSE /\ Select(NoneChosen, NoneChosen)
    /\ UNCHANGED <<whereVars, createVars, detailsOpen, picked>>

(* Escape closes it even while Cancel is disabled.                         *)
CloseRestore ==
    /\ restoreOpen /\ restoreOpen' = FALSE /\ Select(NoneChosen, NoneChosen)
    /\ UNCHANGED <<whereVars, createVars, detailsOpen, picked, restoring, restores>>

(* The answer closes the dialog, if it was opened again, as the user does  *)
(* not: the page goes on naming the app.                                   *)
RestoreEnds(r, ok) ==
    /\ restores' = restores \ {r}
    /\ restoring' = FALSE
    /\ restoreOpen' = (restoreOpen /\ ~ok)
    /\ UNCHANGED <<whereVars, createVars, selectedBackup, selectedAppForRestore, detailsOpen, restoreApp, picked>>

BackupsNext ==
    \/ LeaveBackups \/ OpenCreate \/ HandleCreate \/ TimerCloses \/ HandleClose
    \/ CloseDetails \/ RestoreFromDetails \/ OpenRestore \/ PickBackup \/ HandleConfirm \/ CloseRestore
    \/ \E a \in BackupApps \cup {NoneChosen} : VisitBackups(a) \/ AddressNames(a)
    \/ \E a \in BackupApps : ChooseApp(a) \/ OpenDetails(a) \/ RestoreFromRow(a) \/ ChooseRestoreApp(a)
    \/ \E b \in backups : BackupEnds(b) \/ BackupFails(b) \/ BackupRetried(b)
    \/ \E r \in restores : RestoreEnds(r, TRUE) \/ RestoreEnds(r, FALSE)

BackupsSpec == BackupsInit /\ [][BackupsNext]_backupVars

-----------------------------------------------------------------------------
(* A backup is asked of the app that was chosen, or, when it is asked once *)
(* more, of no app at all: never of another's, unless the address came to  *)
(* name one meanwhile.  A restore is of the app its dialog showed, in      *)
(* whatever order backups were looked at, dialogs closed and apps chosen;  *)
(* and the page does not ask for two at a time.                            *)
BackupIsOfTheChosen == \A b \in backups : b.app \in {b.chosen, NoneChosen} \/ b.readdressed
RestoreIsOfTheShown == Cardinality(restores) <= 1 /\ \A r \in restores : r.app = r.shown
BackupsAsAsked == BackupIsOfTheChosen /\ RestoreIsOfTheShown
=============================================================================
