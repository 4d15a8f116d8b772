----------------------------- MODULE MCWebPages -----------------------------
(* The pages on which the web client edits: the browser shows one of them, *)
(* and they meet in nothing but the cache, which WebCache models.          *)
EXTENDS ConfigForms, AppPages, ServicePages, LogView, NodeEditing, BackupPages, Assets,
        AddDialog, DomainTests

CONSTANT Pages   \* the pages that are explored

VARIABLE page    \* the one the browser shows

pageVars == <<page, formVars, appVars, svcVars, logVars, nodeVars, backupVars, assetVars, addVars, testVars>>

(* What a page that is not shown could begin with makes no difference.     *)
Init ==
    /\ page \in Pages
    /\ FormInit /\ (page # "form" => shown = "dns")
    /\ AppsInit /\ (page # "apps" => home = CHOOSE h \in Homes : TRUE)
    /\ SvcInit
    /\ LogInit
    /\ EditInit /\ (page # "nodes" => filterRole = CHOOSE r \in FilterRoles : TRUE)
    /\ BackupsInit
    /\ AssetInit
    /\ AddInit /\ (page # "add" => preset = Blank)
    /\ TestsInit

(* Only the page that is shown takes a step.                               *)
Next ==
    /\ UNCHANGED page
    /\ \/ /\ page = "form" /\ FormNext
          /\ UNCHANGED <<appVars, svcVars, logVars, nodeVars, backupVars, assetVars, addVars, testVars>>
       \/ /\ page = "apps" /\ AppsNext
          /\ UNCHANGED <<formVars, svcVars, logVars, nodeVars, backupVars, assetVars, addVars, testVars>>
       \/ /\ page = "services" /\ SvcNext
          /\ UNCHANGED <<formVars, appVars, logVars, nodeVars, backupVars, assetVars, addVars, testVars>>
       \/ /\ page = "logs" /\ LogNext
          /\ UNCHANGED <<formVars, appVars, svcVars, nodeVars, backupVars, assetVars, addVars, testVars>>
       \/ /\ page = "nodes" /\ NodeNext
          /\ UNCHANGED <<formVars, appVars, svcVars, logVars, backupVars, assetVars, addVars, testVars>>
       \/ /\ page = "backups" /\ BackupsNext
          /\ UNCHANGED <<formVars, appVars, svcVars, logVars, nodeVars, assetVars, addVars, testVars>>
       \/ /\ page = "assets" /\ AssetNext
          /\ UNCHANGED <<formVars, appVars, svcVars, logVars, nodeVars, backupVars, addVars, testVars>>
       \/ /\ page = "add" /\ AddNext
          /\ UNCHANGED <<formVars, appVars, svcVars, logVars, nodeVars, backupVars, assetVars, testVars>>
       \/ /\ page = "domains" /\ TestsNext
          /\ UNCHANGED <<formVars, appVars, svcVars, logVars, nodeVars, backupVars, assetVars, addVars>>

Spec == Init /\ [][Next]_pageVars

-----------------------------------------------------------------------------
(* Lists of nodes with every way to count: one without an address, numbers *)
(* with a gap, three control planes, a worker that is named control-1.     *)
Name(prefixed, stem, n) == [prefixed |-> prefixed, stem |-> stem, n |-> n]
Listed(hostname, role, octet) == [hostname |-> hostname, role |-> role, octet |-> octet]

MCInventories ==
    LET c1 == Listed(Name(TRUE, "control", 1), "controlplane", 0)
        c2 == Listed(Name(TRUE, "control", 2), "controlplane", 32)
        c3 == Listed(Name(FALSE, "control", 3), "controlplane", 31)
        w1 == Listed(Name(TRUE, "worker", 1), "worker", 0)
        w2 == Listed(Name(TRUE, "control", 1), "worker", 33)
    IN  {{c1, c2}, {c1, c2, c3, w1}, {c2, w1, w2}}

MCKinds == <<"iso">>
MCVersionOf == [p \in AssetPages |-> 1]

MCTypedNames == {Name(FALSE, "control", 7), Name(FALSE, "custom", 0)}
=============================================================================
