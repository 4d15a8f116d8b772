------------------------------- MODULE Assets -------------------------------
(***************************************************************************)
(* Boot assets: the downloads the daemon makes (internal/assets) and the   *)
(* web client's pages that ask for them: the ISO page of an instance, and  *)
(* the pages at /iso and /pxe.  One schematic, one platform.               *)
(*                                                                         *)
(* A download is answered when it is over.  It writes a temporary file and *)
(* renames it; nothing keeps two downloads from writing the same one.  The *)
(* client makes a request that failed, or whose answer was lost, once more *)
(* while the daemon may still be at the first.                             *)
(***************************************************************************)
EXTENDS Naturals, FiniteSets, Sequences, SequencesExt

CONSTANTS
    Kinds,         \* the kinds of asset, in the order in which all of them are downloaded
    VersionOf,     \* page -> the version selected on it: a number, in the order of the list
    Pieces,        \* bound: the pieces in which a file is copied
    MaxDownloads   \* bound: downloads the daemon is at

ASSUME DownloadsAssumption == Pieces \in Nat \ {0} /\ MaxDownloads \in Nat

AssetPages == {"isoPage", "assetsIso", "assetsPxe"}
Versions == {VersionOf[p] : p \in AssetPages}
Files == Versions \X ToSet(Kinds)
Absent == {0}
Complete == 1..Pieces

VARIABLES
    screen,      \* the page on screen
    listed,      \* what was last read of the assets: their versions, and those whose ISO is there
    refreshing,  \* the ISO page waits for the list before it frees its button
    downloads,   \* what the daemon is at; client = who still waits: the page on screen, one that was left, none
    tmp, final,  \* file -> the pieces in it
    made,        \* the versions that have a directory
    overlapped,     \* auxiliary: files that two downloads wrote at a time
    strayed      \* auxiliary: a page was left during its request, or an answer was lost

assetVars == <<screen, listed, refreshing, downloads, tmp, final, made, overlapped, strayed>>
screenVars == <<screen, listed, refreshing>>
diskVars == <<tmp, final, made>>

There == {f \in Files : final[f] # Absent}
Waiting == \E d \in downloads : d.client = "page"
FileOf(d) == <<d.version, Head(d.kinds)>>

AssetInit ==
    /\ screen = "none" /\ listed = [versions |-> {}, isos |-> {}] /\ refreshing = FALSE
    /\ downloads = {}
    /\ tmp = [f \in Files |-> Absent] /\ final = [f \in Files |-> Absent] /\ made = {}
    /\ overlapped = {} /\ strayed = FALSE

VisitAssets(p) ==
    /\ screen = "none" /\ screen' = p
    /\ UNCHANGED <<listed, refreshing, downloads, diskVars, overlapped, strayed>>

LeaveAssets ==
    /\ screen # "none" /\ screen' = "none" /\ refreshing' = FALSE
    /\ downloads' = {IF d.client = "page" THEN [d EXCEPT !.client = "left"] ELSE d : d \in downloads}
    /\ strayed' = (strayed \/ Waiting)
    /\ UNCHANGED <<listed, diskVars, overlapped>>

ListRead ==
    /\ screen # "none"
    /\ listed' = [versions |-> made, isos |-> {v \in made : <<v, "iso">> \in There}]
    /\ refreshing' = FALSE
    /\ UNCHANGED <<screen, downloads, diskVars, overlapped, strayed>>

(* The pages at /iso and /pxe show the first version of the list and ask   *)
(* for the selected one.  /pxe also shows the other platform's assets,     *)
(* which nobody downloads: it always has some to offer.                    *)
IsoPageOffers == ~refreshing
AssetsIsoOffers == listed.versions # {} /\ Min(listed.versions) \notin listed.isos
AssetsPxeOffers == listed.versions # {}

Offered ==
    /\ screen = "isoPage" => IsoPageOffers
    /\ screen = "assetsIso" => AssetsIsoOffers
    /\ screen = "assetsPxe" => AssetsPxeOffers

(* They say which asset they want in a field the daemon does not read.     *)
Wanted == IF screen = "isoPage" THEN <<"iso">> ELSE Kinds

Fresh(d) == [d EXCEPT !.stage = "look", !.at = "gone", !.done = 0]

Asked(version, kinds, tries, client) ==
    [id |-> CHOOSE i \in 1..MaxDownloads : i \notin {d.id : d \in downloads},
     version |-> version, wanted |-> kinds, kinds |-> kinds, tries |-> tries, client |-> client,
     stage |-> "look", at |-> "gone", done |-> 0]

HandleDownload ==
    /\ screen # "none" /\ Offered /\ ~Waiting
    /\ Cardinality(downloads) < MaxDownloads
    /\ downloads' = downloads \cup {Asked(VersionOf[screen], Wanted, 0, "page")}
    /\ UNCHANGED <<screenVars, diskVars, overlapped, strayed>>

(* Delete is offered of every ISO in the list, whatever is under way, and  *)
(* removes all of its version.                                             *)
Deletable(v) == screen = "isoPage" /\ v \in listed.isos

DeleteListed(v) ==
    /\ Deletable(v)
    /\ made' = made \ {v}
    /\ tmp' = [f \in Files |-> IF f[1] = v THEN Absent ELSE tmp[f]]
    /\ final' = [f \in Files |-> IF f[1] = v THEN Absent ELSE final[f]]
    /\ downloads' = {IF d.version = v THEN [d EXCEPT !.at = "gone"] ELSE d : d \in downloads}
    /\ UNCHANGED <<screenVars, overlapped, strayed>>

-----------------------------------------------------------------------------
(* The daemon.  A step of a download leaves the others, and the download   *)
(* as it goes on: with its next kind, or from the start when the client    *)
(* makes a failed request once more.                                       *)
NextKind(d) == IF Len(d.kinds) = 1 THEN {} ELSE {Fresh([d EXCEPT !.kinds = Tail(@)])}
Retried(d) ==
    IF d.tries = 0 /\ d.client # "none" THEN {Fresh([d EXCEPT !.kinds = d.wanted, !.tries = 1])} ELSE {}

Others(d) == downloads \ {d}
Served(d, others) ==
    /\ downloads' = others \cup NextKind(d)
    /\ refreshing' = (refreshing \/ (NextKind(d) = {} /\ d.client = "page" /\ screen = "isoPage"))
    /\ UNCHANGED <<screen, listed>>
Refused(d, others) == downloads' = others \cup Retried(d) /\ UNCHANGED screenVars

Look(d) ==
    /\ d.stage = "look" /\ made' = made \cup {d.version}
    /\ IF FileOf(d) \in There THEN Served(d, Others(d))
       ELSE downloads' = Others(d) \cup {[d EXCEPT !.stage = "get"]} /\ UNCHANGED screenVars
    /\ UNCHANGED <<tmp, final, overlapped, strayed>>

(* os.Create empties the file that another download may be writing.        *)
Create(d) ==
    /\ d.stage = "get" /\ d.version \in made
    /\ tmp' = [tmp EXCEPT ![FileOf(d)] = {}]
    /\ downloads' = Others(d) \cup {[d EXCEPT !.stage = "write", !.at = "tmp"]}
    /\ overlapped' = overlapped \cup {f \in {FileOf(d)} : \E e \in downloads : e.stage = "write" /\ FileOf(e) = f}
    /\ UNCHANGED <<screenVars, final, made, strayed>>

GetFails(d) == d.stage = "get" /\ Refused(d, Others(d)) /\ UNCHANGED <<diskVars, overlapped, strayed>>

(* A piece goes where the created file is by now.                          *)
Copy(d) ==
    /\ d.stage = "write" /\ d.done < Pieces
    /\ tmp' = IF d.at = "tmp" THEN [tmp EXCEPT ![FileOf(d)] = @ \cup {d.done + 1}] ELSE tmp
    /\ final' = IF d.at = "final" THEN [final EXCEPT ![FileOf(d)] = @ \cup {d.done + 1}] ELSE final
    /\ downloads' = Others(d) \cup {[d EXCEPT !.done = @ + 1]}
    /\ UNCHANGED <<screenVars, made, overlapped, strayed>>

(* The others that write the same file, after a rename or a removal of it. *)
Moved(d, to) ==
    {IF e.stage # "write" \/ FileOf(e) # FileOf(d) THEN e
     ELSE [e EXCEPT !.at = IF @ = "tmp" THEN to ELSE IF to = "final" THEN "gone" ELSE @] : e \in Others(d)}

CopyFailsUnnoticed(d) ==   \* mutant
    /\ d.stage = "write" /\ d.done < Pieces
    /\ downloads' = Others(d) \cup {[d EXCEPT !.done = Pieces]}
    /\ UNCHANGED <<screenVars, diskVars, overlapped, strayed>>
CopyFails(d) ==
    /\ d.stage = "write" /\ d.done < Pieces
    /\ tmp' = [tmp EXCEPT ![FileOf(d)] = Absent]
    /\ Refused(d, Moved(d, "gone"))
    /\ UNCHANGED <<final, made, overlapped, strayed>>

(* Whatever is there under the temporary name is renamed.                  *)
Rename(d) ==
    /\ d.stage = "write" /\ d.done = Pieces /\ tmp[FileOf(d)] # Absent
    /\ final' = [final EXCEPT ![FileOf(d)] = tmp[FileOf(d)]]
    /\ tmp' = [tmp EXCEPT ![FileOf(d)] = Absent]
    /\ Served(d, Moved(d, "final"))
    /\ UNCHANGED <<made, overlapped, strayed>>

RenameFails(d) ==
    /\ d.stage = "write" /\ d.done = Pieces /\ tmp[FileOf(d)] = Absent
    /\ Refused(d, Others(d))
    /\ UNCHANGED <<diskVars, overlapped, strayed>>

(* The connection breaks: the daemon goes on and the client asks again.    *)
LoseAnswer(d) ==
    /\ d.client # "none"
    /\ d.tries = 0 => Cardinality(downloads) < MaxDownloads
    /\ downloads' = Others(d) \cup {[d EXCEPT !.client = "none"]}
                    \cup (IF d.tries = 0 THEN {Asked(d.version, d.wanted, 1, d.client)} ELSE {})
    /\ strayed' = TRUE
    /\ UNCHANGED <<screenVars, diskVars, overlapped>>

(* The daemon dies and is started again: its files are what they were.     *)
DaemonRestarts ==
    /\ downloads # {} /\ downloads' = UNION {Retried(d) : d \in downloads}
    /\ UNCHANGED <<screenVars, diskVars, overlapped, strayed>>

AssetNext ==
    \/ LeaveAssets \/ ListRead \/ HandleDownload \/ DaemonRestarts
    \/ \E p \in AssetPages : VisitAssets(p)
    \/ \E v \in Versions : DeleteListed(v)
    \/ \E d \in downloads :
          \/ Look(d) \/ Create(d) \/ GetFails(d) \/ Copy(d) \/ CopyFails(d)
          \/ Rename(d) \/ RenameFails(d) \/ LoseAnswer(d)

AssetSpec == AssetInit /\ [][AssetNext]_assetVars

-----------------------------------------------------------------------------
(* A file the daemon lists and serves as downloaded is whole, however      *)
(* downloads fail and whenever the daemon dies: unless two downloads of it *)
(* were under way together.  That takes a page that is left during its     *)
(* request, or an answer that is lost: the pages' own buttons and retries  *)
(* never do it.                                                            *)
ServedIsWhole ==
    /\ \A f \in There : final[f] = Complete \/ f \in overlapped
    /\ overlapped # {} => strayed
=============================================================================
