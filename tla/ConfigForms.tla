---------------------------- MODULE ConfigForms ----------------------------
(***************************************************************************)
(* The pages of the web client that edit a document of the daemon: the     *)
(* configuration of an instance, the global one, a service's, the secrets, *)
(* the files behind them.  A page keeps a draft beside the cached document,*)
(* one or two cards edit it, and a save sends the whole document back.     *)
(*                                                                         *)
(* A document has three fields: what the first card edits, what a second   *)
(* card of the page edits and the rest; a value is a number, and a new one *)
(* is written each time.  When the cache reads the document again is       *)
(* WebCache's concern and free here, and the read is one step.             *)
(***************************************************************************)
EXTENDS Integers, FiniteSets

CONSTANTS
    MaxWritten,   \* bound: values the user types and others write
    MaxLostSaves  \* bound: requests that are lost or refused

ASSUME FormBounds == {MaxWritten, MaxLostSaves} \subseteq Nat

Fields == {"own", "peer", "rest"}
Hosts == {1, 2}   \* the two instances the user goes between
Unread == [f \in Fields |-> -1]

(* A card: its field, the buttons that are dead while a save of the page   *)
(* is pending, and those that are there while the document is being read.  *)
Card(field, blocks, early) == [field |-> field, blocks |-> blocks, early |-> early]
AllButtons == {"edit", "save", "cancel"}

DomainsCard == Card("own", AllButtons, {})
SmtpCard == Card("peer", AllButtons, {})
OperatorCard == Card("own", AllButtons, {})
RouterCard == Card("peer", AllButtons, {})
DdnsCard == Card("own", {"save"}, {})
DnsmasqCard == Card("own", {}, AllButtons \cup {"type"})
SettingsCard == Card("own", AllButtons, {})
ServiceCard == Card("own", {"save", "cancel"}, {})
YamlCard == Card("own", {}, {})
SecretsCard == Card("own", {"save"}, {"save", "cancel"})

(***************************************************************************)
(*   perInstance  the document belongs to the instance on screen           *)
(*   stays        the card is always open                                  *)
(*   loads        Edit copies the cached document into the draft           *)
(*   syncs        the fields whose change in the cache reloads the draft   *)
(*   sends        the fields a save of a card takes from the draft, the    *)
(*                others being the cached ones                             *)
(*   drops        the fields of the draft Cancel takes back                *)
(*   waits        a save closes the card when it has succeeded, otherwise  *)
(*                as soon as it is sent                                    *)
(*   lingers      ... and a timer closes it                                *)
(*   restarts     a save may go on to restart what reads the document      *)
(*   retries      a failed save is sent once more                          *)
(*   aliases      what is typed is written into the cached document too    *)
(***************************************************************************)
Each == [f \in Fields |-> {f}]
Whole == [f \in Fields |-> Fields]
Plain == [perInstance |-> FALSE, stays |-> FALSE, loads |-> FALSE, syncs |-> Fields, sends |-> Each, drops |-> Whole,
    waits |-> TRUE, lingers |-> FALSE, restarts |-> FALSE, retries |-> TRUE, aliases |-> FALSE]

CloudForm == [Plain EXCEPT !.perInstance = TRUE, !.loads = TRUE, !.syncs = {"own", "peer"}, !.waits = FALSE]
SettingsForm == [Plain EXCEPT !.perInstance = TRUE, !.waits = FALSE]
ServiceForm == [Plain EXCEPT !.loads = TRUE, !.sends = Whole, !.lingers = TRUE]
YamlForm == [Plain EXCEPT !.perInstance = TRUE, !.stays = TRUE, !.sends = Whole]
SecretsForm == [Plain EXCEPT !.perInstance = TRUE, !.loads = TRUE, !.syncs = {}, !.sends = Whole, !.aliases = TRUE]
CentralForm == [Plain EXCEPT !.drops = Each]
DdnsForm == [Plain EXCEPT !.syncs = {"own"}]
DnsmasqForm == [Plain EXCEPT !.loads = TRUE, !.syncs = {}, !.sends = Whole, !.drops = [f \in Fields |-> {}],
    !.restarts = TRUE, !.retries = FALSE]

Forms == [
    cloud |-> [cards |-> {DomainsCard, SmtpCard}, form |-> CloudForm],
    settings |-> [cards |-> {SettingsCard}, form |-> SettingsForm],
    service |-> [cards |-> {ServiceCard}, form |-> ServiceForm],
    yaml |-> [cards |-> {YamlCard}, form |-> YamlForm],
    secrets |-> [cards |-> {SecretsCard}, form |-> SecretsForm],
    central |-> [cards |-> {OperatorCard, RouterCard}, form |-> CentralForm],
    dns |-> [cards |-> {DdnsCard}, form |-> DdnsForm],
    dnsmasq |-> [cards |-> {DnsmasqCard}, form |-> DnsmasqForm]]

VARIABLES
    shown,       \* which form the page shows; it never changes
    here,        \* the instance on screen
    stored,      \* the daemon's documents, one of each instance
    cached,      \* the client's copies
    draft,       \* what the inputs hold
    origin,      \* auxiliary: the instance whose document the draft was filled from
    editing,     \* fields whose card is open
    typed,       \* fields of the draft the user changed since
    saves,       \* requests on their way
    closing,     \* the timer that closes the card is set
    written, lostSaves

draftVars == <<draft, origin, typed>>
formVars == <<shown, here, stored, cached, draftVars, editing, saves, closing, written, lostSaves>>

form == Forms[shown].form
Here == IF form.perInstance THEN here ELSE 1
Reading == cached[Here] = Unread
OffersUnread(c, button) == button \in c.blocks => saves = {}   \* mutant
Offers(c, button) ==
    /\ button \in c.blocks => saves = {}
    /\ Reading => button \in c.early

FormInit ==
    /\ shown \in DOMAIN Forms
    /\ here = 1
    /\ stored = [h \in Hosts |-> [f \in Fields |-> 0]]
    /\ cached = [h \in Hosts |-> Unread]
    /\ draft = Unread /\ origin = 1 /\ typed = {}
    /\ editing = IF form.stays THEN {"own"} ELSE {}
    /\ saves = {} /\ closing = FALSE
    /\ written = 0 /\ lostSaves = 0

Load(doc) == draft' = doc /\ origin' = Here /\ typed' = {}

Edit(c) ==
    /\ Offers(c, "edit") /\ c.field \notin editing
    /\ editing' = editing \cup {c.field}
    /\ IF form.loads THEN Load(cached[Here]) ELSE UNCHANGED draftVars
    /\ UNCHANGED <<shown, here, stored, cached, saves, closing, written, lostSaves>>

Type(c) ==
    /\ Offers(c, "type") /\ c.field \in editing
    /\ written < MaxWritten
    /\ written' = written + 1
    /\ draft' = [draft EXCEPT ![c.field] = written']
    /\ typed' = typed \cup {c.field}
    /\ cached' = IF form.aliases /\ cached[origin] = draft THEN [cached EXCEPT ![origin] = draft'] ELSE cached
    /\ UNCHANGED <<shown, here, stored, origin, editing, saves, closing, lostSaves>>

WholeDraft(c) == draft   \* mutant
Sent(c) == [f \in Fields |-> IF f \in form.sends[c.field] THEN draft[f] ELSE cached[Here][f]]

Save(c) ==
    /\ Offers(c, "save") /\ c.field \in editing
    /\ form.stays => draft # cached[Here]
    /\ Cardinality(saves) < 2
    /\ \E id \in {1, 2} \ {s.id : s \in saves}, restart \in {FALSE, form.restarts} :
          saves' = saves \cup {[id |-> id, to |-> Here, origin |-> origin, doc |-> Sent(c), field |-> c.field,
                                base |-> IF form.sends = Whole THEN draft ELSE cached[Here],
                                restart |-> restart, stage |-> "sent", tries |-> 0]}
    /\ IF form.waits \/ form.stays THEN UNCHANGED <<editing, typed>>
       ELSE editing' = editing \ {c.field} /\ typed' = typed \ {c.field}
    /\ UNCHANGED <<shown, here, stored, cached, draft, origin, closing, written, lostSaves>>

Cancel(c) ==
    /\ Offers(c, "cancel") /\ c.field \in editing
    /\ editing' = IF form.stays THEN editing ELSE editing \ {c.field}
    /\ LET dropped == form.drops[c.field] IN
          IF dropped = Fields THEN Load(cached[Here])
          ELSE /\ draft' = [f \in Fields |-> IF f \in dropped THEN cached[Here][f] ELSE draft[f]]
               /\ typed' = typed \ {c.field}
               /\ UNCHANGED origin
    /\ UNCHANGED <<shown, here, stored, cached, saves, closing, written, lostSaves>>

(* The effect that fills the draft runs when what it watches is another    *)
(* value; a reading that brings nothing new keeps the cached object.       *)
ReloadsOn(changed) == changed \cap form.syncs # {}

Reread ==
    /\ cached' = [cached EXCEPT ![Here] = stored[Here]]
    /\ IF ReloadsOn({f \in Fields : cached[Here][f] # stored[Here][f]})
       THEN Load(stored[Here]) ELSE UNCHANGED draftVars
    /\ UNCHANGED <<shown, here, stored, editing, saves, closing, written, lostSaves>>

Switch(h) ==
    /\ form.perInstance /\ h # here
    /\ here' = h
    /\ IF form.syncs # {} /\ cached[h] # Unread
       THEN draft' = cached[h] /\ origin' = h /\ typed' = {}
       ELSE UNCHANGED draftVars
    /\ UNCHANGED <<shown, stored, cached, editing, saves, closing, written, lostSaves>>

Lands(s) ==
    /\ s.stage = "sent"
    /\ stored' = [stored EXCEPT ![s.to] = s.doc]
    /\ saves' = (saves \ {s}) \cup {[s EXCEPT !.stage = "landed"]}
    /\ UNCHANGED <<shown, here, cached, draftVars, editing, closing, written, lostSaves>>

Restarts(s) ==
    /\ s.stage = "landed" /\ s.restart
    /\ saves' = (saves \ {s}) \cup {[s EXCEPT !.stage = "restarting"]}
    /\ UNCHANGED <<shown, here, stored, cached, draftVars, editing, closing, written, lostSaves>>

Succeeds(s) ==
    /\ s.stage = IF s.restart THEN "restarting" ELSE "landed"
    /\ saves' = saves \ {s}
    /\ closing' = (closing \/ form.lingers)
    /\ IF form.waits /\ ~form.lingers /\ ~form.stays
       THEN editing' = editing \ {s.field} /\ typed' = typed \ {s.field}
       ELSE editing' = editing /\ typed' = typed \ {f \in Fields : draft[f] = s.doc[f]}
    /\ UNCHANGED <<shown, here, stored, cached, draft, origin, written, lostSaves>>

(* The request is made by the function of the page as it is by then.       *)
Fails(s) ==
    /\ lostSaves < MaxLostSaves
    /\ lostSaves' = lostSaves + 1
    /\ saves' = (saves \ {s}) \cup
          IF form.retries /\ s.tries = 0 THEN {[s EXCEPT !.stage = "sent", !.tries = 1, !.to = Here]} ELSE {}
    /\ UNCHANGED <<shown, here, stored, cached, draftVars, editing, closing, written>>

Closes ==
    /\ closing
    /\ closing' = FALSE /\ editing' = {} /\ typed' = {}
    /\ UNCHANGED <<shown, here, stored, cached, draft, origin, saves, written, lostSaves>>

OthersWrite(f) ==
    /\ written < MaxWritten
    /\ written' = written + 1
    /\ stored' = [stored EXCEPT ![1][f] = written']
    /\ UNCHANGED <<shown, here, cached, draftVars, editing, saves, closing, lostSaves>>

FormNext ==
    \/ \E c \in Forms[shown].cards : Edit(c) \/ Type(c) \/ Save(c) \/ Cancel(c)
    \/ Reread \/ Closes
    \/ \E h \in Hosts : Switch(h)
    \/ \E f \in Fields : OthersWrite(f)
    \/ \E s \in saves : Lands(s) \/ Restarts(s) \/ Succeeds(s) \/ Fails(s)

FormSpec == FormInit /\ [][FormNext]_formVars

---------------------------------------------------------------------------
(* A save goes to the instance its draft was filled from, on every page    *)
(* that refills its draft; a save that is tried again goes to the instance *)
(* then on screen (ConfigEditor, ClusterSettings, CloudComponent).         *)
SavedWhereLoaded == \A s \in saves : form.syncs # {} /\ s.tries = 0 => s.to = s.origin

(* What a card does not edit, its save overwrites only if somebody changed *)
(* it after this client had read what the save sends back.                 *)
SaveKeepsOthers ==
    [][\A s \in saves : s.stage = "sent" /\ s.tries = 0 /\ stored' # stored /\ s \notin saves' =>
          \A f \in Fields \ {s.field} : stored'[s.to][f] # stored[s.to][f] => stored[s.to][f] # s.base[f]]_formVars

(* What the user typed goes only by a click, by a change of the document   *)
(* that has reached the client, by the success of its own save or, for a   *)
(* service, by the timer of an earlier one.                                *)
TypingIsKept ==
    [][\A f \in typed \ typed' :
          \/ editing' # editing /\ saves \subseteq saves' /\ closing' = closing
          \/ here' # here \/ form.stays
          \/ \E g \in form.syncs : cached'[Here][g] # cached[Here][g]
          \/ \E s \in saves \ saves' : s.field = f \/ draft[f] = s.doc[f]
          \/ closing /\ ~closing']_formVars

(* Edits are not lost without notice: others' and the user's own.          *)
EditsAreKept == SaveKeepsOthers /\ TypingIsKept
=============================================================================
