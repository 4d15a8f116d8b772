--------------------------- MODULE WebPagesProofs ---------------------------
(***************************************************************************)
(* Proofs about the pages on which the web client edits, page by page: for *)
(* each, an inductive invariant that says what its requests, its dialog    *)
(* and what it has read know of one another, that every step keeps it, and *)
(* the property that follows.                                              *)
(*                                                                         *)
(* Requests are records in a set, and most invariants begin by saying so:  *)
(* what a step sets of a record leaves its other fields.                   *)
(***************************************************************************)
EXTENDS ConfigForms, AppPages, ServicePages, LogView, NodeEditing, BackupPages, Assets,
        AddDialog, DomainTests, FiniteSetTheorems, TLAPS

-----------------------------------------------------------------------------
(* ConfigForms.  On a page that refills its draft, the draft is of the     *)
(* instance on screen as soon as that one's document is there.  What a     *)
(* save sends back and does not edit is what it was made from.             *)
Docs == [Fields -> Int]
FilledDocs == [Fields -> Nat]
Refills == form.syncs # {}

SaveIsSound(s) ==
    /\ s = [id |-> s.id, to |-> s.to, origin |-> s.origin, doc |-> s.doc, field |-> s.field, base |-> s.base,
            restart |-> s.restart, stage |-> s.stage, tries |-> s.tries]
    /\ s.to \in Hosts /\ s.doc \in Docs
    /\ \A f \in Fields \ {s.field} : s.doc[f] = s.base[f]
    /\ Refills => s.doc \in FilledDocs /\ (s.tries = 0 => s.to = s.origin)

FormTypeOK ==
    /\ shown \in DOMAIN Forms /\ {here, origin} \subseteq Hosts /\ written \in Nat
    /\ stored \in [Hosts -> Docs] /\ cached \in [Hosts -> Docs] /\ draft \in Docs

DraftIsOfHere ==
    Refills =>
        /\ \A h \in Hosts : stored[h] \in FilledDocs /\ cached[h] \in FilledDocs \cup {Unread}
        /\ cached[Here] # Unread => origin = Here /\ draft \in FilledDocs

FormIInv == FormTypeOK /\ DraftIsOfHere /\ \A s \in saves : SaveIsSound(s)

(* What the proofs use of the pages' table.                                *)
FormFact(f) ==
    /\ f.sends \in {Each, Whole} /\ f.syncs \subseteq Fields /\ f.perInstance \in BOOLEAN
    /\ f.aliases => f.syncs = {}

CardFact(c) == c.field \in Fields /\ c.early = {}
EarlyCardFact(c) == c.field \in Fields

LEMMA CardFacts ==
    /\ \A c \in {DomainsCard, SmtpCard, OperatorCard, RouterCard, DdnsCard, SettingsCard, ServiceCard, YamlCard} :
          CardFact(c)
    /\ \A c \in {DnsmasqCard, SecretsCard} : EarlyCardFact(c)
<1> USE DEF Card, Fields, CardFact, EarlyCardFact
<1>1. CardFact(DomainsCard)
  BY DEF DomainsCard
<1>2. CardFact(SmtpCard)
  BY DEF SmtpCard
<1>3. CardFact(OperatorCard)
  BY DEF OperatorCard
<1>4. CardFact(RouterCard)
  BY DEF RouterCard
<1>5. CardFact(DdnsCard)
  BY DEF DdnsCard
<1>6. CardFact(SettingsCard)
  BY DEF SettingsCard
<1>7. CardFact(ServiceCard)
  BY DEF ServiceCard
<1>8. CardFact(YamlCard)
  BY DEF YamlCard
<1>9. EarlyCardFact(DnsmasqCard)
  BY DEF DnsmasqCard
<1>10. EarlyCardFact(SecretsCard)
  BY DEF SecretsCard
<1> HIDE DEF CardFact, EarlyCardFact
<1>11. QED
  BY <1>1, <1>2, <1>3, <1>4, <1>5, <1>6, <1>7, <1>8, <1>9, <1>10

PageFact(page) ==
    FormFact(page.form)
    /\ \A c \in page.cards : c.field \in Fields /\ (c.early # {} => page.form.syncs = {})

LEMMA PageFacts == \A name \in DOMAIN Forms : PageFact(Forms[name])
<1>1. PageFact(Forms["cloud"])
  <2>1. Forms["cloud"] = [cards |-> {DomainsCard, SmtpCard}, form |-> CloudForm]
    BY DEF Forms
  <2>2. CloudForm.sends = Each /\ CloudForm.syncs = {"own", "peer"} /\ CloudForm.perInstance = TRUE /\ CloudForm.aliases = FALSE
    BY DEF CloudForm, Plain
  <2>3. FormFact(CloudForm)
    BY <2>2 DEF FormFact, Fields
  <2>4. QED
    BY <2>1, <2>2, <2>3, CardFacts DEF PageFact, CardFact, EarlyCardFact
<1>2. PageFact(Forms["settings"])
  <2>1. Forms["settings"] = [cards |-> {SettingsCard}, form |-> SettingsForm]
    BY DEF Forms
  <2>2. SettingsForm.sends = Each /\ SettingsForm.syncs = Fields /\ SettingsForm.perInstance = TRUE /\ SettingsForm.aliases = FALSE
    BY DEF SettingsForm, Plain
  <2>3. FormFact(SettingsForm)
    BY <2>2 DEF FormFact, Fields
  <2>4. QED
    BY <2>1, <2>2, <2>3, CardFacts DEF PageFact, CardFact, EarlyCardFact
<1>3. PageFact(Forms["service"])
  <2>1. Forms["service"] = [cards |-> {ServiceCard}, form |-> ServiceForm]
    BY DEF Forms
  <2>2. ServiceForm.sends = Whole /\ ServiceForm.syncs = Fields /\ ServiceForm.perInstance = FALSE /\ ServiceForm.aliases = FALSE
    BY DEF ServiceForm, Plain
  <2>3. FormFact(ServiceForm)
    BY <2>2 DEF FormFact, Fields
  <2>4. QED
    BY <2>1, <2>2, <2>3, CardFacts DEF PageFact, CardFact, EarlyCardFact
<1>4. PageFact(Forms["yaml"])
  <2>1. Forms["yaml"] = [cards |-> {YamlCard}, form |-> YamlForm]
    BY DEF Forms
  <2>2. YamlForm.sends = Whole /\ YamlForm.syncs = Fields /\ YamlForm.perInstance = TRUE /\ YamlForm.aliases = FALSE
    BY DEF YamlForm, Plain
  <2>3. FormFact(YamlForm)
    BY <2>2 DEF FormFact, Fields
  <2>4. QED
    BY <2>1, <2>2, <2>3, CardFacts DEF PageFact, CardFact, EarlyCardFact
<1>5. PageFact(Forms["secrets"])
  <2>1. Forms["secrets"] = [cards |-> {SecretsCard}, form |-> SecretsForm]
    BY DEF Forms
  <2>2. SecretsForm.sends = Whole /\ SecretsForm.syncs = {} /\ SecretsForm.perInstance = TRUE /\ SecretsForm.aliases = TRUE
    BY DEF SecretsForm, Plain
  <2>3. FormFact(SecretsForm)
    BY <2>2 DEF FormFact, Fields
  <2>4. QED
    BY <2>1, <2>2, <2>3, CardFacts DEF PageFact, CardFact, EarlyCardFact
<1>6. PageFact(Forms["central"])
  <2>1. Forms["central"] = [cards |-> {OperatorCard, RouterCard}, form |-> CentralForm]
    BY DEF Forms
  <2>2. CentralForm.sends = Each /\ CentralForm.syncs = Fields /\ CentralForm.perInstance = FALSE /\ CentralForm.aliases = FALSE
    BY DEF CentralForm, Plain
  <2>3. FormFact(CentralForm)
    BY <2>2 DEF FormFact, Fields
  <2>4. QED
    BY <2>1, <2>2, <2>3, CardFacts DEF PageFact, CardFact, EarlyCardFact
<1>7. PageFact(Forms["dns"])
  <2>1. Forms["dns"] = [cards |-> {DdnsCard}, form |-> DdnsForm]
    BY DEF Forms
  <2>2. DdnsForm.sends = Each /\ DdnsForm.syncs = {"own"} /\ DdnsForm.perInstance = FALSE /\ DdnsForm.aliases = FALSE
    BY DEF DdnsForm, Plain
  <2>3. FormFact(DdnsForm)
    BY <2>2 DEF FormFact, Fields
  <2>4. QED
    BY <2>1, <2>2, <2>3, CardFacts DEF PageFact, CardFact, EarlyCardFact
<1>8. PageFact(Forms["dnsmasq"])
  <2>1. Forms["dnsmasq"] = [cards |-> {DnsmasqCard}, form |-> DnsmasqForm]
    BY DEF Forms
  <2>2. DnsmasqForm.sends = Whole /\ DnsmasqForm.syncs = {} /\ DnsmasqForm.perInstance = FALSE /\ DnsmasqForm.aliases = FALSE
    BY DEF DnsmasqForm, Plain
  <2>3. FormFact(DnsmasqForm)
    BY <2>2 DEF FormFact, Fields
  <2>4. QED
    BY <2>1, <2>2, <2>3, CardFacts DEF PageFact, CardFact, EarlyCardFact
<1>9. DOMAIN Forms = {"cloud", "settings", "service", "yaml", "secrets", "central", "dns", "dnsmasq"}
  BY DEF Forms
<1>10. QED
  BY <1>1, <1>2, <1>3, <1>4, <1>5, <1>6, <1>7, <1>8, <1>9

LEMMA ShownFacts ==
    ASSUME FormTypeOK
    PROVE  /\ form.sends \in {Each, Whole} /\ form.syncs \subseteq Fields
           /\ Here \in Hosts
           /\ form.aliases => ~Refills
           /\ \A c \in Forms[shown].cards :
                 c.field \in Fields /\ (c.early # {} => ~Refills)
<1>1. PageFact(Forms[shown])
  BY PageFacts DEF FormTypeOK
<1>2. Here \in Hosts
  BY DEF Here, Hosts, FormTypeOK
<1>3. QED
  BY <1>1, <1>2 DEF PageFact, FormFact, form, Refills

LEMMA UnreadIsDoc == Unread \in Docs /\ Unread \notin FilledDocs /\ FilledDocs \subseteq Docs
BY DEF Unread, Docs, FilledDocs, Fields

(* A draft that is filled from the document of the instance on screen.     *)
LEMMA LoadKeeps ==
    ASSUME FormIInv, Load(cached[Here]), UNCHANGED <<shown, here, stored, cached, written>>
    PROVE  FormTypeOK' /\ DraftIsOfHere'
<1>1. draft' = cached[Here] /\ origin' = Here /\ Here \in Hosts /\ cached[Here] \in Docs
  BY ShownFacts DEF Load, FormIInv, FormTypeOK
<1>2. FormTypeOK'
  BY <1>1 DEF FormIInv, FormTypeOK
<1>3. DraftIsOfHere'
  BY <1>1 DEF FormIInv, DraftIsOfHere, Refills, Here, form
<1>4. QED
  BY <1>2, <1>3

LEMMA PageUnchanged ==
    ASSUME FormIInv, UNCHANGED <<shown, here, stored, cached, draftVars, written>>
    PROVE  FormTypeOK' /\ DraftIsOfHere'
BY DEF FormIInv, FormTypeOK, DraftIsOfHere, Refills, Here, form, draftVars

LEMMA SavesUnchanged ==
    ASSUME FormIInv, UNCHANGED shown, saves' \subseteq saves
    PROVE  \A s \in saves' : SaveIsSound(s)'
BY DEF FormIInv, SaveIsSound, Refills, form

LEMMA EditFormIInv == ASSUME FormIInv, NEW c \in Forms[shown].cards, Edit(c) PROVE FormIInv'
<1>1. UNCHANGED <<shown, here, stored, cached, saves, written>>
  BY DEF Edit
<1>2. Load(cached[Here]) \/ UNCHANGED draftVars
  BY DEF Edit
<1>3. QED
  BY <1>1, <1>2, LoadKeeps, PageUnchanged, SavesUnchanged DEF FormIInv

LEMMA TypeFormIInv == ASSUME FormIInv, NEW c \in Forms[shown].cards, Type(c) PROVE FormIInv'
<1>1. /\ UNCHANGED <<shown, here, stored, origin, saves>> /\ written' = written + 1
      /\ draft' = [draft EXCEPT ![c.field] = written']
      /\ cached' = cached \/ (form.aliases /\ cached' = [cached EXCEPT ![origin] = draft'])
  BY DEF Type
<1>2. written' \in Nat
  BY <1>1 DEF FormIInv, FormTypeOK
<1>3. draft' \in Docs /\ (draft \in FilledDocs => draft' \in FilledDocs)
  <2>1. draft \in [Fields -> Int] => draft' \in [Fields -> Int]
    <3>1. written' \in Int
      BY <1>2
    <3>2. QED
      BY <1>1, <3>1
  <2>2. draft \in [Fields -> Nat] => draft' \in [Fields -> Nat]
    BY <1>1, <1>2
  <2>3. QED
    BY <2>1, <2>2 DEF FormIInv, FormTypeOK, Docs, FilledDocs
<1>4. FormTypeOK'
  BY <1>1, <1>2, <1>3 DEF FormIInv, FormTypeOK
<1>5. Refills => cached' = cached
  BY <1>1, ShownFacts DEF FormIInv
<1>6. DraftIsOfHere'
  BY <1>1, <1>3, <1>5 DEF FormIInv, DraftIsOfHere, Refills, Here, form
<1>7. QED
  BY <1>1, <1>4, <1>6, SavesUnchanged DEF FormIInv

LEMMA SaveFormIInv == ASSUME FormIInv, NEW c \in Forms[shown].cards, Save(c) PROVE FormIInv'
<1>1. UNCHANGED <<shown, here, stored, cached, draft, origin, written>> /\ Offers(c, "save")
  BY DEF Save
<1>2. PICK base : base = IF form.sends = Whole THEN draft ELSE cached[Here]
  OBVIOUS
<1>3. PICK new, id, restart :
         /\ new = [id |-> id, to |-> Here, origin |-> origin, doc |-> Sent(c), field |-> c.field, base |-> base,
                   restart |-> restart, stage |-> "sent", tries |-> 0]
         /\ saves' = saves \cup {new}
  BY <1>2 DEF Save
<1>4. Here \in Hosts /\ c.field \in Fields /\ form.sends \in {Each, Whole} /\ (c.early # {} => ~Refills)
  BY ShownFacts DEF FormIInv
<1>5. cached[Here] \in Docs /\ draft \in Docs
  BY <1>4 DEF FormIInv, FormTypeOK
<1>6. Sent(c) \in Docs
  BY <1>5 DEF Sent, Docs
<1>7. Refills => cached[Here] # Unread
  BY <1>1, <1>4 DEF Offers, Reading
<1>8. Refills => Sent(c) \in FilledDocs /\ origin = Here
  <2>1. Refills => cached[Here] \in FilledDocs /\ draft \in FilledDocs /\ origin = Here
    BY <1>4, <1>7 DEF FormIInv, DraftIsOfHere
  <2>2. QED
    BY <2>1 DEF Sent, FilledDocs
<1>9. ASSUME NEW f \in Fields \ {c.field} PROVE Sent(c)[f] = base[f]
  <2>1. CASE form.sends = Whole
    <3>1. f \in form.sends[c.field]
      BY <1>4, <2>1 DEF Whole
    <3>2. QED
      BY <1>2, <2>1, <3>1 DEF Sent
  <2>2. CASE form.sends # Whole
    <3>1. f \notin form.sends[c.field]
      BY <1>4, <2>2 DEF Each
    <3>2. QED
      BY <1>2, <2>2, <3>1 DEF Sent
  <2>3. QED
    BY <2>1, <2>2
<1>10. SaveIsSound(new)
  BY <1>3, <1>4, <1>6, <1>8, <1>9 DEF SaveIsSound
<1>11. ASSUME NEW s \in saves' PROVE SaveIsSound(s)'
  BY <1>1, <1>3, <1>10 DEF FormIInv, SaveIsSound, Refills, form
<1>12. FormTypeOK' /\ DraftIsOfHere'
  BY <1>1 DEF FormIInv, FormTypeOK, DraftIsOfHere, Refills, Here, form
<1>13. QED
  BY <1>11, <1>12 DEF FormIInv

LEMMA CancelFormIInv == ASSUME FormIInv, NEW c \in Forms[shown].cards, Cancel(c) PROVE FormIInv'
<1>1. UNCHANGED <<shown, here, stored, cached, saves, written>>
  BY DEF Cancel
<1>2. CASE Load(cached[Here])
  BY <1>1, <1>2, LoadKeeps, SavesUnchanged DEF FormIInv
<1>3. CASE ~Load(cached[Here])
  <2>1. PICK dropped : /\ draft' = [f \in Fields |-> IF f \in dropped THEN cached[Here][f] ELSE draft[f]]
                       /\ UNCHANGED origin
    BY <1>3 DEF Cancel
  <2>2. Here \in Hosts
    BY ShownFacts DEF FormIInv
  <2>3. cached[Here] \in Docs /\ draft \in Docs
    BY <2>2 DEF FormIInv, FormTypeOK
  <2>4. draft' \in Docs
    BY <2>1, <2>3 DEF Docs
  <2>5. FormTypeOK'
    BY <1>1, <2>1, <2>4 DEF FormIInv, FormTypeOK
  <2>6. cached[Here] \in FilledDocs /\ draft \in FilledDocs => draft' \in FilledDocs
    BY <2>1 DEF FilledDocs
  <2>7. DraftIsOfHere'
    BY <1>1, <2>1, <2>2, <2>6 DEF FormIInv, DraftIsOfHere, Refills, Here, form
  <2>8. QED
    BY <1>1, <2>5, <2>7, SavesUnchanged DEF FormIInv
<1>4. QED
  BY <1>2, <1>3

LEMMA RereadFormIInv == ASSUME FormIInv, Reread PROVE FormIInv'
<1>1. /\ cached' = [cached EXCEPT ![Here] = stored[Here]]
      /\ UNCHANGED <<shown, here, stored, saves, written>>
  BY DEF Reread
<1>2. PICK changed : /\ changed = {f \in Fields : cached[Here][f] # stored[Here][f]}
                     /\ IF changed \cap form.syncs # {} THEN Load(stored[Here]) ELSE UNCHANGED draftVars
  BY DEF Reread, ReloadsOn
<1>3. Here \in Hosts /\ form.syncs \subseteq Fields
  BY ShownFacts DEF FormIInv
<1>4. cached[Here] \in Docs /\ stored[Here] \in Docs /\ cached'[Here] = stored[Here]
  BY <1>1, <1>3 DEF FormIInv, FormTypeOK
<1>5. FormTypeOK'
  <2>1. draft' \in Docs /\ origin' \in Hosts
    BY <1>2, <1>3, <1>4 DEF Load, draftVars, FormIInv, FormTypeOK
  <2>2. QED
    BY <1>1, <1>4, <2>1 DEF FormIInv, FormTypeOK
<1>6. DraftIsOfHere'
  <2> SUFFICES ASSUME Refills
               PROVE  /\ \A h \in Hosts : stored'[h] \in FilledDocs /\ cached'[h] \in FilledDocs \cup {Unread}
                      /\ origin' = Here /\ draft' \in FilledDocs
    BY <1>1 DEF DraftIsOfHere, Refills, Here, form
  <2>1. \A h \in Hosts : stored[h] \in FilledDocs /\ cached[h] \in FilledDocs \cup {Unread}
    BY DEF FormIInv, DraftIsOfHere
  <2>2. \A h \in Hosts : stored'[h] \in FilledDocs /\ cached'[h] \in FilledDocs \cup {Unread}
    BY <1>1, <2>1 DEF FormIInv, FormTypeOK
  <2>3. CASE changed \cap form.syncs # {}
    BY <1>2, <1>3, <2>1, <2>2, <2>3 DEF Load
  <2>4. CASE changed \cap form.syncs = {}
    <3>1. PICK f \in form.syncs : f \in Fields /\ cached[Here][f] = stored[Here][f]
      BY <1>2, <1>3, <2>4 DEF Refills
    <3>2. stored[Here][f] \in Nat
      BY <1>3, <2>1, <3>1 DEF FilledDocs
    <3>3. cached[Here] # Unread
      BY <3>1, <3>2 DEF Unread
    <3>4. origin = Here /\ draft \in FilledDocs
      BY <3>3 DEF FormIInv, DraftIsOfHere
    <3>5. QED
      BY <1>2, <2>2, <2>4, <3>4 DEF draftVars
  <2>5. QED
    BY <2>3, <2>4
<1>7. QED
  BY <1>1, <1>5, <1>6, SavesUnchanged DEF FormIInv

LEMMA SwitchFormIInv == ASSUME FormIInv, NEW h \in Hosts, Switch(h) PROVE FormIInv'
<1>1. here' = h /\ UNCHANGED <<shown, stored, cached, saves, written>>
  BY DEF Switch
<1>2. Here' = h
  BY <1>1 DEF Switch, Here, form
<1>3. \/ Refills /\ cached[h] # Unread /\ draft' = cached[h] /\ origin' = h
      \/ ~(Refills /\ cached[h] # Unread) /\ UNCHANGED draftVars
  BY DEF Switch, Refills
<1>4. FormTypeOK'
  BY <1>1, <1>3 DEF FormIInv, FormTypeOK, draftVars
<1>5. DraftIsOfHere'
  BY <1>1, <1>2, <1>3 DEF FormIInv, DraftIsOfHere, Refills, form
<1>6. QED
  BY <1>1, <1>4, <1>5, SavesUnchanged DEF FormIInv

(* A request that goes on is the one it was, but for its stage and, when   *)
(* it is made once more, for where it goes.                                *)
LEMMA SaveGoesOn ==
    ASSUME NEW s, SaveIsSound(s), NEW r, NEW stage, NEW tries, NEW to,
           r = [id |-> s.id, to |-> to, origin |-> s.origin, doc |-> s.doc, field |-> s.field, base |-> s.base,
                restart |-> s.restart, stage |-> stage, tries |-> tries],
           \/ tries = s.tries /\ to = s.to
           \/ tries = 1 /\ to \in Hosts
    PROVE  SaveIsSound(r)
BY DEF SaveIsSound

LEMMA StageFormIInv ==
    ASSUME FormIInv, NEW s \in saves, NEW stage, saves' = (saves \ {s}) \cup {[s EXCEPT !.stage = stage]},
           UNCHANGED shown
    PROVE  \A r \in saves' : SaveIsSound(r)'
<1>1. PICK next : next = [s EXCEPT !.stage = stage]
  OBVIOUS
<1>2. SaveIsSound(s)
  BY DEF FormIInv
<1>3. next = [id |-> s.id, to |-> s.to, origin |-> s.origin, doc |-> s.doc, field |-> s.field, base |-> s.base,
              restart |-> s.restart, stage |-> stage, tries |-> s.tries]
  BY <1>1, <1>2 DEF SaveIsSound
<1>4. SaveIsSound(next)
  BY <1>2, <1>3, SaveGoesOn
<1>5. \A r \in saves' : SaveIsSound(r)
  BY <1>1, <1>4 DEF FormIInv
<1>6. QED
  BY <1>5 DEF SaveIsSound, Refills, form

LEMMA FailsFormIInv == ASSUME FormIInv, NEW s \in saves, Fails(s) PROVE FormIInv'
<1>1. UNCHANGED <<shown, here, stored, cached, draftVars, written>>
  BY DEF Fails
<1>2. PICK again : again = [s EXCEPT !.stage = "sent", !.tries = 1, !.to = Here]
  OBVIOUS
<1>3. saves' \subseteq saves \cup {again}
  BY <1>2 DEF Fails
<1>4. SaveIsSound(s) /\ Here \in Hosts
  BY ShownFacts DEF FormIInv
<1>5. again = [id |-> s.id, to |-> Here, origin |-> s.origin, doc |-> s.doc, field |-> s.field, base |-> s.base,
               restart |-> s.restart, stage |-> "sent", tries |-> 1]
  BY <1>2, <1>4 DEF SaveIsSound
<1>6. SaveIsSound(again)
  BY <1>4, <1>5, SaveGoesOn
<1>7. \A r \in saves' : SaveIsSound(r)
  BY <1>3, <1>6 DEF FormIInv
<1>8. \A r \in saves' : SaveIsSound(r)'
  BY <1>1, <1>7 DEF SaveIsSound, Refills, form
<1>9. QED
  BY <1>1, <1>8, PageUnchanged DEF FormIInv

(* What the daemon has is written by a request and by others.              *)
LEMMA StoredFormIInv ==
    ASSUME FormIInv, UNCHANGED <<shown, here, cached, draftVars>>, written' \in Nat,
           stored' \in [Hosts -> Docs], Refills => \A h \in Hosts : stored'[h] \in FilledDocs
    PROVE  FormTypeOK' /\ DraftIsOfHere'
BY DEF FormIInv, FormTypeOK, DraftIsOfHere, Refills, Here, form, draftVars

LEMMA LandsFormIInv == ASSUME FormIInv, NEW s \in saves, Lands(s) PROVE FormIInv'
<1>1. /\ stored' = [stored EXCEPT ![s.to] = s.doc]
      /\ saves' = (saves \ {s}) \cup {[s EXCEPT !.stage = "landed"]}
      /\ UNCHANGED <<shown, here, cached, draftVars, written>>
  BY DEF Lands
<1>2. s.to \in Hosts /\ s.doc \in Docs /\ (Refills => s.doc \in FilledDocs)
  BY DEF FormIInv, SaveIsSound
<1>3. stored' \in [Hosts -> Docs]
  BY <1>1, <1>2 DEF FormIInv, FormTypeOK
<1>4. Refills => \A h \in Hosts : stored'[h] \in FilledDocs
  BY <1>1, <1>2 DEF FormIInv, FormTypeOK, DraftIsOfHere
<1>5. FormTypeOK' /\ DraftIsOfHere'
  BY <1>1, <1>3, <1>4, StoredFormIInv DEF FormIInv, FormTypeOK
<1>6. QED
  BY <1>1, <1>5, StageFormIInv DEF FormIInv

LEMMA OthersFormIInv == ASSUME FormIInv, NEW f \in Fields, OthersWrite(f) PROVE FormIInv'
<1>1. /\ stored' = [stored EXCEPT ![1] = [stored[1] EXCEPT ![f] = written']] /\ written' = written + 1
      /\ UNCHANGED <<shown, here, cached, draftVars, saves>>
  BY DEF OthersWrite
<1>2. PICK doc : doc = [stored[1] EXCEPT ![f] = written']
  OBVIOUS
<1>3. written' \in Nat /\ 1 \in Hosts
  BY <1>1 DEF FormIInv, FormTypeOK, Hosts
<1>4. doc \in Docs /\ (stored[1] \in FilledDocs => doc \in FilledDocs)
  <2>1. stored[1] \in [Fields -> Int] => doc \in [Fields -> Int]
    BY <1>2, <1>3
  <2>2. stored[1] \in [Fields -> Nat] => doc \in [Fields -> Nat]
    BY <1>2, <1>3
  <2>3. QED
    BY <1>3, <2>1, <2>2 DEF FormIInv, FormTypeOK, Docs, FilledDocs
<1>5. stored' \in [Hosts -> Docs]
  BY <1>1, <1>2, <1>4 DEF FormIInv, FormTypeOK
<1>6. Refills => \A h \in Hosts : stored'[h] \in FilledDocs
  BY <1>1, <1>2, <1>3, <1>4 DEF FormIInv, FormTypeOK, DraftIsOfHere
<1>7. FormTypeOK' /\ DraftIsOfHere'
  BY <1>1, <1>3, <1>5, <1>6, StoredFormIInv
<1>8. QED
  BY <1>1, <1>7, SavesUnchanged DEF FormIInv

LEMMA FormNextIInv == FormIInv /\ [FormNext]_formVars => FormIInv'
<1> SUFFICES ASSUME FormIInv, [FormNext]_formVars PROVE FormIInv'
  OBVIOUS
<1>1. ASSUME NEW s \in saves, Restarts(s) PROVE FormIInv'
  <2>1. /\ saves' = (saves \ {s}) \cup {[s EXCEPT !.stage = "restarting"]}
        /\ UNCHANGED <<shown, here, stored, cached, draftVars, written>>
    BY <1>1 DEF Restarts
  <2>2. QED
    BY <2>1, PageUnchanged, StageFormIInv DEF FormIInv
<1>2. ASSUME NEW s \in saves, Succeeds(s) PROVE FormIInv'
  <2>1. saves' \subseteq saves /\ UNCHANGED <<shown, here, stored, cached, draft, origin, written>>
    BY <1>2 DEF Succeeds
  <2>2. FormTypeOK' /\ DraftIsOfHere'
    BY <2>1 DEF FormIInv, FormTypeOK, DraftIsOfHere, Refills, Here, form
  <2>3. QED
    BY <2>1, <2>2, SavesUnchanged DEF FormIInv
<1>3. CASE Closes \/ UNCHANGED formVars
  <2>1. UNCHANGED <<shown, here, stored, cached, draft, origin, saves, written>>
    BY <1>3 DEF Closes, formVars, draftVars
  <2>2. FormTypeOK' /\ DraftIsOfHere'
    BY <2>1 DEF FormIInv, FormTypeOK, DraftIsOfHere, Refills, Here, form
  <2>3. QED
    BY <2>1, <2>2, SavesUnchanged DEF FormIInv
<1>4. ASSUME NEW c \in Forms[shown].cards, Edit(c) \/ Type(c) \/ Save(c) \/ Cancel(c) PROVE FormIInv'
  BY <1>4, EditFormIInv, TypeFormIInv, SaveFormIInv, CancelFormIInv
<1>5. QED
  BY <1>1, <1>2, <1>3, <1>4, RereadFormIInv, SwitchFormIInv, OthersFormIInv, LandsFormIInv, FailsFormIInv
     DEF FormNext

LEMMA FormInitIInv == FormInit => FormIInv
<1> SUFFICES ASSUME FormInit PROVE FormIInv
  OBVIOUS
<1>1. [f \in Fields |-> 0] \in FilledDocs /\ [f \in Fields |-> 0] \in Docs
  BY DEF FilledDocs, Docs
<1>2. 1 \in Hosts /\ Here = 1
  BY DEF Hosts, Here, FormInit
<1>3. FormTypeOK
  BY <1>1, <1>2, UnreadIsDoc DEF FormInit, FormTypeOK
<1>4. DraftIsOfHere
  BY <1>1, <1>2 DEF FormInit, DraftIsOfHere
<1>5. QED
  BY <1>3, <1>4 DEF FormInit, FormIInv

(* A save goes to the instance its draft was filled from, on every page    *)
(* that refills its draft, as often as the instance on screen is changed,  *)
(* documents are read again and saves are on their way.                    *)
THEOREM SavesStayWhereLoaded == FormSpec => []SavedWhereLoaded
<1>1. FormIInv => SavedWhereLoaded
  BY DEF FormIInv, SaveIsSound, Refills, SavedWhereLoaded
<1>2. QED
  BY <1>1, FormInitIInv, FormNextIInv, PTL DEF FormSpec

(* Where a save lands, what its card does not edit is what it was made     *)
(* from: so it changes such a field only if that has been changed since.   *)
LEMMA LandingKeepsOthers ==
    ASSUME FormIInv, FormNext, NEW s \in saves, stored' # stored, s \notin saves', NEW f \in Fields \ {s.field},
           stored'[s.to][f] # stored[s.to][f]
    PROVE  stored[s.to][f] # s.base[f]
<1>1. SaveIsSound(s)
  BY DEF FormIInv
<1>2. Lands(s)
  <2>1. \E r \in saves : Lands(r)
    BY DEF FormNext, Edit, Type, Save, Cancel, Reread, Closes, Switch, OthersWrite, Restarts, Succeeds, Fails
  <2>2. QED
    BY <2>1 DEF Lands
<1>3. stored'[s.to] = s.doc
  BY <1>1, <1>2 DEF Lands, SaveIsSound, FormIInv, FormTypeOK
<1>4. QED
  BY <1>1, <1>3 DEF SaveIsSound

(* What becomes of what was typed, action by action.                       *)
LEMMA StepKeepsTyping ==
    ASSUME FormIInv, FormNext, NEW f \in typed \ typed'
    PROVE  \/ editing' # editing /\ saves \subseteq saves' /\ closing' = closing
           \/ here' # here \/ form.stays
           \/ \E g \in form.syncs : cached'[Here][g] # cached[Here][g]
           \/ \E s \in saves \ saves' : s.field = f \/ draft[f] = s.doc[f]
           \/ closing /\ ~closing'
<1>1. ASSUME NEW c \in Forms[shown].cards, Edit(c) \/ Type(c) \/ Save(c) \/ Cancel(c)
      PROVE  form.stays \/ (editing' # editing /\ saves \subseteq saves' /\ closing' = closing)
  BY <1>1 DEF Edit, Type, Save, Cancel, draftVars
<1>2. CASE Reread
  <2>1. Here \in Hosts /\ form.syncs \subseteq Fields
    BY ShownFacts DEF FormIInv
  <2>2. {g \in Fields : cached[Here][g] # stored[Here][g]} \cap form.syncs # {}
    BY <1>2 DEF Reread, ReloadsOn, draftVars
  <2>3. cached'[Here] = stored[Here]
    BY <1>2, <2>1 DEF Reread, FormIInv, FormTypeOK
  <2>4. QED
    BY <2>2, <2>3
<1>3. ASSUME NEW s \in saves, Succeeds(s) PROVE \E r \in saves \ saves' : r.field = f \/ draft[f] = r.doc[f]
  <2>1. s \in saves \ saves' /\ (typed' = typed \ {s.field} \/ typed' = typed \ {g \in Fields : draft[g] = s.doc[g]})
    BY <1>3 DEF Succeeds
  <2>2. QED
    BY <2>1
<1>4. ASSUME NEW h \in Hosts, Switch(h) PROVE here' # here
  BY <1>4 DEF Switch
<1>5. CASE Closes
  BY <1>5 DEF Closes
<1>6. ASSUME NEW s \in saves, Lands(s) \/ Restarts(s) \/ Fails(s) PROVE FALSE
  BY <1>6 DEF Lands, Restarts, Fails, draftVars
<1>7. ASSUME NEW g \in Fields, OthersWrite(g) PROVE FALSE
  BY <1>7 DEF OthersWrite, draftVars
<1>8. QED
  BY <1>1, <1>2, <1>3, <1>4, <1>5, <1>6, <1>7 DEF FormNext

(* A save overwrites what its card does not edit only if somebody changed  *)
(* it after this client had read what the save sends back; and what the    *)
(* user typed goes only by a click, by a change that has reached the       *)
(* client, by the success of its own save or by the timer of an earlier    *)
(* one.                                                                    *)
THEOREM EditsStayKept == FormSpec => EditsAreKept
<1> DEFINE OthersKept == \A s \in saves : s.stage = "sent" /\ s.tries = 0 /\ stored' # stored /\ s \notin saves' =>
                \A f \in Fields \ {s.field} : stored'[s.to][f] # stored[s.to][f] => stored[s.to][f] # s.base[f]
           TypingKept == \A f \in typed \ typed' :
                \/ editing' # editing /\ saves \subseteq saves' /\ closing' = closing
                \/ here' # here \/ form.stays
                \/ \E g \in form.syncs : cached'[Here][g] # cached[Here][g]
                \/ \E s \in saves \ saves' : s.field = f \/ draft[f] = s.doc[f]
                \/ closing /\ ~closing'
<1>1. FormIInv /\ [FormNext]_formVars => [OthersKept]_formVars /\ [TypingKept]_formVars
  BY LandingKeepsOthers, StepKeepsTyping
<1>2. QED
  BY <1>1, FormInitIInv, FormNextIInv, PTL DEF FormSpec, EditsAreKept, SaveKeepsOthers, TypingIsKept

-----------------------------------------------------------------------------
(* AppPages.  A reading and a dialog know where they come from as long as  *)
(* the instance on screen is the one that was asked.                       *)
RequestIsRecord(r) ==
    r = [kind |-> r.kind, app |-> r.app, home |-> r.home, nth |-> r.nth, from |-> r.from, tracked |-> r.tracked]

ReadsAreOfHome == \A r \in reads : r = [app |-> r.app, from |-> r.from] /\ r.from \in {<<home, r.app>>, Elsewhere}

DialogIsOfHome ==
    dialog # Closed =>
        /\ dialog = [app |-> dialog.app, added |-> dialog.added, from |-> dialog.from]
        /\ dialog.added => dialog.from \in {<<home, dialog.app>>, Defaults, Elsewhere}

RequestsAreSound == (\A r \in requests : RequestIsRecord(r)) /\ AsTheUserAsked

AppsIInv == ReadsAreOfHome /\ DialogIsOfHome /\ RequestsAreSound

(* What a page that is left, or a newer request, changes of a request is   *)
(* only whether the page still tracks it.                                  *)
LEMMA UntrackedRequest ==
    ASSUME NEW r, RequestIsRecord(r), NEW t, NEW q, q = [r EXCEPT !.tracked = t]
    PROVE  /\ RequestIsRecord(q)
           /\ q.kind = r.kind /\ q.app = r.app /\ q.home = r.home /\ q.from = r.from
<1>1. q = [kind |-> r.kind, app |-> r.app, home |-> r.home, nth |-> r.nth, from |-> r.from, tracked |-> t]
  BY DEF RequestIsRecord
<1>2. QED
  BY <1>1 DEF RequestIsRecord

LEMMA UntrackedRequests ==
    ASSUME RequestsAreSound, requests' = {[r EXCEPT !.tracked = FALSE] : r \in requests}
    PROVE  RequestsAreSound'
<1>1. ASSUME NEW r \in requests'
      PROVE  \E q \in requests :
                 /\ r = [q EXCEPT !.tracked = FALSE] /\ RequestIsRecord(r)
                 /\ r.kind = q.kind /\ r.app = q.app /\ r.home = q.home /\ r.from = q.from
  BY UntrackedRequest DEF RequestsAreSound
<1>2. ASSUME NEW r1 \in requests', NEW r2 \in requests',
             r1.kind \in Buttons, r1.kind = r2.kind, r1.app = r2.app, r1.home = r2.home
      PROVE  r1 = r2
  <2>1. PICK q1 \in requests : /\ r1 = [q1 EXCEPT !.tracked = FALSE]
                              /\ r1.kind = q1.kind /\ r1.app = q1.app /\ r1.home = q1.home
    BY <1>1
  <2>2. PICK q2 \in requests : /\ r2 = [q2 EXCEPT !.tracked = FALSE]
                              /\ r2.kind = q2.kind /\ r2.app = q2.app /\ r2.home = q2.home
    BY <1>1
  <2>3. q1 = q2
    BY <1>2, <2>1, <2>2 DEF RequestsAreSound, AsTheUserAsked, OneRequestOfAButton
  <2>4. QED
    BY <2>1, <2>2, <2>3
<1>3. ASSUME NEW r \in requests', r.kind = "updateConfig"
      PROVE  r.from \in {<<r.home, r.app>>, Defaults, Elsewhere}
  BY <1>1, <1>3 DEF RequestsAreSound, AsTheUserAsked, SavedWhereRead
<1>4. QED
  BY <1>1, <1>2, <1>3 DEF RequestsAreSound, AsTheUserAsked, OneRequestOfAButton, SavedWhereRead

(* A request that is new to its button, if it is one's, and whose config   *)
(* was read where it is saved.                                             *)
LEMMA RequestKeepsSound ==
    ASSUME RequestsAreSound, NEW kind, NEW a, NEW from, Request(kind, a, from),
           kind \in Buttons => a \notin Pending(kind),
           kind = "updateConfig" => from \in {<<home, a>>, Defaults, Elsewhere}
    PROVE  RequestsAreSound'
<1>1. PICK new : /\ RequestIsRecord(new)
                 /\ new.kind = kind /\ new.app = a /\ new.home = home /\ new.from = from
                 /\ requests' = {[r EXCEPT !.tracked = r.tracked /\ r.kind # kind] : r \in requests} \cup {new}
  BY DEF Request, RequestIsRecord
<1>2. ASSUME NEW r \in requests', r # new
      PROVE  \E q \in requests :
                 /\ r = [q EXCEPT !.tracked = q.tracked /\ q.kind # kind] /\ RequestIsRecord(r)
                 /\ r.kind = q.kind /\ r.app = q.app /\ r.home = q.home /\ r.from = q.from
  BY <1>1, <1>2, UntrackedRequest DEF RequestsAreSound
<1>3. ASSUME NEW r \in requests', r # new, r.kind \in Buttons, r.kind = new.kind, r.home = new.home
      PROVE  r.app # new.app
  BY <1>1, <1>2, <1>3 DEF Pending
<1>4. ASSUME NEW r1 \in requests', NEW r2 \in requests',
             r1.kind \in Buttons, r1.kind = r2.kind, r1.app = r2.app, r1.home = r2.home
      PROVE  r1 = r2
  <2>1. CASE r1 = new \/ r2 = new
    BY <1>3, <1>4, <2>1
  <2>2. CASE r1 # new /\ r2 # new
    BY <1>2, <1>4, <2>2 DEF RequestsAreSound, AsTheUserAsked, OneRequestOfAButton
  <2>3. QED
    BY <2>1, <2>2
<1>5. ASSUME NEW r \in requests', r.kind = "updateConfig"
      PROVE  r.from \in {<<r.home, r.app>>, Defaults, Elsewhere}
  <2>1. CASE r = new
    BY <1>1, <1>5, <2>1
  <2>2. CASE r # new
    BY <1>2, <1>5, <2>2 DEF RequestsAreSound, AsTheUserAsked, SavedWhereRead
  <2>3. QED
    BY <2>1, <2>2
<1>6. \A r \in requests' : RequestIsRecord(r)
  BY <1>1, <1>2
<1>7. QED
  BY <1>4, <1>5, <1>6 DEF RequestsAreSound, AsTheUserAsked, OneRequestOfAButton, SavedWhereRead

LEMMA AppsNextIInv == AppsIInv /\ [AppsNext]_appVars => AppsIInv'
<1> SUFFICES ASSUME AppsIInv, [AppsNext]_appVars PROVE AppsIInv'
  OBVIOUS
<1>1. CASE VisitApps \/ CloseDetail \/ StatusRead \/ CancelConfig \/ UNCHANGED appVars
  BY <1>1 DEF VisitApps, CloseDetail, StatusRead, CancelConfig, appVars, AppsIInv, ReadsAreOfHome, DialogIsOfHome,
              RequestsAreSound, RequestIsRecord, AsTheUserAsked, OneRequestOfAButton, SavedWhereRead
<1>2. CASE LeaveApps
  BY <1>2, UntrackedRequests DEF LeaveApps, AppsIInv, ReadsAreOfHome, DialogIsOfHome
<1>3. ASSUME NEW h \in Homes, SwitchHome(h) PROVE AppsIInv'
  <2>1. /\ reads' = {[r EXCEPT !.from = Elsewhere] : r \in reads}
        /\ dialog' = IF dialog = Closed THEN Closed ELSE [dialog EXCEPT !.from = Elsewhere]
        /\ requests' = {[r EXCEPT !.tracked = FALSE] : r \in requests}
    BY <1>3 DEF SwitchHome
  <2>2. ReadsAreOfHome'
    <3>1. ASSUME NEW r \in reads' PROVE r = [app |-> r.app, from |-> Elsewhere]
      <4>1. PICK q \in reads : r = [q EXCEPT !.from = Elsewhere]
        BY <2>1
      <4>2. q = [app |-> q.app, from |-> q.from]
        BY DEF AppsIInv, ReadsAreOfHome
      <4>3. r = [app |-> q.app, from |-> Elsewhere]
        BY <4>1, <4>2
      <4>4. QED
        BY <4>3
    <3>2. ASSUME NEW r \in reads' PROVE r = [app |-> r.app, from |-> r.from] /\ r.from = Elsewhere
      BY <3>1
    <3>3. QED
      BY <3>2 DEF ReadsAreOfHome
  <2>3. DialogIsOfHome'
    <3>1. CASE dialog = Closed
      BY <2>1, <3>1 DEF DialogIsOfHome
    <3>2. CASE dialog # Closed
      <4>1. dialog' = [app |-> dialog.app, added |-> dialog.added, from |-> Elsewhere]
        BY <2>1, <3>2 DEF AppsIInv, DialogIsOfHome
      <4>2. QED
        BY <4>1 DEF DialogIsOfHome
    <3>3. QED
      BY <3>1, <3>2
  <2>4. QED
    BY <2>1, <2>2, <2>3, UntrackedRequests DEF AppsIInv
<1>4. ASSUME NEW a \in Apps, OpenDetail(a) PROVE AppsIInv'
  BY <1>4 DEF OpenDetail, AppsIInv, ReadsAreOfHome, DialogIsOfHome,
              RequestsAreSound, RequestIsRecord, AsTheUserAsked, OneRequestOfAButton, SavedWhereRead
<1>5. ASSUME NEW a \in Apps, ConfigureNew(a) PROVE AppsIInv'
  BY <1>5 DEF ConfigureNew, AppsIInv, ReadsAreOfHome, DialogIsOfHome,
              RequestsAreSound, RequestIsRecord, AsTheUserAsked, OneRequestOfAButton, SavedWhereRead
<1>6. CASE Configure
  <2>1. reads' = reads \cup {[app |-> detail, from |-> <<home, detail>>]}
    BY <1>6 DEF Configure
  <2>2. ReadsAreOfHome'
    BY <1>6, <2>1 DEF Configure, AppsIInv, ReadsAreOfHome
  <2>3. QED
    BY <1>6, <2>2 DEF Configure, AppsIInv, DialogIsOfHome,
                      RequestsAreSound, RequestIsRecord, AsTheUserAsked, OneRequestOfAButton, SavedWhereRead
<1>7. ASSUME NEW r \in reads, NEW ok \in BOOLEAN, ConfigRead(r, ok) PROVE AppsIInv'
  <2>1. ReadsAreOfHome'
    BY <1>7 DEF ConfigRead, AppsIInv, ReadsAreOfHome
  <2>2. r.from \in {<<home, r.app>>, Elsewhere}
    BY DEF AppsIInv, ReadsAreOfHome
  <2>3. PICK from \in {<<home, r.app>>, Elsewhere, Defaults} :
           dialog' = [app |-> r.app, added |-> TRUE, from |-> from]
    BY <1>7, <2>2 DEF ConfigRead
  <2>4. DialogIsOfHome'
    BY <1>7, <2>3 DEF ConfigRead, DialogIsOfHome
  <2>5. QED
    BY <1>7, <2>1, <2>4 DEF ConfigRead, AppsIInv,
                            RequestsAreSound, RequestIsRecord, AsTheUserAsked, OneRequestOfAButton, SavedWhereRead
<1>8. ASSUME NEW kind \in Buttons, Press(kind) PROVE AppsIInv'
  <2>1. RequestsAreSound'
    BY <1>8, RequestKeepsSound DEF Press, AppsIInv, Buttons
  <2>2. QED
    BY <1>8, <2>1 DEF Press, AppsIInv, ReadsAreOfHome, DialogIsOfHome
<1>9. CASE HandleConfigSave
  <2>1. CASE dialog.added
    <3>1. Request("updateConfig", dialog.app, dialog.from) /\ dialog # Closed
      BY <1>9, <2>1 DEF HandleConfigSave
    <3>2. dialog.from \in {<<home, dialog.app>>, Defaults, Elsewhere}
      BY <2>1, <3>1 DEF AppsIInv, DialogIsOfHome
    <3>3. "updateConfig" \notin Buttons
      BY DEF Buttons
    <3>4. RequestsAreSound'
      BY <3>1, <3>2, <3>3, RequestKeepsSound DEF AppsIInv
    <3>5. QED
      BY <1>9, <3>4 DEF HandleConfigSave, AppsIInv, ReadsAreOfHome, DialogIsOfHome
  <2>2. CASE ~dialog.added
    <3>1. PICK name \in Apps : Request("add", name, Defaults)
      BY <1>9, <2>2 DEF HandleConfigSave
    <3>2. "add" \notin Buttons
      BY DEF Buttons
    <3>3. RequestsAreSound'
      BY <3>1, <3>2, RequestKeepsSound DEF AppsIInv
    <3>4. QED
      BY <1>9, <3>3 DEF HandleConfigSave, AppsIInv, ReadsAreOfHome, DialogIsOfHome
  <2>3. QED
    BY <2>1, <2>2
<1>10. ASSUME NEW r \in requests, RequestEnds(r) PROVE AppsIInv'
  BY <1>10 DEF RequestEnds, AppsIInv, ReadsAreOfHome, DialogIsOfHome,
               RequestsAreSound, RequestIsRecord, AsTheUserAsked, OneRequestOfAButton, SavedWhereRead
<1>11. QED
  BY <1>1, <1>2, <1>3, <1>4, <1>5, <1>6, <1>7, <1>8, <1>9, <1>10 DEF AppsNext

(* Deploy, update, restart and delete are each asked once at a time of an  *)
(* app, and a config is saved where it was read or is the default one,     *)
(* unless the instance was changed after Configure: for any apps and       *)
(* instances, through every leaving, returning and crossing of answers.    *)
THEOREM AppsStayAsAsked == AppsSpec => []AsTheUserAsked
<1>1. AppsInit => AppsIInv
  BY DEF AppsInit, AppsIInv, ReadsAreOfHome, DialogIsOfHome,
         RequestsAreSound, AsTheUserAsked, OneRequestOfAButton, SavedWhereRead
<1>2. AppsIInv => AsTheUserAsked
  BY DEF AppsIInv, RequestsAreSound
<1>3. QED
  BY <1>1, <1>2, AppsNextIInv, PTL DEF AppsSpec

-----------------------------------------------------------------------------
(* ServicePages.  The hook of a kind of request tracks the one request of  *)
(* that kind the mounted page has made, since its button is dead until     *)
(* then; so every callback of that page runs.                              *)
CallIsRecord(c) ==
    /\ c = [id |-> c.id, kind |-> c.kind, service |-> c.service, tries |-> c.tries,
            tracked |-> c.tracked, mounted |-> c.mounted]
    /\ c.tracked \in BOOLEAN /\ c.mounted = c.tracked

BusyIsNoted == \A s \in operating : \E c \in calls : c.mounted /\ c.kind \in Noting /\ c.service = s

RequestIsBusy == \A c \in calls : c.mounted /\ c.kind \in Lifecycles => c.service \in operating \cup cleaned

SvcIInv ==
    /\ \A c \in calls : CallIsRecord(c)
    /\ BusyIsNoted
    /\ RequestIsBusy
    /\ OneLifecycleRequest

LEMMA CallSvcIInv ==
    ASSUME SvcIInv, NEW kind, NEW s, Call(kind, s), ~IsPending(kind),
           kind \in Lifecycles => s \notin operating
    PROVE  SvcIInv'
<1>1. Untracked(kind) = calls
  <2>1. ASSUME NEW c \in calls PROVE [c EXCEPT !.tracked = c.tracked /\ c.kind # kind] = c
    <3>1. c.kind = kind => c.tracked = FALSE
      BY DEF IsPending, SvcIInv, CallIsRecord
    <3>2. (c.tracked /\ c.kind # kind) = c.tracked
      BY <3>1 DEF SvcIInv, CallIsRecord
    <3>3. QED
      BY <3>2 DEF SvcIInv, CallIsRecord
  <2>2. QED
    BY <2>1 DEF Untracked
<1>2. PICK new : /\ CallIsRecord(new)
                 /\ new.kind = kind /\ new.service = s /\ new.mounted = TRUE
                 /\ calls' = calls \cup {new}
  <2>1. PICK id : calls' = Untracked(kind) \cup {[id |-> id, kind |-> kind, service |-> s, tries |-> 0,
                                                  tracked |-> TRUE, mounted |-> TRUE]}
    BY DEF Call
  <2>2. PICK new : new = [id |-> id, kind |-> kind, service |-> s, tries |-> 0, tracked |-> TRUE, mounted |-> TRUE]
    OBVIOUS
  <2>3. CallIsRecord(new)
    BY <2>2 DEF CallIsRecord
  <2>4. QED
    BY <1>1, <2>1, <2>2, <2>3
<1>3. /\ operating' = IF kind \in Noting THEN operating \cup {s} ELSE operating
      /\ cleaned' = cleaned
  BY DEF Call
<1>4. \A c \in calls' : CallIsRecord(c)
  BY <1>2 DEF SvcIInv
<1>5. BusyIsNoted'
  BY <1>2, <1>3 DEF SvcIInv, BusyIsNoted
<1>6. RequestIsBusy'
  BY <1>2, <1>3 DEF SvcIInv, RequestIsBusy, Noting
<1>7. ASSUME NEW c \in calls', NEW d \in calls', c.mounted, d.mounted,
             {c.kind, d.kind} \subseteq Lifecycles, c.service = d.service, c # d
      PROVE  c.service \in cleaned
  <2>1. CASE c # new /\ d # new
    BY <1>2, <1>7, <2>1 DEF SvcIInv, OneLifecycleRequest
  <2>2. CASE c = new
    <3>1. d \in calls /\ kind \in Lifecycles /\ d.service = s
      BY <1>2, <1>7, <2>2
    <3>2. QED
      BY <1>7, <2>2, <3>1 DEF SvcIInv, RequestIsBusy
  <2>3. CASE d = new
    <3>1. c \in calls /\ kind \in Lifecycles /\ c.service = s
      BY <1>2, <1>7, <2>3
    <3>2. QED
      BY <1>7, <2>3, <3>1 DEF SvcIInv, RequestIsBusy
  <2>4. QED
    BY <2>1, <2>2, <2>3
<1>8. OneLifecycleRequest'
  BY <1>3, <1>7 DEF OneLifecycleRequest
<1>9. QED
  BY <1>4, <1>5, <1>6, <1>8 DEF SvcIInv

LEMMA SettledSvcIInv == ASSUME SvcIInv, NEW c \in calls, Settled(c) PROVE SvcIInv'
<1> DEFINE called == c.tracked /\ c.kind \in Noting
           followed == \E x \in calls' : x.mounted /\ x.service = c.service
<1>1. /\ calls' = calls \ {c}
      /\ operating' = IF called THEN operating \ {c.service} ELSE operating
      /\ cleaned' = IF called /\ followed THEN cleaned \cup {c.service} ELSE cleaned
  BY DEF Settled
<1>2. CallIsRecord(c)
  BY DEF SvcIInv
<1>3. BusyIsNoted'
  <2> SUFFICES ASSUME NEW s \in operating'
               PROVE  \E d \in calls' : d.mounted /\ d.kind \in Noting /\ d.service = s
    BY DEF BusyIsNoted
  <2>1. PICK d \in calls : d.mounted /\ d.kind \in Noting /\ d.service = s
    BY <1>1 DEF SvcIInv, BusyIsNoted
  <2>2. d # c
    BY <1>1, <1>2, <2>1 DEF CallIsRecord
  <2>3. QED
    BY <1>1, <2>1, <2>2
<1>4. RequestIsBusy'
  <2> SUFFICES ASSUME NEW d \in calls', d.mounted, d.kind \in Lifecycles
               PROVE  d.service \in operating' \cup cleaned'
    BY DEF RequestIsBusy
  <2>1. d.service \in operating \cup cleaned
    BY <1>1 DEF SvcIInv, RequestIsBusy
  <2>2. CASE d.service = c.service
    BY <1>1, <2>1, <2>2
  <2>3. CASE d.service # c.service
    BY <1>1, <2>1, <2>3
  <2>4. QED
    BY <2>2, <2>3
<1>5. OneLifecycleRequest'
  BY <1>1 DEF SvcIInv, OneLifecycleRequest
<1>6. QED
  BY <1>1, <1>3, <1>4, <1>5 DEF SvcIInv

LEMMA RetriedSvcIInv ==
    ASSUME SvcIInv, NEW c \in calls, UNCHANGED <<operating, cleaned>>,
           calls' = (calls \ {c}) \cup {[c EXCEPT !.tries = 1]}
    PROVE  SvcIInv'
<1>1. PICK again : again = [c EXCEPT !.tries = 1]
  OBVIOUS
<1>2. /\ CallIsRecord(again) /\ again.kind = c.kind /\ again.service = c.service
      /\ again.mounted = c.mounted
  <2>1. again = [id |-> c.id, kind |-> c.kind, service |-> c.service, tries |-> 1,
                 tracked |-> c.tracked, mounted |-> c.mounted]
    BY <1>1 DEF SvcIInv, CallIsRecord
  <2>2. QED
    BY <2>1 DEF SvcIInv, CallIsRecord
<1>3. calls' = (calls \ {c}) \cup {again}
  BY <1>1
<1>4. \A d \in calls' : CallIsRecord(d)
  BY <1>2, <1>3 DEF SvcIInv
<1>5. BusyIsNoted' /\ RequestIsBusy'
  BY <1>2, <1>3 DEF SvcIInv, BusyIsNoted, RequestIsBusy
<1>6. OneLifecycleRequest'
  BY <1>2, <1>3 DEF SvcIInv, OneLifecycleRequest
<1>7. QED
  BY <1>4, <1>5, <1>6 DEF SvcIInv

LEMMA SvcNextIInv == SvcIInv /\ [SvcNext]_svcVars => SvcIInv'
<1> SUFFICES ASSUME SvcIInv, [SvcNext]_svcVars PROVE SvcIInv'
  OBVIOUS
<1>1. CASE UNCHANGED <<operating, calls, cleaned>>
  BY <1>1 DEF SvcIInv, CallIsRecord, BusyIsNoted, RequestIsBusy, OneLifecycleRequest
<1>2. CASE LeavePage
  <2>1. operating' = {} /\ calls' = {[c EXCEPT !.tracked = FALSE, !.mounted = FALSE] : c \in calls}
    BY <1>2 DEF LeavePage
  <2>2. ASSUME NEW c \in calls' PROVE CallIsRecord(c) /\ ~c.mounted
    <3>1. PICK d \in calls : c = [d EXCEPT !.tracked = FALSE, !.mounted = FALSE]
      BY <2>1
    <3>2. d = [id |-> d.id, kind |-> d.kind, service |-> d.service, tries |-> d.tries,
               tracked |-> d.tracked, mounted |-> d.mounted]
      BY DEF SvcIInv, CallIsRecord
    <3>3. c = [id |-> d.id, kind |-> d.kind, service |-> d.service, tries |-> d.tries,
               tracked |-> FALSE, mounted |-> FALSE]
      BY <3>1, <3>2
    <3>4. QED
      BY <3>3 DEF CallIsRecord
  <2>3. QED
    BY <2>1, <2>2 DEF SvcIInv, BusyIsNoted, RequestIsBusy, OneLifecycleRequest
<1>3. CASE HandleFetch \/ HandleCompile \/ HandleDeploy \/ HandleDelete \/ HandleCleanFiles \/ HandleInstallAll
  <2>1. ASSUME NEW kind, NEW s, kind \in Lifecycles => s = opened, ~Blocked(kind), Call(kind, s)
        PROVE  SvcIInv'
    BY <2>1, CallSvcIInv DEF Blocked
  <2>2. "delete" \notin Lifecycles /\ "clean" \notin Lifecycles /\ "installAll" \notin Lifecycles
    BY DEF Lifecycles
  <2>3. QED
    BY <1>3, <2>1, <2>2 DEF HandleFetch, HandleCompile, HandleDeploy, HandleDelete, HandleCleanFiles, HandleInstallAll
<1>4. ASSUME NEW c \in calls, CallSucceeds(c) \/ CallFails(c) PROVE SvcIInv'
  BY <1>4, SettledSvcIInv, RetriedSvcIInv DEF CallSucceeds, CallFails
<1>5. CASE EnterPage \/ CloseService \/ LifecycleRead \/ (\E s \in Services : OpenService(s)) \/ UNCHANGED svcVars
  BY <1>1, <1>5 DEF EnterPage, CloseService, LifecycleRead, OpenService, svcVars
<1>6. QED
  BY <1>2, <1>3, <1>4, <1>5 DEF SvcNext

(* A service that the page takes to be busy has a request on its way, and  *)
(* the page never has two of fetch, compile and deploy under way for one   *)
(* service, unless its files were cleaned meanwhile: whatever failures,    *)
(* second tries and changes of service come between.                       *)
THEOREM BusyStaysTrue == SvcSpec => []BusyIsTrue
<1>1. SvcInit => SvcIInv
  BY DEF SvcInit, SvcIInv, BusyIsNoted, RequestIsBusy, OneLifecycleRequest
<1>2. SvcIInv => BusyIsTrue
  BY DEF SvcIInv, BusyIsNoted, BusyIsTrue, BusyHasRequest
<1>3. QED
  BY <1>1, <1>2, SvcNextIInv, PTL DEF SvcSpec

-----------------------------------------------------------------------------
(* LogView.  A fetch that was asked for with another choice, or with       *)
(* another fetch on its way, has been noted as crossed; so what is on its  *)
(* way otherwise is what is chosen.                                        *)
LogIInv ==
    /\ LogIsTheChosen
    /\ crossed \in BOOLEAN
    /\ ~crossed => \A f \in fetches : f.of = chosen

LEMMA FetchIsChosen ==
    ASSUME LogIInv, NEW choice, FetchLogs(choice), chosen' = choice, UNCHANGED follow,
           sources' = IF follow THEN {Following(choice)} ELSE {}
    PROVE  LogIInv'
<1>1. PICK id \in (1..MaxFetches) \ {f.id : f \in fetches} :
         fetches' = fetches \cup {[id |-> id, of |-> choice]}
  BY DEF FetchLogs
<1>2. logsLoading' /\ crossed' = (crossed \/ fetches # {})
  BY DEF FetchLogs
<1>3. ASSUME ~crossed', NEW f \in fetches' PROVE f.of = chosen'
  <2>1. fetches = {}
    BY <1>2, <1>3
  <2>2. f = [id |-> id, of |-> choice]
    BY <1>1, <2>1
  <2>3. QED
    BY <2>2
<1>4. LinesAreChosen'
  BY <1>2 DEF LinesAreChosen
<1>5. OneFollower'
  BY DEF OneFollower, Following
<1>6. crossed' \in BOOLEAN
  BY <1>2
<1>7. QED
  BY <1>3, <1>4, <1>5, <1>6 DEF LogIInv, LogIsTheChosen

LEMMA ChooseLogIInv == ASSUME LogIInv, NEW choice, Choose(choice) PROVE LogIInv'
<1>1. CASE follow
  BY <1>1 DEF Choose, LogIInv, LogIsTheChosen, OneFollower, LinesAreChosen, Following
<1>2. CASE ~follow
  <2>1. FetchLogs(choice) /\ chosen' = choice /\ UNCHANGED <<sources, follow>>
    BY <1>2 DEF Choose
  <2>2. sources = {}
    BY <1>2 DEF LogIInv, LogIsTheChosen, OneFollower
  <2>3. QED
    BY <1>2, <2>1, <2>2, FetchIsChosen
<1>3. QED
  BY <1>1, <1>2

LEMMA LogNextIInv == LogIInv /\ [LogNext]_logVars => LogIInv'
<1> SUFFICES ASSUME LogIInv, [LogNext]_logVars PROVE LogIInv'
  OBVIOUS
<1> USE DEF LogIInv, LogIsTheChosen
<1>1. CASE OpenDialog2
  <2>1. FetchLogs(chosen) /\ UNCHANGED <<chosen, follow, sources>>
    BY <1>1 DEF OpenDialog2
  <2>2. QED
    BY <2>1, FetchIsChosen DEF OneFollower
<1>2. CASE CloseDialog2
  BY <1>2 DEF CloseDialog2, OneFollower, LinesAreChosen
<1>3. CASE \/ PodsArrive
           \/ \E c \in Containers : ChooseContainer(c)
           \/ \E t \in Tails : ChooseTail(t)
  <2>1. \E choice : Choose(choice)
    BY <1>3 DEF PodsArrive, ChooseContainer, ChooseTail
  <2>2. QED
    BY <2>1, ChooseLogIInv
<1>4. CASE Follow
  BY <1>4 DEF Follow, OneFollower, LinesAreChosen, Following
<1>5. CASE Unfollow
  <2>1. FetchLogs(chosen) /\ chosen' = chosen /\ follow' = FALSE /\ sources' = {}
    BY <1>5 DEF Unfollow
  <2>2. PICK id \in (1..MaxFetches) \ {f.id : f \in fetches} :
           fetches' = fetches \cup {[id |-> id, of |-> chosen]}
    BY <2>1 DEF FetchLogs
  <2>3. logsLoading' /\ crossed' = (crossed \/ fetches # {})
    BY <2>1 DEF FetchLogs
  <2>4. ASSUME ~crossed', NEW f \in fetches' PROVE f.of = chosen'
    <3>1. fetches = {}
      BY <2>3, <2>4
    <3>2. f = [id |-> id, of |-> chosen]
      BY <2>2, <3>1
    <3>3. QED
      BY <2>1, <3>2
  <2>5. QED
    BY <2>1, <2>3, <2>4 DEF OneFollower, LinesAreChosen
<1>6. CASE Refresh
  <2>1. FetchLogs(chosen) /\ UNCHANGED <<chosen, follow, sources>>
    BY <1>6 DEF Refresh
  <2>2. QED
    BY <2>1, FetchIsChosen DEF OneFollower
<1>7. CASE Clear
  BY <1>7 DEF Clear, OneFollower, LinesAreChosen, Following
<1>8. ASSUME NEW source \in sources, Line(source) PROVE LogIInv'
  <2>1. source.of = chosen
    BY DEF OneFollower, Following
  <2>2. QED
    BY <1>8, <2>1 DEF Line, OneFollower, LinesAreChosen, Following
<1>9. ASSUME NEW fetch \in fetches, Answered(fetch) PROVE LogIInv'
  <2>1. /\ fetches' = fetches \ {fetch} /\ lines' \in {{fetch.of}, {}}
        /\ crossed' = (crossed /\ (fetches' # {} \/ follow \/ ~lines' \subseteq {chosen}))
        /\ UNCHANGED <<chosen, follow, sources>>
    BY <1>9 DEF Answered
  <2>2. ASSUME ~crossed' PROVE lines' \subseteq {chosen} /\ \A f \in fetches' : f.of = chosen
    BY <2>1, <2>2
  <2>3. QED
    BY <2>1, <2>2 DEF OneFollower, LinesAreChosen, Following
<1>10. CASE UNCHANGED logVars
  BY <1>10 DEF logVars, OneFollower, LinesAreChosen, Following
<1>11. QED
  BY <1>1, <1>2, <1>3, <1>4, <1>5, <1>6, <1>7, <1>8, <1>9, <1>10 DEF LogNext

(* The log tab holds one event source while it follows, that of the chosen *)
(* container and number of lines, and none otherwise; and the lines it     *)
(* shows are those, but for answers that were overtaken and lines that     *)
(* were followed before the choice changed.  Answers may come in any order.*)
THEOREM LogStaysTheChosen == LogSpec => []LogIsTheChosen
<1>1. LogInit => LogIInv
  BY DEF LogInit, LogIInv, LogIsTheChosen, OneFollower, LinesAreChosen
<1>2. LogIInv => LogIsTheChosen
  BY DEF LogIInv
<1>3. QED
  BY <1>1, <1>2, LogNextIInv, PTL DEF LogSpec

-----------------------------------------------------------------------------
(* A finite set of numbers that has an element has a greatest one: of its  *)
(* subsets that have none, a least one would be left with none when it     *)
(* loses an element.                                                       *)
LEMMA GreatestOfFinite ==
    ASSUME NEW S, IsFiniteSet(S), S \subseteq Nat, S # {}
    PROVE  Max(S) \in S /\ \A n \in S : Max(S) >= n
<1> DEFINE R == StrictSubsetOrdering(S)
           Topped(T) == \E m \in T : \A n \in T : m >= n
           Bad == {T \in SUBSET S : T # {} /\ ~Topped(T)}
<1>1. Bad = {}
  <2> SUFFICES ASSUME Bad # {} PROVE FALSE
    OBVIOUS
  <2>1. IsWellFoundedOn(R, SUBSET S)
    BY FS_StrictSubsetOrderingWellFounded, FS_FiniteSubsetsOfFinite
  <2>2. PICK T \in Bad : \A U \in Bad : <<U, T>> \notin R
    <3> HIDE DEF R, Topped
    <3>1. Bad \subseteq SUBSET S
      OBVIOUS
    <3> HIDE DEF Bad
    <3>2. QED
      BY <2>1, <3>1, WFMin
  <2>3. PICK t \in T : TRUE
    OBVIOUS
  <2>4. T \ {t} \notin Bad
    BY <2>2, <2>3 DEF StrictSubsetOrdering
  <2>5. CASE T \ {t} = {}
    <3>1. \A n \in T : t >= n
      BY <2>5
    <3>2. QED
      BY <2>3, <3>1
  <2>6. CASE Topped(T \ {t})
    <3>1. PICK m \in T \ {t} : \A n \in T \ {t} : m >= n
      BY <2>6
    <3>2. m \in Nat /\ t \in Nat /\ T \subseteq Nat
      BY <2>3
    <3>3. CASE m >= t
      <4>1. \A n \in T : m >= n
        BY <3>1, <3>3
      <4>2. QED
        BY <4>1
    <3>4. CASE ~(m >= t)
      <4>1. \A n \in T : t >= n
        BY <3>1, <3>2, <3>4
      <4>2. QED
        BY <2>3, <4>1
    <3>5. QED
      BY <3>3, <3>4
  <2>7. QED
    BY <2>4, <2>5, <2>6
<1>2. \E m \in S : \A n \in S : m >= n
  BY <1>1
<1>3. QED
  BY <1>2 DEF Max
(* NodeEditing.  The form follows the drawer, so that its values are of    *)
(* the node the drawer shows; a hostname the user has not typed is the one *)
(* that is generated from what is known by now.                            *)
KnownIsSound ==
    /\ known = [nodes |-> known.nodes, config |-> known.config] /\ known.config \in BOOLEAN
    /\ IsFiniteSet(known.nodes) /\ \A x \in known.nodes : x.hostname.n \in Nat

Shows(d) == d.mode \in {"add", "configure"}

FormIsRecord(f) ==
    /\ f = [mode |-> f.mode, of |-> f.of, hostname |-> f.hostname, role |-> f.role, octet |-> f.octet,
            typed |-> f.typed, unaddressed |-> f.unaddressed]
    /\ Shows(f) /\ f.typed \in BOOLEAN

FormIsOf(f, d) == FormIsRecord(f) /\ f.mode = d.mode /\ (d.mode = "configure" => f.of = d.node.hostname)

NameIsGenerated(f, k) == f.mode = "add" /\ ~f.typed => f.hostname = GeneratedHostname(f.role, k)

(* A form that was filled with what was known earlier.                     *)
NameWasGenerated(f, k) ==
    f.mode = "add" /\ ~f.typed =>
        /\ f.hostname.stem \in {"control", "worker"}
        /\ f.hostname.prefixed => k.config

DrawerHasForm ==
    \/ drawer = NoForm /\ nodeForm = NoForm
    \/ Shows(drawer) /\ FormIsOf(nodeForm, drawer) /\ NameIsGenerated(nodeForm, known)

CallsAreSound ==
    \A c \in nodeCalls : c = [op |-> c.op, node |-> c.node, of |-> c.of, latest |-> c.latest]
                         /\ (c.op = "update" => c.of = c.node)

EditIInv ==
    /\ KnownIsSound
    /\ \A d \in detecting : Shows(d)
    /\ DrawerHasForm
    /\ CallsAreSound

LEMMA GeneratedStem ==
    ASSUME NEW role, NEW k
    PROVE  /\ GeneratedHostname(role, k).stem = Stem(role)
           /\ GeneratedHostname(role, k).stem \in {"control", "worker"}
           /\ GeneratedHostname(role, k).prefixed = k.config
BY DEF GeneratedHostname, Stem

(* The effects of a form keep what it is about, and the hostname they find *)
(* generated is generated again.                                           *)
LEMMA SettleKeeps ==
    ASSUME NEW f, NEW k, FormIsRecord(f), NameWasGenerated(f, k), NEW g, g = Settle(f, k)
    PROVE  FormIsRecord(g) /\ g.mode = f.mode /\ g.of = f.of /\ NameIsGenerated(g, k)
<1>1. f # NoForm
  BY DEF FormIsRecord, Shows, NoForm
<1>2. PICK h : h = WithHostname(f, k)
  OBVIOUS
<1>3. g = WithOctet(h, k)
  BY <1>1, <1>2 DEF Settle
<1>4. FormIsRecord(h) /\ h.mode = f.mode /\ h.of = f.of /\ h.role = f.role /\ NameIsGenerated(h, k)
  <2>1. CASE h = [f EXCEPT !.hostname = GeneratedHostname(f.role, k), !.typed = FALSE]
    <3>1. PICK name : name = GeneratedHostname(f.role, k)
      OBVIOUS
    <3>2. h = [mode |-> f.mode, of |-> f.of, hostname |-> name, role |-> f.role, octet |-> f.octet,
               typed |-> FALSE, unaddressed |-> f.unaddressed]
      BY <2>1, <3>1 DEF FormIsRecord
    <3>3. QED
      BY <3>1, <3>2 DEF FormIsRecord, Shows, NameIsGenerated
  <2>2. CASE h # [f EXCEPT !.hostname = GeneratedHostname(f.role, k), !.typed = FALSE]
    <3>1. h = f /\ ~(f.mode = "add" /\ ~f.typed)
      BY <1>2, <2>2 DEF WithHostname, NameWasGenerated
    <3>2. QED
      BY <3>1 DEF NameIsGenerated
  <2>3. QED
    BY <2>1, <2>2
<1>5. CASE g = h
  BY <1>4, <1>5
<1>6. CASE g # h
  <2>1. PICK octet : g = [h EXCEPT !.octet = octet]
    BY <1>3, <1>6 DEF WithOctet
  <2>2. g = [mode |-> h.mode, of |-> h.of, hostname |-> h.hostname, role |-> h.role, octet |-> octet,
             typed |-> h.typed, unaddressed |-> h.unaddressed]
    BY <1>4, <2>1 DEF FormIsRecord
  <2>3. QED
    BY <1>4, <2>2 DEF FormIsRecord, Shows, NameIsGenerated
<1>7. QED
  BY <1>5, <1>6

LEMMA InitialValuesAreSound ==
    ASSUME NEW d, Shows(d), NEW k, NEW f, f = InitialValues(d, k)
    PROVE  FormIsOf(f, d) /\ NameWasGenerated(f, k)
<1>1. CASE d.mode = "configure"
  <2>1. PICK unaddressed : f = [mode |-> "configure", of |-> d.node.hostname, hostname |-> d.node.hostname,
            role |-> d.node.role, octet |-> d.node.octet, typed |-> FALSE, unaddressed |-> unaddressed]
    BY <1>1 DEF InitialValues
  <2>2. QED
    BY <1>1, <2>1 DEF FormIsOf, FormIsRecord, Shows, NameWasGenerated
<1>2. CASE d.mode # "configure"
  <2>1. PICK role : role = DefaultRole(k)
    OBVIOUS
  <2>2. PICK name : name = GeneratedHostname(role, k)
    OBVIOUS
  <2>3. f = [mode |-> "add", of |-> d.machine, hostname |-> name, role |-> role, octet |-> NoOctet,
             typed |-> FALSE, unaddressed |-> FALSE]
    BY <1>2, <2>1, <2>2 DEF InitialValues
  <2>4. FormIsOf(f, d)
    BY <1>2, <2>3 DEF FormIsOf, FormIsRecord, Shows
  <2>5. NameWasGenerated(f, k)
    BY <2>2, <2>3, GeneratedStem DEF NameWasGenerated
  <2>6. QED
    BY <2>4, <2>5
<1>3. QED
  BY <1>1, <1>2

(* What the form is filled with, by a click or by an answer.               *)
LEMMA ShowKeeps ==
    ASSUME DrawerHasForm, NEW d, Shows(d), Show(d), known' = known
    PROVE  DrawerHasForm'
<1>1. drawer' = d
  BY DEF Show
<1>2. CASE Resets(nodeForm, d)
  <2>1. PICK f : f = InitialValues(d, known)
    OBVIOUS
  <2>2. nodeForm' = Settle(f, known)
    BY <1>2, <2>1 DEF Show
  <2>3. FormIsOf(f, d) /\ NameWasGenerated(f, known)
    BY <2>1, InitialValuesAreSound
  <2>4. FormIsOf(nodeForm', d) /\ NameIsGenerated(nodeForm', known)
    BY <2>2, <2>3, SettleKeeps DEF FormIsOf
  <2>5. QED
    BY <1>1, <2>4 DEF DrawerHasForm
<1>3. CASE ~Resets(nodeForm, d)
  <2>1. nodeForm' = nodeForm /\ nodeForm.mode = d.mode /\ (d.mode = "configure" => nodeForm.of = d.node.hostname)
    BY <1>3 DEF Show, Resets
  <2>2. nodeForm # NoForm
    BY <2>1 DEF Shows, NoForm
  <2>3. QED
    BY <1>1, <2>1, <2>2 DEF DrawerHasForm, FormIsOf
<1>4. QED
  BY <1>2, <1>3

(* A form that is there is settled after what is known, or its role, has   *)
(* changed.                                                                *)
LEMMA ResettledKeeps ==
    ASSUME DrawerHasForm, nodeForm # NoForm, NEW f, FormIsRecord(f), f.mode = nodeForm.mode, f.of = nodeForm.of,
           NameWasGenerated(f, known'), nodeForm' = Settle(f, known'), drawer' = drawer
    PROVE  DrawerHasForm'
<1>1. FormIsRecord(nodeForm') /\ nodeForm'.mode = f.mode /\ nodeForm'.of = f.of /\ NameIsGenerated(nodeForm', known')
  BY SettleKeeps
<1>2. QED
  BY <1>1 DEF DrawerHasForm, FormIsOf

LEMMA SendKeeps ==
    ASSUME CallsAreSound, NEW asked, Send(asked),
           \A c \in asked : \E op, node, of : c = Asking(op, node, of) /\ (op = "update" => of = node)
    PROVE  CallsAreSound'
<1>1. nodeCalls' = {[c EXCEPT !.latest = c.latest /\ \A r \in asked : r.op # c.op] : c \in nodeCalls} \cup asked
  BY DEF Send
<1>2. ASSUME NEW c \in asked
      PROVE  c = [op |-> c.op, node |-> c.node, of |-> c.of, latest |-> c.latest] /\ (c.op = "update" => c.of = c.node)
  BY <1>2 DEF Asking
<1>3. ASSUME NEW c \in nodeCalls, NEW latest, NEW d, d = [c EXCEPT !.latest = latest]
      PROVE  d = [op |-> d.op, node |-> d.node, of |-> d.of, latest |-> d.latest] /\ (d.op = "update" => d.of = d.node)
  <2>1. d = [op |-> c.op, node |-> c.node, of |-> c.of, latest |-> latest]
    BY <1>3 DEF CallsAreSound
  <2>2. QED
    BY <2>1 DEF CallsAreSound
<1>4. ASSUME NEW d \in nodeCalls', d \notin asked
      PROVE  d = [op |-> d.op, node |-> d.node, of |-> d.of, latest |-> d.latest] /\ (d.op = "update" => d.of = d.node)
  <2>1. PICK c \in nodeCalls : d = [c EXCEPT !.latest = c.latest /\ \A r \in asked : r.op # c.op]
    BY <1>1, <1>4
  <2>2. QED
    BY <1>3, <2>1
<1>5. QED
  BY <1>2, <1>4 DEF CallsAreSound

(* A hostname that was generated is still found to be, when the list of    *)
(* nodes has changed or the configuration has become known.                *)
LEMMA GeneratedStays ==
    ASSUME KnownIsSound, NEW f, NameIsGenerated(f, known), NEW k, known.config => k.config
    PROVE  NameWasGenerated(f, k)
BY GeneratedStem DEF NameIsGenerated, NameWasGenerated

LEMMA ReadIInv == ASSUME EditIInv, NodesRead \/ ConfigurationRead \/ ChooseRole PROVE EditIInv'
<1>1. UNCHANGED <<detecting, drawer, nodeCalls>>
  BY DEF NodesRead, ConfigurationRead, ChooseRole
<1>2. KnownIsSound' /\ (known.config => known'.config)
  <2>1. CASE NodesRead
    <3>1. PICK list \in Inventories : known' = [known EXCEPT !.nodes = list]
      BY <2>1 DEF NodesRead
    <3>2. known' = [nodes |-> list, config |-> known.config]
      BY <3>1 DEF EditIInv, KnownIsSound
    <3>3. QED
      BY <3>2, InventoriesAssumption DEF EditIInv, KnownIsSound
  <2>2. CASE ConfigurationRead
    <3>1. known' = [nodes |-> known.nodes, config |-> TRUE]
      BY <2>2 DEF ConfigurationRead, EditIInv, KnownIsSound
    <3>2. QED
      BY <3>1 DEF EditIInv, KnownIsSound
  <2>3. CASE ChooseRole
    BY <2>3 DEF ChooseRole, EditIInv, KnownIsSound
  <2>4. QED
    BY <2>1, <2>2, <2>3
<1>3. DrawerHasForm'
  <2>1. CASE nodeForm = NoForm
    <3>1. nodeForm' = NoForm
      BY <2>1 DEF NodesRead, ConfigurationRead, ChooseRole, Settle
    <3>2. ~Shows(nodeForm)
      BY <2>1 DEF Shows, NoForm
    <3>3. drawer = NoForm
      BY <3>2 DEF EditIInv, DrawerHasForm, FormIsOf, FormIsRecord
    <3>4. QED
      BY <1>1, <3>1, <3>3 DEF DrawerHasForm
  <2>2. CASE nodeForm # NoForm
    <3>1. FormIsRecord(nodeForm) /\ NameIsGenerated(nodeForm, known)
      BY <2>2 DEF EditIInv, DrawerHasForm, FormIsOf
    <3>2. NameWasGenerated(nodeForm, known')
      BY <1>2, <3>1, GeneratedStays DEF EditIInv
    <3>3. ASSUME NEW role, NEW f, f = [nodeForm EXCEPT !.role = role]
          PROVE  FormIsRecord(f) /\ f.mode = nodeForm.mode /\ f.of = nodeForm.of /\ NameWasGenerated(f, known')
      <4>1. f = [mode |-> nodeForm.mode, of |-> nodeForm.of, hostname |-> nodeForm.hostname, role |-> role,
                 octet |-> nodeForm.octet, typed |-> nodeForm.typed, unaddressed |-> nodeForm.unaddressed]
        BY <3>1, <3>3 DEF FormIsRecord
      <4>2. QED
        BY <3>1, <3>2, <4>1 DEF FormIsRecord, Shows, NameWasGenerated
    <3>4. PICK f : /\ f = nodeForm \/ \E role : f = [nodeForm EXCEPT !.role = role]
                   /\ nodeForm' = Settle(f, known')
      <4>1. CASE NodesRead
        BY <2>2, <4>1 DEF NodesRead, WithRole
      <4>2. CASE ConfigurationRead
        BY <4>2 DEF ConfigurationRead
      <4>3. CASE ChooseRole
        <5>1. known' = known
          BY <4>3 DEF ChooseRole
        <5>2. PICK role : nodeForm' = Settle([nodeForm EXCEPT !.role = role], known)
          BY <4>3 DEF ChooseRole
        <5>3. QED
          BY <5>1, <5>2
      <4>4. QED
        BY <4>1, <4>2, <4>3
    <3>5. FormIsRecord(f) /\ f.mode = nodeForm.mode /\ f.of = nodeForm.of /\ NameWasGenerated(f, known')
      BY <3>1, <3>2, <3>3, <3>4
    <3>6. QED
      BY <1>1, <2>2, <3>4, <3>5, ResettledKeeps DEF EditIInv
  <2>3. QED
    BY <2>1, <2>2
<1>4. QED
  BY <1>1, <1>2, <1>3 DEF EditIInv, CallsAreSound

LEMMA SubmitIInv == ASSUME EditIInv, AddSubmit \/ ConfigureSubmit \/ DeleteNode \/ ApplyFromCard PROVE EditIInv'
<1>1. UNCHANGED <<known, detecting>>
  BY DEF AddSubmit, ConfigureSubmit, DeleteNode, ApplyFromCard
<1>2. DrawerHasForm'
  BY DEF AddSubmit, ConfigureSubmit, DeleteNode, ApplyFromCard, Shut, EditIInv, DrawerHasForm
<1>3. CallsAreSound'
  <2>1. CASE AddSubmit
    BY <2>1, SendKeeps DEF AddSubmit, EditIInv
  <2>2. CASE ConfigureSubmit
    <3>1. PICK apply \in {{}, {Asking("apply", drawer.node.hostname, drawer.node.hostname)}} :
             Send({Asking("update", drawer.node.hostname, nodeForm.of)} \cup apply)
      BY <2>2 DEF ConfigureSubmit
    <3>2. nodeForm.of = drawer.node.hostname
      BY <2>2 DEF ConfigureSubmit, EditIInv, DrawerHasForm, FormIsOf
    <3>3. QED
      BY <3>1, <3>2, SendKeeps DEF EditIInv
  <2>3. CASE DeleteNode
    <3>1. \/ Send({Asking("delete", drawer.node.hostname, drawer.node.hostname)})
          \/ UNCHANGED nodeCalls
      BY <2>3 DEF DeleteNode
    <3>2. CASE UNCHANGED nodeCalls
      BY <3>2 DEF EditIInv, CallsAreSound
    <3>3. QED
      BY <3>1, <3>2, SendKeeps DEF EditIInv
  <2>4. CASE ApplyFromCard
    BY <2>4, SendKeeps DEF ApplyFromCard, EditIInv
  <2>5. QED
    BY <2>1, <2>2, <2>3, <2>4
<1>4. QED
  BY <1>1, <1>2, <1>3 DEF EditIInv, KnownIsSound

LEMMA ClickIInv ==
    ASSUME EditIInv, AddNode \/ ConfigureNode \/ Detected \/ TypeHostname \/ CloseDrawer PROVE EditIInv'
<1>1. UNCHANGED <<known, nodeCalls>>
  BY DEF AddNode, ConfigureNode, Detected, TypeHostname, CloseDrawer, Detect
<1>2. KnownIsSound' /\ CallsAreSound'
  BY <1>1 DEF EditIInv, KnownIsSound, CallsAreSound
<1>3. ASSUME NEW d, Shows(d), Detect(d) PROVE EditIInv'
  BY <1>2, <1>3 DEF Detect, EditIInv, DrawerHasForm
<1>4. CASE AddNode
  BY <1>3, <1>4 DEF AddNode, Shows
<1>5. CASE ConfigureNode
  <2>1. PICK x : LET d == [mode |-> "configure", node |-> x] IN
                     Detect(d) \/ (drawer = NoForm /\ Show(d) /\ UNCHANGED detecting)
    BY <1>5 DEF ConfigureNode
  <2>2. PICK d : d = [mode |-> "configure", node |-> x]
    OBVIOUS
  <2>3. Shows(d) /\ (Detect(d) \/ (Show(d) /\ UNCHANGED detecting))
    BY <2>1, <2>2 DEF Shows
  <2>4. CASE Show(d) /\ UNCHANGED detecting
    BY <1>1, <1>2, <2>3, <2>4, ShowKeeps DEF EditIInv
  <2>5. QED
    BY <1>3, <2>3, <2>4
<1>6. CASE Detected
  <2>1. PICK d \in detecting : detecting' = detecting \ {d} /\ (Show(d) \/ UNCHANGED <<drawer, nodeForm>>)
    BY <1>6 DEF Detected
  <2>2. DrawerHasForm'
    <3>1. CASE Show(d)
      BY <1>1, <3>1, ShowKeeps DEF EditIInv
    <3>2. CASE UNCHANGED <<drawer, nodeForm>>
      BY <1>1, <3>2 DEF EditIInv, DrawerHasForm
    <3>3. QED
      BY <2>1, <3>1, <3>2
  <2>3. QED
    BY <1>2, <2>1, <2>2 DEF EditIInv
<1>7. CASE TypeHostname
  <2>1. PICK h : nodeForm' = [nodeForm EXCEPT !.hostname = h, !.typed = TRUE]
    BY <1>7 DEF TypeHostname
  <2>2. /\ nodeForm # NoForm /\ UNCHANGED <<detecting, drawer>>
    BY <1>7 DEF TypeHostname
  <2>3. Shows(drawer) /\ FormIsOf(nodeForm, drawer)
    BY <2>2 DEF EditIInv, DrawerHasForm
  <2>4. nodeForm' = [mode |-> nodeForm.mode, of |-> nodeForm.of, hostname |-> h, role |-> nodeForm.role,
                     octet |-> nodeForm.octet, typed |-> TRUE, unaddressed |-> nodeForm.unaddressed]
    BY <2>1, <2>3 DEF FormIsOf, FormIsRecord
  <2>5. FormIsOf(nodeForm', drawer) /\ NameIsGenerated(nodeForm', known)
    BY <2>3, <2>4 DEF FormIsOf, FormIsRecord, Shows, NameIsGenerated
  <2>6. QED
    BY <1>1, <1>2, <2>2, <2>3, <2>5 DEF EditIInv, DrawerHasForm
<1>8. CASE CloseDrawer
  BY <1>2, <1>8 DEF CloseDrawer, Shut, EditIInv, DrawerHasForm
<1>9. QED
  BY <1>4, <1>5, <1>6, <1>7, <1>8

LEMMA EditNextIInv == EditIInv /\ [NodeNext]_nodeVars => EditIInv'
<1> SUFFICES ASSUME EditIInv, [NodeNext]_nodeVars PROVE EditIInv'
  OBVIOUS
<1>1. CASE Answer
  <2>1. nodeCalls' \subseteq nodeCalls /\ UNCHANGED <<known, detecting, drawer, nodeForm>>
    BY <1>1 DEF Answer
  <2>2. QED
    BY <2>1 DEF EditIInv, KnownIsSound, DrawerHasForm, CallsAreSound
<1>2. CASE UNCHANGED nodeVars
  BY <1>2 DEF nodeVars, EditIInv, KnownIsSound, DrawerHasForm, CallsAreSound
<1>3. QED
  BY <1>1, <1>2, ReadIInv, SubmitIInv, ClickIInv DEF NodeNext

LEMMA EditInitIInv == EditInit => EditIInv
<1>1. IsFiniteSet({})
  BY FS_EmptySet
<1>2. QED
  BY <1>1 DEF EditInit, EditIInv, KnownIsSound, DrawerHasForm, CallsAreSound

(* No node is given the role and the address of another: what an update    *)
(* names is what its values were read from, in whatever order hardware     *)
(* answers, drawers open and close and lists are read.                     *)
THEOREM UpdateStaysOfItsNode == EditSpec => []UpdateIsOfItsNode
<1>1. EditIInv => UpdateIsOfItsNode
  BY DEF EditIInv, CallsAreSound, UpdateIsOfItsNode
<1>2. QED
  BY <1>1, EditInitIInv, EditNextIInv, PTL DEF EditSpec

(* The hostname the form proposes is no node's of that role, for all lists *)
(* of nodes, with all numbers.                                             *)
THEOREM ProposedNameStaysFree == EditSpec => []ProposedNameIsFree
<1>1. EditIInv => ProposedNameIsFree
  <2> SUFFICES ASSUME EditIInv, nodeForm # NoForm, nodeForm.mode = "add", ~nodeForm.typed,
                      NEW x \in known.nodes, x.role = nodeForm.role, x.hostname = nodeForm.hostname
               PROVE  FALSE
    BY DEF ProposedNameIsFree
  <2> DEFINE like == {y \in known.nodes : /\ y.role = nodeForm.role /\ y.hostname.stem = Stem(nodeForm.role)
                                         /\ known.config => y.hostname.prefixed}
             numbers == {z.hostname.n : z \in like}
             S == numbers \cup {0}
  <2>1. nodeForm.hostname = [prefixed |-> known.config, stem |-> Stem(nodeForm.role), n |-> 1 + Max(S)]
    <3>1. nodeForm.hostname = GeneratedHostname(nodeForm.role, known)
      BY DEF EditIInv, DrawerHasForm, NameIsGenerated
    <3>2. QED
      BY <3>1 DEF GeneratedHostname
  <2>2. IsFiniteSet(S) /\ S \subseteq Nat
    <3>1. IsFiniteSet(like)
      BY FS_Subset DEF EditIInv, KnownIsSound
    <3>2. IsFiniteSet(numbers)
      <4>1. PICK f : f = [z \in like |-> z.hostname.n]
        OBVIOUS
      <4>2. f \in Surjection(like, numbers)
        BY <4>1 DEF Surjection
      <4> HIDE DEF like, numbers
      <4>3. QED
        BY <3>1, <4>2, FS_Surjection
    <3>3. IsFiniteSet(S)
      BY <3>2, FS_AddElement
    <3>4. QED
      BY <3>3 DEF EditIInv, KnownIsSound
  <2>3. Max(S) \in Nat /\ \A n \in S : Max(S) >= n
    BY <2>2, GreatestOfFinite
  <2>4. x.hostname.n \in S
    <3>1. x.hostname.stem = Stem(nodeForm.role) /\ x.hostname.prefixed = known.config
      BY <2>1
    <3>2. x \in like
      BY <3>1
    <3>3. QED
      BY <3>2
  <2>5. x.hostname.n = 1 + Max(S)
    BY <2>1
  <2> HIDE DEF S
  <2>6. Max(S) >= 1 + Max(S)
    BY <2>3, <2>4, <2>5
  <2>7. QED
    BY <2>3, <2>6
<1>2. QED
  BY <1>1, EditInitIInv, EditNextIInv, PTL DEF EditSpec

-----------------------------------------------------------------------------
(* BackupPages.  What a second request would say is what the dialog holds, *)
(* or held when the page was left: the app that was chosen or none, unless *)
(* the address has come to name one.  The dialog of a restore holds the    *)
(* app the page names, if it names one.                                    *)
Mine(b, app) == app \in {b.chosen, NoneChosen} \/ b.readdressed

BackupIsSound(b) ==
    /\ b = [chosen |-> b.chosen, app |-> b.app, tries |-> b.tries, waits |-> b.waits,
            here |-> b.here, next |-> b.next, readdressed |-> b.readdressed]
    /\ b.here \in BOOLEAN /\ b.readdressed \in BOOLEAN
    /\ Mine(b, b.app)
    /\ b.here => Mine(b, createApp) /\ onBackups
    /\ ~b.here => Mine(b, b.next)

DialogOfPage == createOpen => onBackups

RestoresAreSound ==
    /\ restores # {} => restoring
    /\ \A r, q \in restores : r = q
    /\ \A r \in restores : r.app = r.shown

RestoreAppIsNamed == AppName # NoneChosen => restoreApp = AppName

BackupsIInv ==
    /\ \A b \in backups : BackupIsSound(b)
    /\ DialogOfPage
    /\ RestoresAreSound
    /\ RestoreAppIsNamed

LEMMA SelectNames == ASSUME RestoreAppIsNamed, NEW app, NEW backup, Select(app, backup) PROVE RestoreAppIsNamed'
<1>1. AppName' = Named(app, backup)
  BY DEF Select, AppName, Named
<1>2. QED
  BY <1>1 DEF Select, RestoreAppIsNamed

(* The dialog of a restore is left alone: so is all that is said of it.    *)
LEMMA RestoreUnchanged ==
    ASSUME BackupsIInv, UNCHANGED restoreVars PROVE RestoresAreSound' /\ RestoreAppIsNamed'
BY DEF BackupsIInv, restoreVars, RestoresAreSound, RestoreAppIsNamed, AppName, Named

LEMMA CreateUnchanged ==
    ASSUME BackupsIInv, UNCHANGED whereVars, UNCHANGED createVars
    PROVE  (\A b \in backups' : BackupIsSound(b)') /\ DialogOfPage'
BY DEF BackupsIInv, whereVars, createVars, BackupIsSound, Mine, DialogOfPage

LEMMA LeaveIInv == ASSUME BackupsIInv, LeaveBackups PROVE BackupsIInv'
<1>1. backups' = {IF b.here THEN [b EXCEPT !.here = FALSE, !.next = createApp] ELSE b : b \in backups}
  BY DEF LeaveBackups
<1>2. ASSUME NEW c \in backups' PROVE BackupIsSound(c)'
  <2>1. PICK b \in backups : c = IF b.here THEN [b EXCEPT !.here = FALSE, !.next = createApp] ELSE b
    BY <1>1
  <2>2. BackupIsSound(b)
    BY DEF BackupsIInv
  <2>3. CASE b.here
    <3>1. b = [chosen |-> b.chosen, app |-> b.app, tries |-> b.tries, waits |-> b.waits,
               here |-> b.here, next |-> b.next, readdressed |-> b.readdressed]
      BY <2>2 DEF BackupIsSound
    <3>2. c = [chosen |-> b.chosen, app |-> b.app, tries |-> b.tries, waits |-> b.waits,
               here |-> FALSE, next |-> createApp, readdressed |-> b.readdressed]
      BY <2>1, <2>3, <3>1
    <3>3. QED
      BY <2>2, <2>3, <3>2 DEF BackupIsSound, Mine
  <2>4. CASE ~b.here
    BY <2>1, <2>2, <2>4 DEF BackupIsSound, Mine
  <2>5. QED
    BY <2>3, <2>4
<1>3. RestoresAreSound' /\ RestoreAppIsNamed' /\ DialogOfPage'
  BY DEF LeaveBackups, RestoresAreSound, RestoreAppIsNamed, AppName, Named, DialogOfPage
<1>4. QED
  BY <1>2, <1>3 DEF BackupsIInv

LEMMA AddressIInv == ASSUME BackupsIInv, NEW a, AddressNames(a) PROVE BackupsIInv'
<1>1. /\ backups' = {[b EXCEPT !.readdressed = @ \/ (b.here /\ a # NoneChosen)] : b \in backups}
      /\ createApp' = IF a = NoneChosen THEN createApp ELSE a
      /\ UNCHANGED <<onBackups, createOpen, restoreVars>>
  BY DEF AddressNames
<1>2. ASSUME NEW c \in backups' PROVE BackupIsSound(c)'
  <2>1. PICK b \in backups : c = [b EXCEPT !.readdressed = b.readdressed \/ (b.here /\ a # NoneChosen)]
    BY <1>1
  <2>2. BackupIsSound(b)
    BY DEF BackupsIInv
  <2>3. PICK now \in BOOLEAN : now = (b.readdressed \/ (b.here /\ a # NoneChosen))
    OBVIOUS
  <2>4. b = [chosen |-> b.chosen, app |-> b.app, tries |-> b.tries, waits |-> b.waits,
             here |-> b.here, next |-> b.next, readdressed |-> b.readdressed]
    BY <2>2 DEF BackupIsSound
  <2>5. c = [chosen |-> b.chosen, app |-> b.app, tries |-> b.tries, waits |-> b.waits,
             here |-> b.here, next |-> b.next, readdressed |-> now]
    BY <2>1, <2>3, <2>4
  <2>6. Mine(b, b.app) /\ (b.readdressed => now)
    BY <2>2, <2>3 DEF BackupIsSound
  <2>7. b.here => (Mine(b, createApp') \/ now) /\ onBackups
    BY <1>1, <2>2, <2>3 DEF BackupIsSound
  <2>8. ~b.here => Mine(b, b.next)
    BY <2>2 DEF BackupIsSound
  <2>9. b.here \in BOOLEAN
    BY <2>2 DEF BackupIsSound
  <2>10. QED
    BY <1>1, <2>5, <2>6, <2>7, <2>8, <2>9 DEF BackupIsSound, Mine
<1>3. DialogOfPage'
  BY <1>1 DEF BackupsIInv, DialogOfPage
<1>4. QED
  BY <1>1, <1>2, <1>3, RestoreUnchanged DEF BackupsIInv

LEMMA BackupStepIInv ==
    ASSUME BackupsIInv, NEW b \in backups, BackupEnds(b) \/ BackupFails(b) \/ BackupRetried(b)
    PROVE  BackupsIInv'
<1>1. UNCHANGED <<whereVars, createOpen, createApp, restoreVars>>
  BY DEF BackupEnds, BackupFails, BackupRetried
<1>2. b = [chosen |-> b.chosen, app |-> b.app, tries |-> b.tries, waits |-> b.waits,
           here |-> b.here, next |-> b.next, readdressed |-> b.readdressed]
  BY DEF BackupsIInv, BackupIsSound
<1>3. BackupIsSound(b)
  BY DEF BackupsIInv
<1>4. \E c : BackupIsSound(c) /\ backups' \subseteq backups \cup {c}
  <2>1. CASE BackupEnds(b)
    BY <1>3, <2>1 DEF BackupEnds
  <2>2. CASE BackupFails(b)
    <3>1. PICK c : c = [b EXCEPT !.waits = TRUE]
      OBVIOUS
    <3>2. c = [chosen |-> b.chosen, app |-> b.app, tries |-> b.tries, waits |-> TRUE,
               here |-> b.here, next |-> b.next, readdressed |-> b.readdressed]
      BY <1>2, <3>1
    <3>3. BackupIsSound(c)
      BY <1>3, <3>2 DEF BackupIsSound, Mine
    <3>4. QED
      BY <2>2, <3>1, <3>3 DEF BackupFails
  <2>3. CASE BackupRetried(b)
    <3>1. PICK app : app = IF b.here THEN createApp ELSE b.next
      OBVIOUS
    <3>2. PICK c : c = [b EXCEPT !.waits = FALSE, !.tries = 2, !.app = app]
      OBVIOUS
    <3>3. c = [chosen |-> b.chosen, app |-> app, tries |-> 2, waits |-> FALSE,
               here |-> b.here, next |-> b.next, readdressed |-> b.readdressed]
      BY <1>2, <3>2
    <3>4. Mine(b, app)
      BY <1>3, <3>1 DEF BackupIsSound
    <3>5. BackupIsSound(c)
      BY <1>3, <3>3, <3>4 DEF BackupIsSound, Mine
    <3>6. backups' = (backups \ {b}) \cup {c}
      BY <2>3, <3>1, <3>2 DEF BackupRetried
    <3>7. QED
      BY <3>5, <3>6
  <2>4. QED
    BY <2>1, <2>2, <2>3
<1>5. ASSUME NEW c, BackupIsSound(c) PROVE BackupIsSound(c)'
  BY <1>1, <1>5 DEF whereVars, BackupIsSound, Mine
<1>6. \A c \in backups' : BackupIsSound(c)'
  BY <1>4, <1>5 DEF BackupsIInv
<1>7. DialogOfPage'
  BY <1>1 DEF BackupsIInv, DialogOfPage, whereVars
<1>8. QED
  BY <1>1, <1>6, <1>7, RestoreUnchanged DEF BackupsIInv

(* The dialog of a backup: what is chosen in it, shown and asked for.      *)
LEMMA CreateIInv ==
    ASSUME BackupsIInv,
           \/ OpenCreate \/ HandleCreate \/ TimerCloses \/ HandleClose
           \/ \E a \in BackupApps \cup {NoneChosen} : VisitBackups(a)
           \/ \E a \in BackupApps : ChooseApp(a)
    PROVE  BackupsIInv'
<1>1. UNCHANGED restoreVars
  BY DEF OpenCreate, HandleCreate, TimerCloses, HandleClose, VisitBackups, ChooseApp
<1>2. DialogOfPage'
  BY DEF OpenCreate, HandleCreate, TimerCloses, HandleClose, VisitBackups, ChooseApp, whereVars, BackupsIInv, DialogOfPage
<1>3. CASE HandleCreate
  <2>1. PICK new : /\ new = [chosen |-> createApp, app |-> createApp, tries |-> 1, waits |-> FALSE,
                            here |-> TRUE, next |-> NoneChosen, readdressed |-> FALSE]
                   /\ backups' = backups \cup {new}
    BY <1>3 DEF HandleCreate
  <2>2. UNCHANGED <<createApp, onBackups>> /\ createOpen
    BY <1>3 DEF HandleCreate, CreateOffered, whereVars
  <2>3. BackupIsSound(new)'
    BY <2>1, <2>2 DEF BackupIsSound, Mine, BackupsIInv, DialogOfPage
  <2>4. ASSUME NEW b \in backups PROVE BackupIsSound(b)'
    BY <2>2 DEF BackupIsSound, Mine, BackupsIInv
  <2>5. QED
    BY <1>1, <1>2, <2>1, <2>3, <2>4, RestoreUnchanged DEF BackupsIInv
<1>4. CASE ~HandleCreate
  <2>1. ASSUME NEW b \in backups PROVE BackupIsSound(b)'
    <3>1. /\ b.here => createApp' \in {createApp, NoneChosen}
          /\ b.here => onBackups' = onBackups
      BY <1>4 DEF OpenCreate, TimerCloses, HandleClose, VisitBackups, ChooseApp, whereVars,
                  Creating, BackupsIInv, BackupIsSound
    <3>2. BackupIsSound(b)
      BY DEF BackupsIInv
    <3>3. QED
      BY <3>1, <3>2 DEF BackupIsSound, Mine
  <2>2. backups' = backups
    BY <1>4 DEF OpenCreate, TimerCloses, HandleClose, VisitBackups, ChooseApp
  <2>3. QED
    BY <1>1, <1>2, <2>1, <2>2, RestoreUnchanged DEF BackupsIInv
<1>5. QED
  BY <1>3, <1>4

(* The details of a backup and the dialog of a restore.                    *)
LEMMA RestoreIInv ==
    ASSUME BackupsIInv,
           \/ CloseDetails \/ RestoreFromDetails \/ OpenRestore \/ PickBackup \/ HandleConfirm \/ CloseRestore
           \/ \E a \in BackupApps : OpenDetails(a) \/ RestoreFromRow(a) \/ ChooseRestoreApp(a)
           \/ \E r \in restores : RestoreEnds(r, TRUE) \/ RestoreEnds(r, FALSE)
    PROVE  BackupsIInv'
<1>1. UNCHANGED whereVars /\ UNCHANGED createVars
  BY DEF CloseDetails, RestoreFromDetails, OpenRestore, PickBackup, HandleConfirm, CloseRestore,
         OpenDetails, RestoreFromRow, ChooseRestoreApp, RestoreEnds
<1>2. RestoreAppIsNamed'
  <2>1. CASE \E app, backup : Select(app, backup)
    BY <2>1, SelectNames DEF BackupsIInv
  <2>2. CASE ~\E app, backup : Select(app, backup)
    <3>1. UNCHANGED <<selectedBackup, selectedAppForRestore>>
      BY <2>2 DEF CloseDetails, RestoreFromDetails, HandleRestore, OpenRestore, PickBackup, HandleConfirm,
                  CloseRestore, OpenDetails, RestoreFromRow, ChooseRestoreApp, RestoreEnds
    <3>2. AppName' = AppName
      BY <3>1 DEF AppName, Named
    <3>3. restoreApp' = restoreApp \/ AppName = NoneChosen
      BY <2>2 DEF CloseDetails, RestoreFromDetails, HandleRestore, OpenRestore, PickBackup, HandleConfirm,
                  CloseRestore, OpenDetails, RestoreFromRow, ChooseRestoreApp, RestoreEnds
    <3>4. QED
      BY <3>2, <3>3 DEF BackupsIInv, RestoreAppIsNamed
  <2>3. QED
    BY <2>1, <2>2
<1>3. RestoresAreSound'
  <2>1. CASE HandleConfirm
    <3>1. PICK new : /\ new = [app |-> restoreApp, shown |-> Named(AppName, restoreApp)]
                     /\ restores' = restores \cup {new}
      BY <2>1 DEF HandleConfirm
    <3>2. restores = {} /\ restoring' = TRUE
      BY <2>1 DEF HandleConfirm, RestoreOffered, BackupsIInv, RestoresAreSound
    <3>3. new.app = new.shown
      BY <3>1 DEF BackupsIInv, RestoreAppIsNamed, Named
    <3>4. QED
      BY <3>1, <3>2, <3>3 DEF RestoresAreSound
  <2>2. ASSUME NEW r \in restores, RestoreEnds(r, TRUE) \/ RestoreEnds(r, FALSE) PROVE RestoresAreSound'
    <3>1. restores' = {}
      BY <2>2 DEF RestoreEnds, BackupsIInv, RestoresAreSound
    <3>2. QED
      BY <3>1 DEF RestoresAreSound
  <2>3. CASE UNCHANGED <<restoring, restores>>
    BY <2>3 DEF BackupsIInv, RestoresAreSound
  <2>4. QED
    BY <2>1, <2>2, <2>3 DEF CloseDetails, RestoreFromDetails, OpenRestore, PickBackup, CloseRestore,
         OpenDetails, RestoreFromRow, ChooseRestoreApp
<1>4. QED
  BY <1>1, <1>2, <1>3, CreateUnchanged DEF BackupsIInv

LEMMA BackupsNextIInv == BackupsIInv /\ [BackupsNext]_backupVars => BackupsIInv'
<1> SUFFICES ASSUME BackupsIInv, [BackupsNext]_backupVars PROVE BackupsIInv'
  OBVIOUS
<1>1. CASE UNCHANGED backupVars
  BY <1>1, CreateUnchanged, RestoreUnchanged DEF backupVars, whereVars, createVars, restoreVars, BackupsIInv
<1>2. ASSUME NEW a, AddressNames(a) PROVE BackupsIInv'
  BY <1>2, AddressIInv
<1>3. ASSUME NEW b \in backups, BackupEnds(b) \/ BackupFails(b) \/ BackupRetried(b) PROVE BackupsIInv'
  BY <1>3, BackupStepIInv
<1>4. QED
  BY <1>1, <1>2, <1>3, LeaveIInv, CreateIInv, RestoreIInv DEF BackupsNext

(* A backup is asked of the app that was chosen or of none, unless the     *)
(* address has come to name another; a restore is of the app its dialog    *)
(* showed, and there is one at a time: for any apps and any number of      *)
(* requests, second tries, timers and answers.                             *)
THEOREM BackupsStayAsAsked == BackupsSpec => []BackupsAsAsked
<1>1. BackupsInit => BackupsIInv
  BY DEF BackupsInit, BackupsIInv, DialogOfPage, RestoresAreSound, RestoreAppIsNamed, AppName, Named
<1>2. BackupsIInv => BackupsAsAsked
  <2> SUFFICES ASSUME BackupsIInv PROVE BackupsAsAsked
    OBVIOUS
  <2>1. Cardinality(restores) <= 1
    <3>1. CASE restores = {}
      BY <3>1, FS_EmptySet
    <3>2. CASE restores # {}
      <4>1. PICK r : restores = {r}
        BY <3>2 DEF BackupsIInv, RestoresAreSound
      <4>2. Cardinality({r}) = 1
        BY FS_Singleton
      <4>3. QED
        BY <4>1, <4>2
    <3>3. QED
      BY <3>1, <3>2
  <2>2. QED
    BY <2>1 DEF BackupsIInv, BackupIsSound, Mine, RestoresAreSound,
                BackupsAsAsked, BackupIsOfTheChosen, RestoreIsOfTheShown
<1>3. QED
  BY <1>1, <1>2, BackupsNextIInv, PTL DEF BackupsSpec

-----------------------------------------------------------------------------
(* Assets.  While no two downloads have written one file at a time, what   *)
(* is under its temporary name is what its one writer has copied, unless   *)
(* that was deleted; and as long as no page was left during its request    *)
(* and no answer was lost, there is one download, whose page waits for it. *)
DownloadIsRecord(d) ==
    /\ d = [id |-> d.id, version |-> d.version, wanted |-> d.wanted, kinds |-> d.kinds, tries |-> d.tries,
            client |-> d.client, stage |-> d.stage, at |-> d.at, done |-> d.done]
    /\ d.done \in 0..Pieces
    /\ d.stage # "write" => d.done = 0

Writers(f, now) == {d \in now : d.stage = "write" /\ FileOf(d) = f}

FileIsWhole(f, now, tmps, finals) ==
    /\ finals[f] \in {Complete, Absent}
    /\ \A d, e \in Writers(f, now) : d = e
    /\ \A d \in Writers(f, now) : \/ d.at = "tmp" /\ tmps[f] = 1..d.done
                                  \/ d.at = "gone" /\ tmps[f] = Absent

AssetTypeOK ==
    /\ tmp = [f \in Files |-> tmp[f]] /\ final = [f \in Files |-> final[f]]
    /\ strayed \in BOOLEAN
    /\ \A d \in downloads : DownloadIsRecord(d)

OneAtATime ==
    ~strayed => /\ overlapped = {}
                /\ \A d \in downloads : d.client = "page"
                /\ \A d, e \in downloads : d = e

FilesAreWhole == \A f \in Files \ overlapped : FileIsWhole(f, downloads, tmp, final)

AssetIInv == AssetTypeOK /\ OneAtATime /\ FilesAreWhole

(* A download as it goes on keeps what the step does not set.              *)
LEMMA FreshDownload ==
    ASSUME NEW d, DownloadIsRecord(d), NEW e, e \in NextKind(d) \cup Retried(d)
    PROVE  DownloadIsRecord(e) /\ e.stage = "look" /\ e.client = d.client
<1>1. CASE e \in NextKind(d)
  <2>1. e = [[d EXCEPT !.kinds = Tail(d.kinds)] EXCEPT !.stage = "look", !.at = "gone", !.done = 0]
    BY <1>1 DEF NextKind, Fresh
  <2>2. e = [id |-> d.id, version |-> d.version, wanted |-> d.wanted, kinds |-> Tail(d.kinds), tries |-> d.tries,
             client |-> d.client, stage |-> "look", at |-> "gone", done |-> 0]
    BY <2>1 DEF DownloadIsRecord
  <2>3. QED
    BY <2>2, DownloadsAssumption DEF DownloadIsRecord
<1>2. CASE e \in Retried(d)
  <2>1. e = [[d EXCEPT !.kinds = d.wanted, !.tries = 1] EXCEPT !.stage = "look", !.at = "gone", !.done = 0]
    BY <1>2 DEF Retried, Fresh
  <2>2. e = [id |-> d.id, version |-> d.version, wanted |-> d.wanted, kinds |-> d.wanted, tries |-> 1,
             client |-> d.client, stage |-> "look", at |-> "gone", done |-> 0]
    BY <2>1 DEF DownloadIsRecord
  <2>3. QED
    BY <2>2, DownloadsAssumption DEF DownloadIsRecord
<1>3. QED
  BY <1>1, <1>2

LEMMA NextIsOne ==
    ASSUME NEW d PROVE (\A a, b \in NextKind(d) : a = b) /\ (\A a, b \in Retried(d) : a = b)
BY DEF NextKind, Retried

LEMMA AskedDownload ==
    ASSUME NEW version, NEW kinds, NEW tries, NEW client, NEW e, e = Asked(version, kinds, tries, client)
    PROVE  DownloadIsRecord(e) /\ e.stage = "look" /\ e.client = client
<1>1. PICK id : e = [id |-> id, version |-> version, wanted |-> kinds, kinds |-> kinds, tries |-> tries,
                     client |-> client, stage |-> "look", at |-> "gone", done |-> 0]
  BY DEF Asked
<1>2. QED
  BY <1>1, DownloadsAssumption DEF DownloadIsRecord

LEMMA ClientChanges ==
    ASSUME NEW d, DownloadIsRecord(d), NEW client, NEW e, e = [d EXCEPT !.client = client]
    PROVE  /\ DownloadIsRecord(e) /\ e.client = client
           /\ e.stage = d.stage /\ FileOf(e) = FileOf(d) /\ e.at = d.at /\ e.done = d.done
<1>1. e = [id |-> d.id, version |-> d.version, wanted |-> d.wanted, kinds |-> d.kinds, tries |-> d.tries,
           client |-> client, stage |-> d.stage, at |-> d.at, done |-> d.done]
  BY DEF DownloadIsRecord
<1>2. QED
  BY <1>1 DEF DownloadIsRecord, FileOf

LEMMA PlaceChanges ==
    ASSUME NEW d, DownloadIsRecord(d), NEW at, NEW e, e = [d EXCEPT !.at = at]
    PROVE  /\ DownloadIsRecord(e) /\ e.at = at
           /\ e.stage = d.stage /\ FileOf(e) = FileOf(d) /\ e.client = d.client
<1>1. e = [id |-> d.id, version |-> d.version, wanted |-> d.wanted, kinds |-> d.kinds, tries |-> d.tries,
           client |-> d.client, stage |-> d.stage, at |-> at, done |-> d.done]
  BY DEF DownloadIsRecord
<1>2. QED
  BY <1>1 DEF DownloadIsRecord, FileOf

(* Those that write a file are the same, as far as the file goes.          *)
LEMMA WritersStay ==
    ASSUME FilesAreWhole, UNCHANGED <<tmp, final, overlapped>>, NEW F,
           \A e \in downloads' : e.stage = "write" =>
               \E d \in downloads : /\ e = F[d] /\ d.stage = "write"
                                    /\ FileOf(e) = FileOf(d) /\ e.at = d.at /\ e.done = d.done
    PROVE  FilesAreWhole'
<1> SUFFICES ASSUME NEW f \in Files \ overlapped PROVE FileIsWhole(f, downloads', tmp, final)
  BY DEF FilesAreWhole
<1>1. FileIsWhole(f, downloads, tmp, final)
  BY DEF FilesAreWhole
<1>2. ASSUME NEW e \in Writers(f, downloads')
      PROVE  \E d \in Writers(f, downloads) : e = F[d] /\ e.at = d.at /\ e.done = d.done
  BY DEF Writers
<1>3. QED
  BY <1>1, <1>2 DEF FileIsWhole

LEMMA NoNewWriter ==
    ASSUME FilesAreWhole, UNCHANGED <<tmp, final, overlapped>>,
           \A e \in downloads' : e.stage = "write" => e \in downloads
    PROVE  FilesAreWhole'
<1> SUFFICES ASSUME NEW f \in Files \ overlapped PROVE FileIsWhole(f, downloads', tmp, final)
  BY DEF FilesAreWhole
<1>1. FileIsWhole(f, downloads, tmp, final)
  BY DEF FilesAreWhole
<1>2. Writers(f, downloads') \subseteq Writers(f, downloads)
  BY DEF Writers
<1>3. QED
  BY <1>1, <1>2 DEF FileIsWhole

(* A file that a step leaves alone, with those that write it.              *)
LEMMA FileStays ==
    ASSUME NEW f, FileIsWhole(f, downloads, tmp, final), tmp'[f] = tmp[f], final'[f] = final[f],
           Writers(f, downloads') \subseteq Writers(f, downloads)
    PROVE  FileIsWhole(f, downloads', tmp', final')
BY DEF FileIsWhole

(* The client.                                                             *)
LEMMA LeaveAssetIInv == ASSUME AssetIInv, LeaveAssets PROVE AssetIInv'
<1> DEFINE Left(d) == IF d.client = "page" THEN [d EXCEPT !.client = "left"] ELSE d
<1>1. /\ downloads' = {Left(d) : d \in downloads} /\ strayed' = (strayed \/ Waiting)
      /\ UNCHANGED <<tmp, final, overlapped>>
  BY DEF LeaveAssets, diskVars
<1>2. ASSUME NEW d \in downloads
      PROVE  /\ DownloadIsRecord(Left(d)) /\ Left(d).stage = d.stage /\ FileOf(Left(d)) = FileOf(d)
             /\ Left(d).at = d.at /\ Left(d).done = d.done
  BY ClientChanges DEF AssetIInv, AssetTypeOK
<1>3. FilesAreWhole'
  <2>1. PICK F : F = [d \in downloads |-> Left(d)]
    OBVIOUS
  <2>2. ASSUME NEW e \in downloads', e.stage = "write"
        PROVE  \E d \in downloads : /\ e = F[d] /\ d.stage = "write"
                                    /\ FileOf(e) = FileOf(d) /\ e.at = d.at /\ e.done = d.done
    <3>1. PICK d \in downloads : e = Left(d)
      BY <1>1
    <3> HIDE DEF Left
    <3>2. F[d] = Left(d)
      BY <2>1
    <3>3. QED
      BY <1>2, <2>2, <3>1, <3>2
  <2>3. FilesAreWhole /\ UNCHANGED <<tmp, final, overlapped>>
    BY <1>1 DEF AssetIInv
  <2>4. QED
    BY <2>2, <2>3, WritersStay
<1>4. AssetTypeOK'
  BY <1>1, <1>2 DEF AssetIInv, AssetTypeOK
<1>5. OneAtATime'
  <2> SUFFICES ASSUME ~strayed' PROVE overlapped = {} /\ downloads' = {}
    BY <1>1 DEF OneAtATime
  <2>1. ~strayed /\ ~Waiting
    BY <1>1
  <2>2. downloads = {}
    BY <2>1 DEF AssetIInv, OneAtATime, Waiting
  <2>3. QED
    BY <1>1, <2>1, <2>2 DEF AssetIInv, OneAtATime
<1>6. QED
  BY <1>3, <1>4, <1>5 DEF AssetIInv

LEMMA AskAssetIInv == ASSUME AssetIInv, HandleDownload PROVE AssetIInv'
<1>1. PICK new : /\ DownloadIsRecord(new) /\ new.stage = "look" /\ new.client = "page"
                 /\ downloads' = downloads \cup {new}
  BY AskedDownload DEF HandleDownload
<1>2. UNCHANGED <<tmp, final, overlapped, strayed>> /\ ~Waiting
  BY DEF HandleDownload, diskVars
<1>3. FilesAreWhole'
  BY <1>1, <1>2, NoNewWriter DEF AssetIInv
<1>4. OneAtATime'
  BY <1>1, <1>2 DEF AssetIInv, OneAtATime, Waiting
<1>5. AssetTypeOK'
  BY <1>1, <1>2 DEF AssetIInv, AssetTypeOK
<1>6. QED
  BY <1>3, <1>4, <1>5 DEF AssetIInv

LEMMA LoseAssetIInv == ASSUME AssetIInv, NEW d \in downloads, LoseAnswer(d) PROVE AssetIInv'
<1>1. PICK lost : lost = [d EXCEPT !.client = "none"]
  OBVIOUS
<1>2. DownloadIsRecord(lost) /\ lost.stage = d.stage /\ FileOf(lost) = FileOf(d) /\ lost.at = d.at /\ lost.done = d.done
  BY <1>1, ClientChanges DEF AssetIInv, AssetTypeOK
<1>3. PICK new : /\ DownloadIsRecord(new) /\ new.stage = "look"
                 /\ downloads' \subseteq (downloads \ {d}) \cup {lost} \cup {new}
  <2>1. PICK new : new = Asked(d.version, d.wanted, 1, d.client)
    OBVIOUS
  <2>2. QED
    BY <1>1, <2>1, AskedDownload DEF LoseAnswer, Others
<1>4. UNCHANGED <<tmp, final, overlapped>> /\ strayed' = TRUE
  BY DEF LoseAnswer, diskVars
<1>5. FilesAreWhole'
  <2>1. PICK F : F = [e \in downloads |-> IF e = d THEN lost ELSE e]
    OBVIOUS
  <2>2. ASSUME NEW e \in downloads', e.stage = "write"
        PROVE  \E c \in downloads : /\ e = F[c] /\ c.stage = "write"
                                    /\ FileOf(e) = FileOf(c) /\ e.at = c.at /\ e.done = c.done
    <3>1. CASE e = lost
      BY <1>2, <2>1, <2>2, <3>1
    <3>2. CASE e # lost
      BY <1>3, <2>1, <2>2, <3>2
    <3>3. QED
      BY <3>1, <3>2
  <2>3. QED
    BY <1>4, <2>2, WritersStay DEF AssetIInv
<1>6. AssetTypeOK'
  BY <1>2, <1>3, <1>4 DEF AssetIInv, AssetTypeOK
<1>7. QED
  BY <1>4, <1>5, <1>6 DEF AssetIInv, OneAtATime

LEMMA DeleteAssetIInv == ASSUME AssetIInv, NEW v, DeleteListed(v) PROVE AssetIInv'
<1> DEFINE Gone(d) == IF d.version = v THEN [d EXCEPT !.at = "gone"] ELSE d
<1>1. /\ tmp' = [f \in Files |-> IF f[1] = v THEN Absent ELSE tmp[f]]
      /\ final' = [f \in Files |-> IF f[1] = v THEN Absent ELSE final[f]]
      /\ downloads' = {Gone(d) : d \in downloads}
      /\ UNCHANGED <<overlapped, strayed>>
  BY DEF DeleteListed
<1>2. ASSUME NEW d \in downloads
      PROVE  /\ DownloadIsRecord(Gone(d)) /\ Gone(d).stage = d.stage /\ FileOf(Gone(d)) = FileOf(d)
             /\ Gone(d).client = d.client
             /\ IF d.version = v THEN Gone(d).at = "gone" ELSE Gone(d) = d
  BY PlaceChanges DEF AssetIInv, AssetTypeOK
<1>3. FilesAreWhole'
  <2> SUFFICES ASSUME NEW f \in Files \ overlapped PROVE FileIsWhole(f, downloads', tmp', final')
    BY <1>1 DEF FilesAreWhole
  <2>1. FileIsWhole(f, downloads, tmp, final)
    BY DEF AssetIInv, FilesAreWhole
  <2>2. ASSUME NEW e \in Writers(f, downloads')
        PROVE  \E d \in Writers(f, downloads) : e = Gone(d) /\ d.version = f[1]
    <3>1. PICK d \in downloads : e = Gone(d)
      BY <1>1 DEF Writers
    <3> HIDE DEF Gone
    <3>2. d \in Writers(f, downloads)
      BY <1>2, <3>1 DEF Writers
    <3>3. d.version = f[1]
      BY <3>2 DEF Writers, FileOf
    <3>4. QED
      BY <3>1, <3>2, <3>3
  <2>3. CASE f[1] = v
    <3>1. tmp'[f] = Absent /\ final'[f] = Absent
      BY <1>1, <2>3
    <3>2. ASSUME NEW e \in Writers(f, downloads') PROVE e.at = "gone"
      BY <1>2, <2>2, <2>3 DEF Writers
    <3>3. QED
      BY <2>1, <2>2, <3>1, <3>2 DEF FileIsWhole
  <2>4. CASE f[1] # v
    <3>1. tmp'[f] = tmp[f] /\ final'[f] = final[f]
      BY <1>1, <2>4
    <3>2. Writers(f, downloads') \subseteq Writers(f, downloads)
      BY <2>2, <2>4
    <3>3. QED
      BY <2>1, <3>1, <3>2, FileStays
  <2>5. QED
    BY <2>3, <2>4
<1>4. AssetTypeOK'
  BY <1>1, <1>2 DEF AssetIInv, AssetTypeOK
<1>5. OneAtATime'
  BY <1>1, <1>2 DEF AssetIInv, OneAtATime
<1>6. QED
  BY <1>3, <1>4, <1>5 DEF AssetIInv

-----------------------------------------------------------------------------
(* The daemon.  A step of a download that leaves it alone at what it does. *)
LEMMA StepOneAtATime ==
    ASSUME AssetIInv, NEW d \in downloads, UNCHANGED <<overlapped, strayed>>, NEW next,
           NEW rest, rest = {} \/ downloads # {d}, downloads' = rest \cup next,
           \A e \in next : e.client = d.client, \A a, b \in next : a = b
    PROVE  OneAtATime'
BY DEF AssetIInv, OneAtATime

LEMMA LookAssetIInv == ASSUME AssetIInv, NEW d \in downloads, Look(d) \/ GetFails(d) \/ RenameFails(d) PROVE AssetIInv'
<1>1. UNCHANGED <<tmp, final, overlapped, strayed>>
  BY DEF Look, GetFails, RenameFails, diskVars
<1>2. DownloadIsRecord(d)
  BY DEF AssetIInv, AssetTypeOK
<1>3. PICK next : /\ downloads' = Others(d) \cup next
                  /\ \A e \in next : DownloadIsRecord(e) /\ e.client = d.client /\ e.stage # "write"
                  /\ \A a, b \in next : a = b
  <2>1. CASE downloads' = Others(d) \cup {[d EXCEPT !.stage = "get"]} /\ d.stage = "look"
    <3>1. PICK got : got = [d EXCEPT !.stage = "get"]
      OBVIOUS
    <3>2. got = [id |-> d.id, version |-> d.version, wanted |-> d.wanted, kinds |-> d.kinds, tries |-> d.tries,
               client |-> d.client, stage |-> "get", at |-> d.at, done |-> d.done]
      BY <1>2, <3>1 DEF DownloadIsRecord
    <3>3. DownloadIsRecord(got) /\ got.client = d.client /\ got.stage # "write"
      BY <1>2, <2>1, <3>2 DEF DownloadIsRecord
    <3>4. PICK one : one = {got}
      OBVIOUS
    <3>5. /\ downloads' = Others(d) \cup one
          /\ \A e \in one : DownloadIsRecord(e) /\ e.client = d.client /\ e.stage # "write"
          /\ \A a, b \in one : a = b
      BY <2>1, <3>1, <3>3, <3>4
    <3>6. QED
      BY <3>5
  <2>2. CASE downloads' = Others(d) \cup NextKind(d)
    BY <1>2, <2>2, FreshDownload, NextIsOne
  <2>3. CASE downloads' = Others(d) \cup Retried(d)
    BY <1>2, <2>3, FreshDownload, NextIsOne
  <2>4. QED
    BY <2>1, <2>2, <2>3 DEF Look, GetFails, RenameFails, Served, Refused
<1>4. FilesAreWhole'
  BY <1>1, <1>3, NoNewWriter DEF AssetIInv, Others
<1>5. OneAtATime'
  BY <1>1, <1>3, StepOneAtATime DEF Others
<1>6. AssetTypeOK'
  BY <1>1, <1>3 DEF AssetIInv, AssetTypeOK, Others
<1>7. QED
  BY <1>4, <1>5, <1>6 DEF AssetIInv

LEMMA CreateAssetIInv == ASSUME AssetIInv, NEW d \in downloads, Create(d) PROVE AssetIInv'
<1>1. /\ tmp' = [tmp EXCEPT ![FileOf(d)] = {}] /\ d.stage = "get"
      /\ overlapped' = overlapped \cup {f \in {FileOf(d)} : \E e \in downloads : e.stage = "write" /\ FileOf(e) = f}
      /\ UNCHANGED <<final, strayed>>
  BY DEF Create
<1>2. PICK new : new = [d EXCEPT !.stage = "write", !.at = "tmp"]
  OBVIOUS
<1>3. downloads' = Others(d) \cup {new}
  BY <1>2 DEF Create
<1>4. DownloadIsRecord(d)
  BY DEF AssetIInv, AssetTypeOK
<1>5. /\ DownloadIsRecord(new) /\ new.stage = "write" /\ new.at = "tmp" /\ new.done = 0
      /\ FileOf(new) = FileOf(d) /\ new.client = d.client
  <2>1. new = [id |-> d.id, version |-> d.version, wanted |-> d.wanted, kinds |-> d.kinds, tries |-> d.tries,
               client |-> d.client, stage |-> "write", at |-> "tmp", done |-> d.done]
    BY <1>2, <1>4 DEF DownloadIsRecord
  <2>2. QED
    BY <1>1, <1>4, <2>1 DEF DownloadIsRecord, FileOf
<1>6. FilesAreWhole'
  <2> SUFFICES ASSUME NEW f \in Files \ overlapped' PROVE FileIsWhole(f, downloads', tmp', final')
    BY DEF FilesAreWhole
  <2>1. FileIsWhole(f, downloads, tmp, final)
    BY <1>1 DEF AssetIInv, FilesAreWhole
  <2>2. CASE f = FileOf(d)
    <3>1. Writers(f, downloads') = {new}
      BY <1>1, <1>3, <1>5, <2>2 DEF Writers, Others
    <3>2. tmp'[f] = 1..0
      BY <1>1, <2>2 DEF AssetIInv, AssetTypeOK
    <3>3. QED
      BY <1>1, <1>5, <2>1, <3>1, <3>2 DEF FileIsWhole
  <2>3. CASE f # FileOf(d)
    <3>1. Writers(f, downloads') \subseteq Writers(f, downloads)
      BY <1>3, <1>5, <2>3 DEF Writers, Others
    <3>2. tmp'[f] = tmp[f]
      BY <1>1, <2>3 DEF AssetIInv, AssetTypeOK
    <3>3. QED
      BY <1>1, <2>1, <3>1, <3>2, FileStays
  <2>4. QED
    BY <2>2, <2>3
<1>7. OneAtATime'
  <2> SUFFICES ASSUME ~strayed PROVE /\ overlapped' = {}
                                     /\ \A e \in downloads' : e.client = "page"
                                     /\ \A a, b \in downloads' : a = b
    BY <1>1 DEF OneAtATime
  <2>1. downloads = {d} /\ d.client = "page" /\ overlapped = {}
    BY DEF AssetIInv, OneAtATime
  <2>2. downloads' = {new}
    BY <1>3, <2>1 DEF Others
  <2>3. overlapped' = {}
    BY <1>1, <2>1
  <2>4. QED
    BY <1>5, <2>1, <2>2, <2>3
<1>8. AssetTypeOK'
  <2>1. tmp' = [f \in Files |-> tmp'[f]]
    BY <1>1 DEF AssetIInv, AssetTypeOK
  <2>2. QED
    BY <1>1, <1>3, <1>5, <2>1 DEF AssetIInv, AssetTypeOK, Others
<1>9. QED
  BY <1>6, <1>7, <1>8 DEF AssetIInv

LEMMA CopyAssetIInv == ASSUME AssetIInv, NEW d \in downloads, Copy(d) PROVE AssetIInv'
<1>1. /\ d.stage = "write" /\ d.done < Pieces
      /\ tmp' = IF d.at = "tmp" THEN [tmp EXCEPT ![FileOf(d)] = tmp[FileOf(d)] \cup {d.done + 1}] ELSE tmp
      /\ final' = IF d.at = "final" THEN [final EXCEPT ![FileOf(d)] = final[FileOf(d)] \cup {d.done + 1}] ELSE final
      /\ UNCHANGED <<overlapped, strayed>>
  BY DEF Copy
<1>2. PICK new : new = [d EXCEPT !.done = d.done + 1]
  OBVIOUS
<1>3. downloads' = Others(d) \cup {new}
  BY <1>2 DEF Copy
<1>4. DownloadIsRecord(d)
  BY DEF AssetIInv, AssetTypeOK
<1>5. /\ DownloadIsRecord(new) /\ new.stage = "write" /\ new.at = d.at /\ new.done = d.done + 1
      /\ FileOf(new) = FileOf(d) /\ new.client = d.client
  <2>1. new = [id |-> d.id, version |-> d.version, wanted |-> d.wanted, kinds |-> d.kinds, tries |-> d.tries,
               client |-> d.client, stage |-> d.stage, at |-> d.at, done |-> d.done + 1]
    BY <1>2, <1>4 DEF DownloadIsRecord
  <2>2. d.done + 1 \in 0..Pieces
    BY <1>1, <1>4, DownloadsAssumption DEF DownloadIsRecord
  <2>3. QED
    BY <1>1, <2>1, <2>2 DEF DownloadIsRecord, FileOf
<1>6. FilesAreWhole'
  <2> SUFFICES ASSUME NEW f \in Files \ overlapped PROVE FileIsWhole(f, downloads', tmp', final')
    BY <1>1 DEF FilesAreWhole
  <2>1. FileIsWhole(f, downloads, tmp, final)
    BY DEF AssetIInv, FilesAreWhole
  <2>2. CASE f = FileOf(d)
    <3>1. d \in Writers(f, downloads)
      BY <1>1, <2>2 DEF Writers
    <3>2. \/ d.at = "tmp" /\ tmp[f] = 1..d.done
          \/ d.at = "gone" /\ tmp[f] = Absent
      BY <2>1, <3>1 DEF FileIsWhole
    <3>3. Writers(f, downloads') = {new}
      BY <1>3, <1>5, <2>1, <2>2, <3>1 DEF Writers, Others, FileIsWhole
    <3>4. final' = final
      BY <1>1, <3>2
    <3>5. CASE d.at = "tmp"
      <4>1. tmp'[f] = tmp[f] \cup {d.done + 1}
        BY <1>1, <2>2, <3>5 DEF AssetIInv, AssetTypeOK
      <4>2. tmp'[f] = 1..(d.done + 1)
        BY <1>4, <3>2, <3>5, <4>1, DownloadsAssumption DEF DownloadIsRecord
      <4>3. QED
        BY <1>5, <2>1, <3>3, <3>4, <3>5, <4>2 DEF FileIsWhole
    <3>6. CASE d.at = "gone"
      BY <1>1, <1>5, <2>1, <3>2, <3>3, <3>4, <3>6 DEF FileIsWhole
    <3>7. QED
      BY <3>2, <3>5, <3>6
  <2>3. CASE f # FileOf(d)
    <3>1. Writers(f, downloads') \subseteq Writers(f, downloads)
      BY <1>3, <1>5, <2>3 DEF Writers, Others
    <3>2. tmp'[f] = tmp[f] /\ final'[f] = final[f]
      BY <1>1, <2>3 DEF AssetIInv, AssetTypeOK
    <3>3. QED
      BY <2>1, <3>1, <3>2, FileStays
  <2>4. QED
    BY <2>2, <2>3
<1>7. OneAtATime'
  <2>1. (\A e \in {new} : e.client = d.client) /\ \A a, b \in {new} : a = b
    BY <1>5
  <2>2. Others(d) = {} \/ downloads # {d}
    BY DEF Others
  <2>3. QED
    BY <1>1, <1>3, <2>1, <2>2, StepOneAtATime
<1>8. AssetTypeOK'
  <2>1. tmp' = [f \in Files |-> tmp'[f]] /\ final' = [f \in Files |-> final'[f]]
    BY <1>1 DEF AssetIInv, AssetTypeOK
  <2>2. QED
    BY <1>1, <1>3, <1>5, <2>1 DEF AssetIInv, AssetTypeOK, Others
<1>9. QED
  BY <1>6, <1>7, <1>8 DEF AssetIInv

(* What a rename or a removal makes of the others that write the file.     *)
LEMMA MovedDownload ==
    ASSUME AssetTypeOK, NEW d \in downloads, NEW to, NEW m \in Moved(d, to)
    PROVE  \E e \in Others(d) :
              /\ DownloadIsRecord(m) /\ m.stage = e.stage /\ FileOf(m) = FileOf(e) /\ m.client = e.client
              /\ m = e \/ (e.stage = "write" /\ FileOf(e) = FileOf(d))
<1>1. PICK e \in Others(d) :
         m = IF e.stage # "write" \/ FileOf(e) # FileOf(d) THEN e
             ELSE [e EXCEPT !.at = IF e.at = "tmp" THEN to ELSE IF to = "final" THEN "gone" ELSE e.at]
  BY DEF Moved
<1>2. DownloadIsRecord(e)
  BY DEF AssetTypeOK, Others
<1>3. CASE e.stage # "write" \/ FileOf(e) # FileOf(d)
  BY <1>1, <1>2, <1>3
<1>4. CASE ~(e.stage # "write" \/ FileOf(e) # FileOf(d))
  <2>1. PICK at : m = [e EXCEPT !.at = at]
    BY <1>1, <1>4
  <2>2. QED
    BY <1>2, <1>4, <2>1, PlaceChanges
<1>5. QED
  BY <1>3, <1>4

(* A download that is done with a file leaves it whole or gone, and those  *)
(* of other files are as they were.                                        *)
LEMMA DoneAssetIInv ==
    ASSUME AssetIInv, NEW d \in downloads, d.stage = "write", NEW to, NEW next,
           downloads' = Moved(d, to) \cup next,
           \A e \in next : DownloadIsRecord(e) /\ e.client = d.client /\ e.stage = "look",
           \A a, b \in next : a = b,
           tmp' = [tmp EXCEPT ![FileOf(d)] = Absent],
           final' = [f \in Files |-> final'[f]],
           \A f \in Files : f # FileOf(d) => final'[f] = final[f],
           FileOf(d) \in Files \ overlapped => final'[FileOf(d)] \in {Complete, Absent},
           UNCHANGED <<overlapped, strayed>>
    PROVE  AssetIInv'
<1>1. ASSUME NEW m \in Moved(d, to)
      PROVE  \E e \in Others(d) :
                /\ DownloadIsRecord(m) /\ m.stage = e.stage /\ FileOf(m) = FileOf(e) /\ m.client = e.client
                /\ m = e \/ (e.stage = "write" /\ FileOf(e) = FileOf(d))
  BY MovedDownload DEF AssetIInv
<1>2. FilesAreWhole'
  <2> SUFFICES ASSUME NEW f \in Files \ overlapped PROVE FileIsWhole(f, downloads', tmp', final')
    BY DEF FilesAreWhole
  <2>1. FileIsWhole(f, downloads, tmp, final)
    BY DEF AssetIInv, FilesAreWhole
  <2>2. CASE f = FileOf(d)
    <3>1. d \in Writers(f, downloads)
      BY <2>2 DEF Writers
    <3>2. Writers(f, downloads') = {}
      <4> SUFFICES ASSUME NEW m \in Writers(f, downloads') PROVE FALSE
        OBVIOUS
      <4>1. m \in Moved(d, to) /\ m.stage = "write" /\ FileOf(m) = f
        BY DEF Writers
      <4>2. PICK e \in Others(d) : e.stage = "write" /\ FileOf(e) = f
        BY <1>1, <4>1
      <4>3. e \in Writers(f, downloads) /\ e # d
        BY <4>2 DEF Writers, Others
      <4>4. QED
        BY <2>1, <3>1, <4>3 DEF FileIsWhole
    <3>3. QED
      BY <2>2, <3>2 DEF FileIsWhole
  <2>3. CASE f # FileOf(d)
    <3>1. Writers(f, downloads') \subseteq Writers(f, downloads)
      BY <1>1, <2>3 DEF Writers, Others
    <3>2. tmp'[f] = tmp[f]
      BY <2>3 DEF AssetIInv, AssetTypeOK
    <3>3. QED
      BY <2>1, <2>3, <3>1, <3>2, FileStays
  <2>4. QED
    BY <2>2, <2>3
<1>3. AssetTypeOK'
  <2>1. tmp' = [f \in Files |-> tmp'[f]]
    BY DEF AssetIInv, AssetTypeOK
  <2>2. \A e \in downloads' : DownloadIsRecord(e)
    BY <1>1
  <2>3. QED
    BY <2>1, <2>2 DEF AssetIInv, AssetTypeOK
<1>4. OneAtATime'
  <2>1. downloads = {d} => Moved(d, to) = {}
    BY <1>1 DEF Others
  <2>2. QED
    BY <2>1, StepOneAtATime
<1>5. QED
  BY <1>2, <1>3, <1>4 DEF AssetIInv

LEMMA CopyFailsAssetIInv == ASSUME AssetIInv, NEW d \in downloads, CopyFails(d) PROVE AssetIInv'
<1>1. /\ d.stage = "write" /\ downloads' = Moved(d, "gone") \cup Retried(d)
      /\ tmp' = [tmp EXCEPT ![FileOf(d)] = Absent]
      /\ UNCHANGED <<final, overlapped, strayed>>
  BY DEF CopyFails, Refused
<1>2. \A e \in Retried(d) : DownloadIsRecord(e) /\ e.client = d.client /\ e.stage = "look"
  BY FreshDownload DEF AssetIInv, AssetTypeOK
<1>3. \A a, b \in Retried(d) : a = b
  BY NextIsOne
<1>4. FileOf(d) \in Files \ overlapped => final[FileOf(d)] \in {Complete, Absent}
  BY DEF AssetIInv, FilesAreWhole, FileIsWhole
<1>5. final' = [f \in Files |-> final'[f]]
  BY <1>1 DEF AssetIInv, AssetTypeOK
<1>6. QED
  BY <1>1, <1>2, <1>3, <1>4, <1>5, DoneAssetIInv

LEMMA RenameAssetIInv == ASSUME AssetIInv, NEW d \in downloads, Rename(d) PROVE AssetIInv'
<1>1. /\ d.stage = "write" /\ d.done = Pieces /\ tmp[FileOf(d)] # Absent
      /\ downloads' = Moved(d, "final") \cup NextKind(d)
      /\ final' = [final EXCEPT ![FileOf(d)] = tmp[FileOf(d)]]
      /\ tmp' = [tmp EXCEPT ![FileOf(d)] = Absent]
      /\ UNCHANGED <<overlapped, strayed>>
  BY DEF Rename, Served
<1>2. \A e \in NextKind(d) : DownloadIsRecord(e) /\ e.client = d.client /\ e.stage = "look"
  BY FreshDownload DEF AssetIInv, AssetTypeOK
<1>3. \A a, b \in NextKind(d) : a = b
  BY NextIsOne
<1>4. FileOf(d) \in Files \ overlapped => final'[FileOf(d)] \in {Complete, Absent}
  <2> SUFFICES ASSUME FileOf(d) \in Files \ overlapped PROVE final'[FileOf(d)] = Complete
    OBVIOUS
  <2>1. d \in Writers(FileOf(d), downloads) /\ FileIsWhole(FileOf(d), downloads, tmp, final)
    BY <1>1 DEF Writers, AssetIInv, FilesAreWhole
  <2>2. tmp[FileOf(d)] = 1..d.done
    BY <1>1, <2>1 DEF FileIsWhole
  <2>3. QED
    BY <1>1, <2>2 DEF AssetIInv, AssetTypeOK, Complete
<1>5. /\ final' = [f \in Files |-> final'[f]]
      /\ \A f \in Files : f # FileOf(d) => final'[f] = final[f]
  BY <1>1 DEF AssetIInv, AssetTypeOK
<1>6. QED
  BY <1>1, <1>2, <1>3, <1>4, <1>5, DoneAssetIInv

LEMMA RestartAssetIInv == ASSUME AssetIInv, DaemonRestarts PROVE AssetIInv'
<1>1. downloads' = UNION {Retried(d) : d \in downloads} /\ UNCHANGED <<tmp, final, overlapped, strayed>>
  BY DEF DaemonRestarts, diskVars
<1>2. ASSUME NEW e \in downloads'
      PROVE  \E d \in downloads : e \in Retried(d) /\ DownloadIsRecord(e) /\ e.client = d.client /\ e.stage = "look"
  BY <1>1, FreshDownload DEF AssetIInv, AssetTypeOK
<1>3. FilesAreWhole'
  BY <1>1, <1>2, NoNewWriter DEF AssetIInv
<1>4. AssetTypeOK'
  BY <1>1, <1>2 DEF AssetIInv, AssetTypeOK
<1>5. OneAtATime'
  <2> SUFFICES ASSUME ~strayed PROVE /\ overlapped = {}
                                     /\ \A e \in downloads' : e.client = "page"
                                     /\ \A a, b \in downloads' : a = b
    BY <1>1 DEF OneAtATime
  <2>1. overlapped = {} /\ (\A d \in downloads : d.client = "page") /\ \A d, e \in downloads : d = e
    BY DEF AssetIInv, OneAtATime
  <2>2. ASSUME NEW a \in downloads', NEW b \in downloads' PROVE a = b
    <3>1. PICK d \in downloads : a \in Retried(d)
      BY <1>2
    <3>2. b \in Retried(d)
      BY <1>2, <2>1
    <3>3. QED
      BY <3>1, <3>2, NextIsOne
  <2>3. QED
    BY <1>2, <2>1, <2>2
<1>6. QED
  BY <1>3, <1>4, <1>5 DEF AssetIInv

LEMMA AssetNextIInv == AssetIInv /\ [AssetNext]_assetVars => AssetIInv'
<1> SUFFICES ASSUME AssetIInv, [AssetNext]_assetVars PROVE AssetIInv'
  OBVIOUS
<1>1. CASE UNCHANGED <<downloads, tmp, final, overlapped, strayed>>
  BY <1>1, NoNewWriter DEF AssetIInv, AssetTypeOK, OneAtATime
<1>2. CASE ListRead \/ (\E p \in AssetPages : VisitAssets(p)) \/ UNCHANGED assetVars
  BY <1>1, <1>2 DEF ListRead, VisitAssets, assetVars, diskVars
<1>3. CASE LeaveAssets \/ HandleDownload \/ DaemonRestarts
  BY <1>3, LeaveAssetIInv, AskAssetIInv, RestartAssetIInv
<1>4. ASSUME NEW v \in Versions, DeleteListed(v) PROVE AssetIInv'
  BY <1>4, DeleteAssetIInv
<1>5. ASSUME NEW d \in downloads,
             \/ Look(d) \/ Create(d) \/ GetFails(d) \/ Copy(d) \/ CopyFails(d)
             \/ Rename(d) \/ RenameFails(d) \/ LoseAnswer(d)
      PROVE  AssetIInv'
  BY <1>5, LookAssetIInv, CreateAssetIInv, CopyAssetIInv, CopyFailsAssetIInv, RenameAssetIInv, LoseAssetIInv
<1>6. QED
  BY <1>2, <1>3, <1>4, <1>5 DEF AssetNext

(* A file the daemon serves as downloaded is whole, unless two downloads   *)
(* of it were under way together, which takes a page that was left during  *)
(* its request or an answer that was lost: for any kinds, versions, number *)
(* of pieces and of downloads, and however they fail.                      *)
THEOREM ServedStaysWhole == AssetSpec => []ServedIsWhole
<1>1. AssetInit => AssetIInv
  BY DEF AssetInit, AssetIInv, AssetTypeOK, OneAtATime, FilesAreWhole, FileIsWhole, Writers
<1>2. AssetIInv => ServedIsWhole
  BY DEF AssetIInv, OneAtATime, FilesAreWhole, FileIsWhole, ServedIsWhole, There
<1>3. QED
  BY <1>1, <1>2, AssetNextIInv, PTL DEF AssetSpec

-----------------------------------------------------------------------------
(* AddDialog.  While the dialog is open, the server it holds is one of the *)
(* list, which fills the dialog anew whenever it changes, or the manifest's. *)
AddIInv ==
    /\ addOpen /\ mapping # Blank => mapping = preset \/ mapping \in seen.ready
    /\ \A r \in adds : r = [name |-> r.name, server |-> r.server, tracked |-> r.tracked]

LEMMA FilledFromList ==
    ASSUME NEW list, FillFrom(list)
    PROVE  mapping' # Blank => mapping' = preset \/ mapping' \in list.ready
<1>1. CASE Cardinality(list.ready) = 1
  <2>1. list.ready # {}
    BY <1>1, FS_EmptySet
  <2>2. (CHOOSE s \in list.ready : TRUE) \in list.ready
    BY <2>1
  <2>3. QED
    BY <1>1, <2>2 DEF FillFrom
<1>2. CASE Cardinality(list.ready) # 1
  BY <1>2 DEF FillFrom
<1>3. QED
  BY <1>1, <1>2

LEMMA AddNextIInv == AddIInv /\ [AddNext]_addVars => AddIInv'
<1> SUFFICES ASSUME AddIInv, [AddNext]_addVars PROVE AddIInv'
  OBVIOUS
<1>0. preset' = preset
  BY DEF AddNext, addVars
<1>1. CASE AppsRead
  <2>1. CASE addOpen /\ actual # seen
    BY <1>0, <1>1, <2>1, FilledFromList DEF AppsRead, AddIInv
  <2>2. CASE ~(addOpen /\ actual # seen)
    BY <1>0, <1>1, <2>2 DEF AppsRead, AddIInv
  <2>3. QED
    BY <2>1, <2>2
<1>2. CASE OpenAdd
  BY <1>0, <1>2, FilledFromList DEF OpenAdd, AddIInv
<1>3. CASE LeaveForOther
  <2>1. /\ adds' = {[r EXCEPT !.tracked = FALSE] : r \in adds}
        /\ addOpen' = FALSE
    BY <1>3 DEF LeaveForOther
  <2>2. ASSUME NEW r \in adds'
        PROVE  r = [name |-> r.name, server |-> r.server, tracked |-> r.tracked]
    <3>1. PICK q \in adds : r = [q EXCEPT !.tracked = FALSE]
      BY <2>1
    <3>2. q = [name |-> q.name, server |-> q.server, tracked |-> q.tracked]
      BY DEF AddIInv
    <3>3. r = [name |-> q.name, server |-> q.server, tracked |-> FALSE]
      BY <3>1, <3>2
    <3>4. QED
      BY <3>3
  <2>3. QED
    BY <1>0, <2>1, <2>2 DEF AddIInv
<1>4. CASE HandleSave
  BY <1>0, <1>4 DEF HandleSave, AddIInv
<1>5. CASE AppsChange \/ EnterApps \/ CancelAdd \/ UNCHANGED addVars
  BY <1>0, <1>5 DEF AppsChange, EnterApps, CancelAdd, addVars, AddIInv
<1>6. ASSUME NEW name \in Names \cup {Blank}, TypeName(name) PROVE AddIInv'
  BY <1>0, <1>6 DEF TypeName, AddIInv
<1>7. ASSUME NEW s \in Servers, ChooseServer(s) PROVE AddIInv'
  BY <1>0, <1>7 DEF ChooseServer, AddIInv
<1>8. ASSUME NEW r \in adds, AddEnds(r, TRUE) \/ AddEnds(r, FALSE) PROVE AddIInv'
  BY <1>0, <1>8 DEF AddEnds, AddIInv
<1>9. QED
  BY <1>1, <1>2, <1>3, <1>4, <1>5, <1>6, <1>7, <1>8 DEF AddNext

(* Whatever happens to the apps while the user types and chooses: an app   *)
(* is asked for only under a name that no app has in the list on screen,   *)
(* and with a server that this list shows as deployed or that the app's    *)
(* own manifest names.                                                     *)
THEOREM AddsStayListed == AddSpec => AddsWhatIsListed
<1> DEFINE AllowedServers == seen.ready \cup ({preset} \ {Blank})
           Listed(r) == r.tracked /\ r \notin adds => IsNameUnique(r.name) /\ r.server \in AllowedServers
           A == \A r \in adds' : Listed(r)
<1>1. ASSUME AddIInv, [AddNext]_addVars PROVE [A]_addVars
  <2>1. CASE HandleSave
    <3>1. PICK new : new = [name |-> appName, server |-> mapping, tracked |-> TRUE]
      OBVIOUS
    <3>2. adds' = adds \cup {new} /\ IsNameUnique(new.name) /\ new.server \in AllowedServers
      BY <1>1, <2>1, <3>1 DEF HandleSave, CanSave, AddIInv
    <3>3. QED
      BY <3>2
  <2>2. CASE LeaveForOther
    <3>1. adds' = {[r EXCEPT !.tracked = FALSE] : r \in adds}
      BY <2>2 DEF LeaveForOther
    <3>2. ASSUME NEW r \in adds', r.tracked PROVE r \in adds
      <4>1. PICK q \in adds : r = [q EXCEPT !.tracked = FALSE]
        BY <3>1
      <4>2. q = [name |-> q.name, server |-> q.server, tracked |-> q.tracked]
        BY <1>1 DEF AddIInv
      <4>3. r.tracked = FALSE
        BY <4>1, <4>2
      <4>4. QED
        BY <3>2, <4>3
    <3>3. QED
      BY <3>2
  <2>3. CASE \/ AppsChange \/ AppsRead \/ EnterApps \/ OpenAdd \/ CancelAdd \/ UNCHANGED addVars
             \/ \E name \in Names \cup {Blank} : TypeName(name)
             \/ \E s \in Servers : ChooseServer(s)
    BY <2>3 DEF AppsChange, AppsRead, EnterApps, OpenAdd, CancelAdd, addVars, TypeName, ChooseServer
  <2>4. CASE \E r \in adds : AddEnds(r, TRUE) \/ AddEnds(r, FALSE)
    BY <2>4 DEF AddEnds
  <2>5. QED
    BY <1>1, <2>1, <2>2, <2>3, <2>4 DEF AddNext
<1>2. AddInit => AddIInv
  BY DEF AddInit, AddIInv
<1>3. QED
  BY <1>1, <1>2, AddNextIInv, PTL DEF AddSpec, AddsWhatIsListed

-----------------------------------------------------------------------------
(* DomainTests.  Verdicts and the noted test, whatever else is under way.  *)
TestsIInv ==
    /\ verdicts \in [Domains -> [TestKinds -> SUBSET Domains]]
    /\ VerdictIsOfItsDomain

LEMMA NoVerdictsIInv ==
    /\ NoVerdicts \in [Domains -> [TestKinds -> SUBSET Domains]]
    /\ \A d \in Domains, k \in TestKinds : NoVerdicts[d][k] = {}
BY DEF NoVerdicts

LEMMA BeginTestsIInv ==
    ASSUME TestsIInv, NEW t, Begin(t), t = [domain |-> t.domain, kind |-> t.kind]
    PROVE  TestsIInv'
<1>1. testing' = t /\ UNCHANGED verdicts
  BY DEF Begin
<1>2. PICK id : tests' = tests \cup {[id |-> id, domain |-> t.domain, kind |-> t.kind]}
  BY DEF Begin
<1>3. \E r \in tests' : TestOf(r) = t
  <2>1. PICK r : r = [id |-> id, domain |-> t.domain, kind |-> t.kind]
    OBVIOUS
  <2>2. r \in tests' /\ r.domain = t.domain /\ r.kind = t.kind
    BY <1>2, <2>1
  <2>3. TestOf(r) = t
    BY <2>2 DEF TestOf
  <2>4. QED
    BY <2>2, <2>3
<1>4. QED
  BY <1>1, <1>3 DEF TestsIInv, VerdictIsOfItsDomain, TestOf

LEMMA TestsNextIInv == TestsIInv /\ [TestsNext]_testVars => TestsIInv'
<1> SUFFICES ASSUME TestsIInv, [TestsNext]_testVars PROVE TestsIInv'
  OBVIOUS
<1>1. CASE VisitCloud \/ CardChanges \/ UNCHANGED testVars
  <2>1. UNCHANGED <<verdicts, testing, tests>>
    BY <1>1 DEF VisitCloud, CardChanges, testVars
  <2>2. QED
    BY <2>1 DEF TestsIInv, VerdictIsOfItsDomain, TestOf
<1>2. CASE LeaveCloud
  BY <1>2, NoVerdictsIInv DEF LeaveCloud, TestsIInv, VerdictIsOfItsDomain
<1>3. CASE TestPublicDomain
  <2>1. PICK kind \in TestKinds : Begin([domain |-> domainCard.public, kind |-> kind])
    BY <1>3 DEF TestPublicDomain
  <2>2. QED
    BY <2>1, BeginTestsIInv
<1>4. CASE TestInternalDomain
  <2>1. Begin([domain |-> domainCard.internal, kind |-> "internal"])
    BY <1>4 DEF TestInternalDomain
  <2>2. QED
    BY <2>1, BeginTestsIInv
<1>5. ASSUME NEW r \in tests, HandleTestDomain(r) PROVE TestsIInv'
  <2>1. verdicts' = [verdicts EXCEPT ![r.domain][r.kind] = {r.domain}] /\ testing' = NoTest
    BY <1>5 DEF HandleTestDomain, KeptAt
  <2>2. CASE r.domain \notin Domains
    BY <2>1, <2>2 DEF TestsIInv, VerdictIsOfItsDomain
  <2>3. CASE r.domain \in Domains
    <3>1. PICK f : f = [verdicts[r.domain] EXCEPT ![r.kind] = {r.domain}]
      OBVIOUS
    <3>2. verdicts' = [verdicts EXCEPT ![r.domain] = f]
      BY <2>1, <3>1
    <3>3. /\ f \in [TestKinds -> SUBSET Domains]
          /\ \A k \in TestKinds : f[k] \subseteq {r.domain}
      BY <2>3, <3>1 DEF TestsIInv, VerdictIsOfItsDomain
    <3>4. QED
      BY <2>1, <2>3, <3>2, <3>3 DEF TestsIInv, VerdictIsOfItsDomain
  <2>4. QED
    BY <2>2, <2>3
<1>6. QED
  BY <1>1, <1>2, <1>3, <1>4, <1>5 DEF TestsNext

(* Beside a domain of the cloud page stands only a verdict about it, and a *)
(* button that is off has its test under way: for any number of tests at a *)
(* time, and whatever the page shows when they end.                        *)
THEOREM VerdictStaysOfItsDomain == TestsSpec => []VerdictIsOfItsDomain
<1>1. TestsInit => TestsIInv
  BY NoVerdictsIInv DEF TestsInit, TestsIInv, VerdictIsOfItsDomain
<1>2. TestsIInv => VerdictIsOfItsDomain
  BY DEF TestsIInv
<1>3. QED
  BY <1>1, <1>2, TestsNextIInv, PTL DEF TestsSpec
=============================================================================
