----------------------------- MODULE DomainTests -----------------------------
(***************************************************************************)
(* The tests of the cloud page (CloudComponent): does a domain resolve     *)
(* outside (the public domain, asked of a public resolver), and in the LAN *)
(* (either domain, asked of the daemon)?                                   *)
(*                                                                         *)
(* Tests run at a time, one of the same domain and kind too, but the page  *)
(* notes one of them as under way, the one that was begun last, and none   *)
(* as soon as any of them has ended.  A test outlives changes of the       *)
(* domains on the page.  A verdict is kept by domain and kind, the one     *)
(* that came last, and what it says is left out.                           *)
(* The buttons are gone while the domains are edited: the model leaves     *)
(* that out, it only takes clicks away.                                    *)
(***************************************************************************)
EXTENDS Naturals, FiniteSets

CONSTANTS
    Domains,    \* names the configuration may have
    MaxTests    \* bound: tests under way

ASSUME TestsAssumption == MaxTests \in Nat

TestKinds == {"external", "internal"}
NoTest == [domain |-> "", kind |-> ""]

VARIABLES
    onCloud,      \* the page is mounted
    domainCard,   \* what it shows: the public and the internal domain
    testing,      \* testingDomain and testType
    tests,        \* those under way
    verdicts      \* testResults: beside a domain and by kind, the domain that the verdict is about, if any

testVars == <<onCloud, domainCard, testing, tests, verdicts>>

TestOf(r) == [domain |-> r.domain, kind |-> r.kind]
NoVerdicts == [d \in Domains |-> [k \in TestKinds |-> {}]]
Cards == [public : Domains, internal : Domains]

TestsInit ==
    /\ onCloud = FALSE /\ domainCard = CHOOSE c \in Cards : TRUE
    /\ testing = NoTest /\ tests = {} /\ verdicts = NoVerdicts

VisitCloud ==
    /\ ~onCloud /\ onCloud' = TRUE /\ domainCard' \in Cards
    /\ UNCHANGED <<testing, tests, verdicts>>

LeaveCloud ==
    /\ onCloud /\ onCloud' = FALSE /\ domainCard' = CHOOSE c \in Cards : TRUE
    /\ testing' = NoTest /\ tests' = {} /\ verdicts' = NoVerdicts

(* The configuration is edited, read again or another instance's.          *)
CardChanges ==
    /\ onCloud /\ domainCard' \in Cards
    /\ UNCHANGED <<onCloud, testing, tests, verdicts>>

Begin(t) ==
    /\ testing # t
    /\ Cardinality(tests) < MaxTests
    /\ testing' = t
    /\ LET id == CHOOSE i \in 1..MaxTests : i \notin {r.id : r \in tests} IN
          tests' = tests \cup {[id |-> id, domain |-> t.domain, kind |-> t.kind]}
    /\ UNCHANGED <<onCloud, domainCard, verdicts>>

TestPublicDomain ==
    /\ onCloud
    /\ \E kind \in TestKinds : Begin([domain |-> domainCard.public, kind |-> kind])

TestInternalDomain ==
    /\ onCloud
    /\ Begin([domain |-> domainCard.internal, kind |-> "internal"])

(* Beside which domain the verdict is put. *)
KeptAtCard(r) == domainCard.public   \* mutant: the one that is on the page
KeptAt(r) == r.domain

(* The answer, or that there was none, is the verdict of its test.         *)
HandleTestDomain(r) ==
    /\ verdicts' = [verdicts EXCEPT ![KeptAt(r)][r.kind] = {r.domain}]
    /\ tests' = tests \ {r}
    /\ testing' = NoTest
    /\ UNCHANGED <<onCloud, domainCard>>

TestsNext ==
    \/ VisitCloud \/ LeaveCloud \/ CardChanges \/ TestPublicDomain \/ TestInternalDomain
    \/ \E r \in tests : HandleTestDomain(r)

TestsSpec == TestsInit /\ [][TestsNext]_testVars

-----------------------------------------------------------------------------
(* However many tests run at a time, and whatever becomes of the domains   *)
(* on the page before they end: a verdict stands beside the domain it is   *)
(* about, and a button that is off has its test under way, whose end       *)
(* brings it back.                                                         *)
VerdictIsOfItsDomain ==
    /\ \A d \in Domains, k \in TestKinds : verdicts[d][k] \subseteq {d}
    /\ testing # NoTest => \E r \in tests : TestOf(r) = testing
=============================================================================
