---------------------------- MODULE Conformance ----------------------------
(***************************************************************************)
(* genai/conformance.go and conformance_evidence.go: CheckConformance runs *)
(* the fixtures of a host against a composition of adapters and judges the *)
(* telemetry they export: is every operation counted once, at a boundary   *)
(* one adapter owns, and is every exported value declared or encoded by    *)
(* the payload policy? Adapters are host code: they record at a boundary   *)
(* any number of times, with any valid usage. A fixture is honest about    *)
(* what it shows and about what happened, and may leave evidence out.      *)
(***************************************************************************)
EXTENDS Integers, Sequences, FiniteSets

CONSTANTS
  Adapters,
  Compositions,  \* what adapters declare: functions from Adapters to Declaration
  FixtureLists,  \* sequences of "runs", "fails" and "missing"
  Usages,        \* usages of an operation
  Spans,         \* what is exported of one recording: usage, named, status, messages, truncated
  MaxInt,        \* the largest int64
  MaxRecords     \* bound: recordings of one fixture

Unknown == -1
Measures == {"input", "output", "cacheRead", "cacheWrite", "reasoning"}
Instruments == {"input", "output", "component"}

ASSUME ConformanceAssumption ==
  /\ MaxInt \in Nat /\ MaxRecords \in Nat /\ IsFiniteSet(Adapters)
  /\ Usages \subseteq [Measures -> Unknown..MaxInt]
  /\ \A s \in Spans : s.usage \in Usages
  /\ FixtureLists \subseteq Seq({"runs", "fails", "missing"})

\* Schema().Boundaries(): a chat is accounted for at the model, never at the agent
\* around it; a third name is not of the schema.
Boundaries == {"model", "agent"}
Names == Boundaries \cup {"unlisted"}
Accounting(b) == b = "model"

Declaration == [compatible : BOOLEAN, boundaries : SUBSET Names, units : SUBSET Measures]

ASSUME CompositionsAssumption == Compositions \subseteq [Adapters -> Declaration]

VARIABLES
  declared, fixtures, policy, happened,  \* the host's declarations, and the facts of its scenario
  phase,      \* "compose", "fixtures"; then "reported" or "refused"
  running,    \* the fixture at hand
  exported,   \* spans at each boundary, in order
  charged,    \* what the instruments hold: count and total
  checked,    \* fixtures with an entry in the report
  failed,     \* fixtures with an entry that did not pass
  shown       \* history: each boundary a fixture without such entries showed, with what was there

hostVars == <<declared, fixtures, policy, happened>>
conformanceVars == <<hostVars, phase, running, exported, charged, checked, failed, shown>>

-----------------------------------------------------------------------------
(* Accounts: int64 sums, three components in one instrument. *)

Int64(n) == ((n + MaxInt + 1) % (2 * (MaxInt + 1))) - (MaxInt + 1)

Value(u, m) == IF u[m] = Unknown THEN 0 ELSE u[m]
Writes(u, m) == IF u[m] = Unknown THEN 0 ELSE 1

Count(u, i) == IF i = "component"
               THEN Writes(u, "cacheRead") + Writes(u, "cacheWrite") + Writes(u, "reasoning")
               ELSE Writes(u, i)
Sum(u, i) == IF i = "component"
             THEN Value(u, "cacheRead") + Value(u, "cacheWrite") + Value(u, "reasoning")
             ELSE Value(u, i)

Charge(u) == [i \in Instruments |-> [count |-> Count(u, i), total |-> Sum(u, i)]]
NoCharge == [i \in Instruments |-> [count |-> 0, total |-> 0]]
Booked(account, u) ==
  [i \in Instruments |-> [count |-> account[i].count + Count(u, i),
                          total |-> Int64(account[i].total + Sum(u, i))]]

\* Usage.Validate: an inclusive total is no less than its components.
ValidUsage(u) ==
  \A p \in {<<"cacheRead", "input">>, <<"cacheWrite", "input">>, <<"reasoning", "output">>} :
    u[p[1]] # Unknown /\ u[p[2]] # Unknown => u[p[1]] <= u[p[2]]

ConformanceInit ==
  /\ declared \in Compositions /\ fixtures \in FixtureLists
  /\ policy \in {"redact", "hash", "raw", "custom"} /\ happened \in {u \in Usages : ValidUsage(u)}
  /\ phase = "compose" /\ running = 1
  /\ exported = [b \in Names |-> <<>>] /\ charged = [b \in Names |-> NoCharge]
  /\ checked = {} /\ failed = {} /\ shown = {}

-----------------------------------------------------------------------------
Owners(b) == {a \in Adapters : b \in declared[a].boundaries}

\* Mutant: an overlap is left to the order of the declarations.
ValidAlone ==
  \A a \in Adapters : declared[a].compatible /\ declared[a].boundaries \subseteq Boundaries

\* validateComposition: profile, mapping and units fit the schema; one owner each.
ValidComposition ==
  /\ \A a \in Adapters : declared[a].compatible /\ declared[a].boundaries \subseteq Boundaries
  /\ \A b \in Boundaries : Cardinality(Owners(b)) <= 1

Compose ==
  /\ phase = "compose"
  /\ phase' = IF ValidComposition /\ fixtures # <<>> THEN "fixtures" ELSE "refused"
  /\ UNCHANGED <<hostVars, running, exported, charged, checked, failed, shown>>

Fixture(kind) == phase = "fixtures" /\ running <= Len(fixtures) /\ fixtures[running] = kind

Recordings(spans) == Len(spans["model"]) + Len(spans["agent"]) + Len(spans["unlisted"])

\* An adapter records; the recorder charges what it is given, once.
AdapterRecords(b) ==
  /\ Fixture("runs") /\ Recordings(exported) < MaxRecords
  /\ \E s \in Spans :
       /\ exported' = [exported EXCEPT ![b] = Append(@, s)]
       /\ charged' = [charged EXCEPT ![b] = Booked(@, s.usage)]
  /\ UNCHANGED <<hostVars, phase, running, checked, failed, shown>>

-----------------------------------------------------------------------------
(* The evidence of one boundary b: of the spans read, with the usage of one *)
(* of them. A fixture may do without a part of the evidence.                *)

Evidence == [without : {"nothing", "accounting", "enums", "payloads"}, split : BOOLEAN, zeros : BOOLEAN]

Witness(i, part, c) == [instrument |-> i, part |-> part, count |-> c.count, total |-> c.total]

\* A list with or without the instruments nothing was written to.
Written(list, ev) == {w \in list : ev.zeros \/ w.count > 0}

Expectation(b, ev) ==
  LET c == IF b = "model" THEN Booked(NoCharge, happened) ELSE NoCharge
  IN Written({Witness(i, 0, c[i]) : i \in Instruments}, ev)

\* split: each recording is a witness of its own.
Witnesses(b, ev) ==
  Written(IF ev.split
         THEN {Witness(i, k, Booked(NoCharge, exported[b][k].usage)[i]) :
                 i \in Instruments, k \in DOMAIN exported[b]}
         ELSE {Witness(i, 0, charged[b][i]) : i \in Instruments}, ev)

\* accountingMap: a negative total, or two entries of one instrument, are no account.
ValidList(list) ==
  /\ \A w \in list : w.total >= 0 /\ (w.count = 0 => w.total = 0)
  /\ \A v, w \in list : v.instrument = w.instrument => v = w

AccountOf(list) ==
  [i \in {w.instrument : w \in list} |->
     LET w == CHOOSE v \in list : v.instrument = i IN [count |-> w.count, total |-> w.total]]

Entry(account, i) == IF i \in DOMAIN account THEN account[i] ELSE NoCharge[i]

\* usageAccountingMatches: a sum beyond int64 matches nothing.
UsageMatches(u, account) ==
  \A i \in Instruments : Sum(u, i) <= MaxInt /\ Entry(account, i) = Charge(u)[i]

\* validAccounting; one span is expected, and series tell of charges at the agent.
ValidAccounting(b, u, ev) ==
  LET expected == Expectation(b, ev)
      actual == Witnesses(b, ev)
  IN /\ ev.without # "accounting" /\ Len(exported[b]) = 1
     /\ ValidList(expected) /\ ValidList(actual)
     /\ AccountOf(actual) = AccountOf(expected)
     /\ IF Accounting(b) THEN UsageMatches(u, AccountOf(expected))
        ELSE \A i \in Instruments : Entry(AccountOf(actual), i) = NoCharge[i] /\ charged[b][i].count = 0

Absent == "absent"
Given(b, read, name) == {k \in read : exported[b][k][name] # Absent}
Fields == {"named", "status", "messages", "truncated"}

\* compatibleObservedFields: no field twice, and the operation is required.
ValidFields(b, read) ==
  /\ \A name \in Fields : Cardinality(Given(b, read, name)) <= 1
  /\ Given(b, read, "named") # {}

\* enumValueAllowed, of message roles: the vocabulary, or what the policy makes of others.
RoleAllowed(v) ==
  \/ v = "known"
  \/ policy = "raw" /\ v # "malformed"
  \/ policy = "redact" /\ v = "redacted"
  \/ policy = "hash" /\ v = "fingerprint"

\* validObservedEnums: evidence of every enum exported, each with a declared value.
ValidEnums(b, read, ev) ==
  LET given == Given(b, read, "status")
  IN /\ given = {} \/ (ev.without # "enums" /\ Cardinality(given) = 1)
     /\ \A k \in given : exported[b][k].status = "declared"

\* Mutant: channels nothing is shown of are skipped.
ShownPayloads(b, read, ev) ==
  LET given == Given(b, read, "messages")
  IN ev.without # "payloads" =>
       /\ Cardinality(given) <= 1
       /\ Given(b, read, "truncated") # {} => given # {}
       /\ \A k \in given : RoleAllowed(exported[b][k].messages)

\* completePayloadEvidence and validPayloadEvidence: every channel exported is
\* shown, is of the wire shape, and holds no label the policy lets through; a
\* marker of truncation is of a channel shown.
ValidPayloads(b, read, ev) ==
  LET given == Given(b, read, "messages")
  IN /\ given = {} \/ (ev.without # "payloads" /\ Cardinality(given) = 1)
     /\ Given(b, read, "truncated") # {} => given # {} /\ ev.without # "payloads"
     /\ \A k \in given : RoleAllowed(exported[b][k].messages)

\* observedOwnerUnits: the owner's units, if it lists any, cover what is present.
ValidUnits(b, u) ==
  \E a \in Owners(b) :
    declared[a].units = {} \/ {m \in Measures : u[m] # Unknown} \subseteq declared[a].units

Rules == {"ownership", "boundary", "fields", "usage", "owner_units", "accounting", "enum_values",
          "payload_evidence"}

\* checkObservation and checkEvidence.
Holds(rule, b, read, u, ev) ==
  CASE rule = "ownership" -> Owners(b) # {}
    [] rule = "boundary" -> b \in Boundaries
    [] rule = "fields" -> ValidFields(b, read)
    [] rule = "usage" -> ValidUsage(u)
    [] rule = "owner_units" -> ValidUnits(b, u)
    [] rule = "accounting" -> ValidAccounting(b, u, ev)
    [] rule = "enum_values" -> ValidEnums(b, read, ev)
    [] rule = "payload_evidence" -> ValidPayloads(b, read, ev)

-----------------------------------------------------------------------------
\* The next fixture has its own telemetry.
NextFixture ==
  /\ running' = running + 1
  /\ exported' = [b \in Names |-> <<>>] /\ charged' = [b \in Names |-> NoCharge]

Judge(passed) ==
  /\ checked' = checked \cup {running}
  /\ failed' = IF passed THEN failed ELSE failed \cup {running}

NoUsage == [m \in Measures |-> Unknown]

\* The body of the loop of CheckConformance for a fixture that returns: the
\* boundaries it shows, and of each the spans it reads and one usage among them.
FixtureReturns ==
  /\ Fixture("runs")
  /\ \E bs \in SUBSET Names, ev \in Evidence, first \in BOOLEAN :
       LET read(b) == IF first THEN DOMAIN exported[b] \cap {1} ELSE DOMAIN exported[b]
           usage(b) == IF exported[b] = <<>> THEN NoUsage ELSE exported[b][1].usage
           passes == bs # {} /\ \A b \in bs : \A r \in Rules : Holds(r, b, read(b), usage(b), ev)
           exhibit(b) == [fixture |-> running, boundary |-> b, spans |-> exported[b],
                          account |-> charged[b]]
       IN /\ Judge(passes)
          /\ shown' = IF passes THEN shown \cup {exhibit(b) : b \in bs} ELSE shown
  /\ NextFixture
  /\ UNCHANGED <<hostVars, phase>>

\* Its error becomes an entry without its text, and the other fixtures still run.
FixtureFails ==
  /\ Fixture("fails")
  /\ Judge(FALSE) /\ NextFixture
  /\ UNCHANGED <<hostVars, phase, shown>>

\* A nil fixture: what was judged before it is not reported.
FixtureMissing ==
  /\ Fixture("missing")
  /\ phase' = "refused"
  /\ UNCHANGED <<hostVars, running, exported, charged, checked, failed, shown>>

Report ==
  /\ phase = "fixtures" /\ running > Len(fixtures)
  /\ phase' = "reported"
  /\ UNCHANGED <<hostVars, running, exported, charged, checked, failed, shown>>

ConformanceNext ==
  \/ Compose \/ FixtureReturns \/ FixtureFails \/ FixtureMissing \/ Report
  \/ \E b \in Names : AdapterRecords(b)

ConformanceSpec == ConformanceInit /\ [][ConformanceNext]_conformanceVars

\* ConformanceReport.Passed.
ReportPassed == phase = "reported" /\ checked # {} /\ failed = {}

-----------------------------------------------------------------------------
Accounts == [Instruments -> [count : 0..3 * MaxRecords, total : -(MaxInt + 1)..MaxInt]]

ConformanceTypeOK ==
  /\ declared \in Compositions /\ fixtures \in FixtureLists /\ happened \in Usages
  /\ phase \in {"compose", "fixtures", "reported", "refused"} /\ running \in 1..Len(fixtures) + 1
  /\ exported \in [Names -> Seq(Spans)]
  /\ charged \in [Names -> Accounts]
  /\ checked \subseteq 1..Len(fixtures)
  /\ failed \subseteq checked

\* What a passing report shows of a boundary was recorded once, and what the
\* instruments hold of it is that recording, with no sum wrapped, and what happened:
\* no adapter counted it again, none counted it short, and nothing was charged around
\* the model. (Beyond int64 the fixture expects what an instrument can hold.)
CountedOnce ==
  ReportPassed => \A e \in shown :
    /\ Len(e.spans) = 1
    /\ e.boundary = "model" => e.account = Charge(e.spans[1].usage) /\ e.account = Booked(NoCharge, happened)
    /\ e.boundary = "model" /\ (\A i \in Instruments : Sum(happened, i) <= MaxInt) => e.account = Charge(happened)
    /\ e.boundary # "model" => e.account = NoCharge

\* A boundary that passes has one owner, whose units cover its measures; two
\* adapters that claim it are refused before any fixture runs.
OneOwner ==
  /\ phase \in {"fixtures", "reported"} => \A b \in Names : Cardinality(Owners(b)) <= 1
  /\ ReportPassed => \A e \in shown : \E a \in Adapters :
       /\ Owners(e.boundary) = {a}
       /\ declared[a].units # {} =>
            \A k \in DOMAIN e.spans : \A m \in Measures :
              e.spans[k].usage[m] # Unknown => m \in declared[a].units

\* No fixture is passed over: a report speaks of each, and of one that failed or
\* showed nothing it says so.
EveryFixtureIsJudged ==
  phase = "reported" =>
    /\ checked = DOMAIN fixtures
    /\ \A f \in DOMAIN fixtures :
         fixtures[f] = "fails" \/ (\A e \in shown : e.fixture # f) => f \in failed

\* What a passing report shows was vetted although evidence may be left out: no
\* undeclared value, no payload but as the policy lets it through.
NothingUnvettedPasses ==
  ReportPassed => \A e \in shown : \A k \in DOMAIN e.spans :
    LET s == e.spans[k]
    IN /\ s.named # Absent /\ s.status \in {Absent, "declared"}
       /\ s.messages # Absent => RoleAllowed(s.messages)
       /\ s.truncated # Absent => s.messages # Absent

\* A report that passes tells the truth about the composition.
PassedMeansCountedOnce ==
  ConformanceTypeOK /\ CountedOnce /\ OneOwner /\ EveryFixtureIsJudged
=============================================================================
